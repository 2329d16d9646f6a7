--------------------------------- MODULE MCLibrary ---------------------------------
(* The cleanup ledger, and the parts that bring changes to the engine and   *)
(* show what it has: each behaviour is a behaviour of one part.             *)
EXTENDS MCCleanupLedger, Sequences

CONSTANTS r1, i1, i2

\* part says whose behaviour it is; the slots hold the variables of that part,
\* and the slots it does not need hold None.
VARIABLES
    part,
    x1, x2, x3, x4, x5, x6, x7, x8, x9, x10, x11, x12, x13, x14, x15, x16,
    x17, x18, x19, x20, x21, x22, x23, x24, x25

slots == <<x1, x2, x3, x4, x5, x6, x7, x8, x9, x10, x11, x12, x13, x14, x15,
           x16, x17, x18, x19, x20, x21, x22, x23, x24, x25>>
parts == <<part, vars, slots>>

\* The routes of a home grant that the tables tell apart, and a plain folder's.
Caches == <<"Library", "Caches">>
Support == <<"Library", "Application Support">>
HomeRoutes ==
    {<<>>, Caches, Caches \o <<"node">>, Caches \o <<"Google">>,
     Caches \o <<"Google", "Chrome">>, <<"Library", "Logs">>,
     <<"Library", "Developer", "Xcode", "DerivedData">>, Support,
     Support \o <<"Google", "GoogleUpdater">>, <<"Library">>,
     <<"Library", "org.swift.swiftpm">>, <<".npm">>, <<".npm", "_cacache">>,
     <<".cache", "opencode">>, <<"Music">>, <<"Documents">>, <<"Downloads">>, <<"target">>}
SomeRoutes == [home |-> HomeRoutes, projects |-> {<<>>, <<"shop">>}, folder |-> {<<>>, <<"shop">>}]
SomeNames == {"plain", "target", "package.json", "Cargo.lock", "plan.pdf", ".git",
              "objects", ".cargo", "config", ".chippytea-1", "Slack", "Cache",
              "crx_cache", "yarn", "corepack", "Chrome"}

\* One folder, batches of one event, two of them queued.
Delivery == INSTANCE EventDelivery WITH
    Roots <- {r1}, MaxBatchEvents <- 1, MaxQueuedBatches <- 2,
    MaxChanges <- 3, MaxRestarts <- 1, MaxFaults <- 1, changes <- x1,
    restarts <- x2, faults <- x3, stream <- x4, callback <- x5,
    delayed <- x6, pending <- x7, active <- x8, scheduled <- x9,
    revision <- x10, cursor <- x11, firstCursor <- x12, receiptFailed <- x13,
    drain <- x14, todo <- x15, asking <- x16, saving <- x17, reply <- x18,
    durable <- x19, told <- x20, looked <- x21, early <- x22
ASSUME DeliveryIsBounded == Delivery!DeliveryAssumption

\* Two items, three acts of the user or jobs, one lost answer.
View == INSTANCE LibraryView WITH
    Items <- {i1, i2}, MaxEvents <- 3, MaxFaults <- 1, MaxReads <- 3,
    present <- x1, scanning <- x2, pending <- x3, collected <- x4,
    version <- x5, faults <- x6, events <- x7, queue <- x8, answers <- x9,
    snapshotRequest <- x10, applied <- x11, shown <- x12, demand <- x13,
    poll <- x14, demanded <- x15, active <- x16, queued <- x17,
    executing <- x18, running <- x19, cancelled <- x20, preview <- x21,
    wanted <- x22, collecting <- x23, confirmed <- x24, cleaned <- x25
ASSUME ViewIsBounded == View!ViewAssumption

\* An event of every kind at every route, one or two names below it.
Scopes == INSTANCE EventScopes WITH
    Routes <- SomeRoutes, Names <- SomeNames, root <- x1, path <- x2,
    kind <- x3, recursive <- x4, indexed <- x5, told <- x6

PartsInit ==
    /\ Init
    /\ \/ part = "ledger"
          /\ x1 = None /\ x2 = None /\ x3 = None /\ x4 = None /\ x5 = None
          /\ x6 = None /\ x7 = None /\ x8 = None /\ x9 = None /\ x10 = None
          /\ x11 = None /\ x12 = None /\ x13 = None /\ x14 = None
          /\ x15 = None /\ x16 = None /\ x17 = None /\ x18 = None
          /\ x19 = None /\ x20 = None /\ x21 = None /\ x22 = None
          /\ x23 = None /\ x24 = None /\ x25 = None
       \/ part = "delivery" /\ Delivery!Init
          /\ x23 = None /\ x24 = None /\ x25 = None
       \/ part = "view" /\ View!Init
       \/ part = "scopes" /\ Scopes!Init
          /\ x7 = None /\ x8 = None /\ x9 = None /\ x10 = None /\ x11 = None
          /\ x12 = None /\ x13 = None /\ x14 = None /\ x15 = None
          /\ x16 = None /\ x17 = None /\ x18 = None /\ x19 = None
          /\ x20 = None /\ x21 = None /\ x22 = None /\ x23 = None
          /\ x24 = None /\ x25 = None

PartsNext ==
    \/ part = "ledger" /\ Next /\ UNCHANGED <<part, slots>>
    \/ part = "delivery" /\ Delivery!Next
       /\ UNCHANGED <<part, vars, x23, x24, x25>>
    \/ part = "view" /\ View!Next
       /\ UNCHANGED <<part, vars>>
    \/ part = "scopes" /\ Scopes!Next
       /\ UNCHANGED <<part, vars, x7, x8, x9, x10, x11, x12, x13, x14, x15,
                      x16, x17, x18, x19, x20, x21, x22, x23, x24, x25>>

PartsSpec == PartsInit /\ [][PartsNext]_parts

\* The cursor never passes a change that the journal was not told of, a change it
\* was not told of is still on its way, and the mailbox keeps within its limit.
EventsArrive ==
    part = "delivery" =>
           Delivery!NothingIsSkipped /\ Delivery!NothingIsForgotten /\ Delivery!MailboxIsBounded
\* An item that was removed is never offered again, and at rest the view is the
\* engine's state and no cleanup waits.
ViewIsHonest ==
    part = "view" => View!TypeOK /\ View!NoGhosts /\ View!ViewSettles
\* The scope of an event is one the journal takes as it is; an event inside of a
\* suggested unit refreshes the unit as a whole, one for a Cargo.lock the target
\* beside it, and resolving a scope never loses the event.
ScopesServe ==
    part = "scopes" =>
           Scopes!ScopesAgree /\ Scopes!UnitsAreRefreshed /\ Scopes!LockNamesItsTarget /\ Scopes!ResolvedAround
\* The view never goes back to an earlier state of the engine, and the balance does
\* not fall when chips are collected.
ViewMovesForward ==
    [][part = "view" => View!NoStepBack /\ View!FallsOnlyEstimated]_parts

=============================================================================
