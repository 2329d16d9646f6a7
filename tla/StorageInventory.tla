--------------------------- MODULE StorageInventory ---------------------------
(***************************************************************************)
(* The overview of known storage locations (core/src/storage_inventory.rs):  *)
(* it looks each route up from the authorized home folder, adds up what is   *)
(* below it without opening a file, and looks the route up again, while      *)
(* other programs write, move and replace things.                            *)
(*                                                                         *)
(* A version stands for the timestamps of an object: a write, a rename and,   *)
(* for a folder, an entry that comes or goes make a new one.                 *)
(***************************************************************************)
EXTENDS Naturals, Sequences, FiniteSets, SequencesExt, TLC

CONSTANTS
    None,
    Kind,          \* of each object: "folder", "file", "fenced" (a link, a placeholder, another
                   \* volume), "foreign" (of another user), "cloud" (by its name), "special"
    Worlds,        \* what may be at each place, <<folder, name>>, at first
    Moves,         \* the moves that other programs make: pairs of places
    Routes,        \* [names, fileOnly, skip, only]
    Home,          \* the authorized folder
    EntriesPerRoute, TotalEntries, Depth, MaxIssues,
    Word,          \* sums are below this
    MaxChanges     \* bounds what other programs do

VARIABLES
    holds, version, size, now,   \* the file system (external)
    pc,
    route,         \* the number of the one at hand; 0: the home folder
    look,          \* a lookup: where it is, what names are left, and what was found
    home, place,   \* the home folder, and the location of the route, as they were found
    stack, row, inodes, entries,
    report,
    was            \* history: what the route led to since it was looked up again

vars == <<holds, version, size, now, pc, route, look, home, place, stack, row, inodes, entries,
          report, was>>
world == <<holds, version, size, now>>

Objects == DOMAIN Kind
Places == DOMAIN holds
Content(d) == {p[2] : p \in {q \in Places : q[1] = d /\ holds[q] # None}}
At(d, name) == IF <<d, name>> \in Places THEN holds[<<d, name>>] ELSE None
Meta(o) == [object |-> o, version |-> version[o]]
\* Where names lead from d, all at once.
Lead(d, names) ==
    FoldLeft(LAMBDA o, name : IF o = None THEN None ELSE At(o, name), d, names)

NoRow == [state |-> None]
NoLook == [at |-> None, names |-> <<>>, meta |-> None]

Init ==
    /\ holds \in Worlds
    /\ version = [o \in Objects |-> 0] /\ size = [o \in Objects |-> 1] /\ now = 0
    /\ pc = "look" /\ route = 0
    /\ look = [at |-> "top", names |-> <<"home">>, meta |-> None]
    /\ home = None /\ place = None
    /\ stack = <<>> /\ row = NoRow /\ inodes = {} /\ entries = 0
    /\ report = [rows |-> <<>>, issues |-> 0, omitted |-> 0, examined |-> 0, complete |-> TRUE]
    /\ was = {}

-----------------------------------------------------------------------------
(* Other programs                                                          *)

\* Where the route leads from the home folder that was opened.
Target == IF home = None \/ route \notin DOMAIN Routes THEN None
          ELSE Lead(home.object, Routes[route].names)
Touch(S) ==
    /\ now < MaxChanges /\ pc # "done"
    /\ now' = now + 1
    /\ version' = [o \in Objects |-> IF o \in S THEN now' ELSE version[o]]
    /\ UNCHANGED <<pc, route, look, home, place, stack, row, inodes, entries, report>>
Write(o) ==
    /\ Kind[o] = "file" /\ size[o] = 1
    /\ size' = [size EXCEPT ![o] = 2]
    /\ Touch({o}) /\ UNCHANGED <<holds, was>>
\* A rename replaces what is at its target.
Move(p, q) ==
    /\ holds[p] # None
    /\ holds' = [holds EXCEPT ![p] = None, ![q] = holds[p]]
    /\ Touch({p[1], q[1], holds[p]}) /\ UNCHANGED size
    /\ was' = IF was = {} THEN {} ELSE was \cup {Target'}
Change == (\E o \in Objects : Write(o)) \/ (\E m \in Moves : Move(m[1], m[2]))

-----------------------------------------------------------------------------
(* The report                                                              *)

\* One more issue, of which so many are kept.
Issue(r) ==
    IF r.issues < MaxIssues
    THEN [r EXCEPT !.complete = FALSE, !.issues = @ + 1]
    ELSE [r EXCEPT !.complete = FALSE, !.omitted = @ + 1]
Go(to) == pc' = to
OnlyReport(to) ==
    /\ Go(to)
    /\ UNCHANGED <<world, route, look, home, place, stack, row, inodes, entries, was>>

-----------------------------------------------------------------------------
(* Looking up: locate, open_absolute_directory, verify_location            *)

\* Where an unsuccessful lookup leads: "open" is the first of the home folder, "locate" and
\* "verify" those of a route, "close" the last of the home folder.
Aim == IF home = None THEN "open" ELSE IF route > Len(Routes) THEN "close"
       ELSE IF row.state = None THEN "locate" ELSE "verify"
Verified == [row EXCEPT !.state = "partial", !.bytes = None]
Finish(found) ==
    CASE Aim = "open" ->
            /\ home' = IF found = Home THEN look.meta ELSE None
            /\ report' = IF found = Home THEN report ELSE Issue(report)
            /\ Go(IF found = Home THEN "route" ELSE "done")
            /\ UNCHANGED <<place, row>>
      [] Aim = "close" ->
            /\ report' = IF found = home.object THEN report ELSE Issue([report EXCEPT !.rows = <<>>])
            /\ Go("done") /\ UNCHANGED <<home, place, row>>
      [] Aim = "locate" ->
            /\ report' = IF found = None THEN Issue(report) ELSE report
            /\ Go(IF found = None THEN "route" ELSE "measure")
            /\ place' = IF found = None THEN None
                        ELSE [parent |-> look.at, name |-> look.names[1], meta |-> Meta(found)]
            /\ UNCHANGED <<home, row>>
      [] Aim = "verify" ->
            /\ row' = IF found = place.meta.object THEN row ELSE Verified
            /\ report' = IF found = place.meta.object THEN report ELSE Issue(report)
            /\ Go("add") /\ UNCHANGED <<home, place>>
Found(o) ==
    /\ Finish(o)
    /\ look' = NoLook
    /\ UNCHANGED <<world, route, stack, inodes, entries, was>>
\* The look at one name, which is not followed if it is a link.
LookUp ==
    /\ pc = "look"
    /\ LET o == At(look.at, look.names[1])
           last == Len(look.names) = 1
       IN  IF o = None /\ Aim = "locate"
           THEN /\ Go("route") /\ look' = NoLook      \* it is absent, which is no issue
                /\ UNCHANGED <<world, route, home, place, stack, row, inodes, entries, report, was>>
           ELSE IF o = None THEN Found(None)
           ELSE IF Kind[o] = "fenced" THEN Found(None)
           ELSE IF last /\ Aim \in {"locate", "verify"} THEN Found(o)
           ELSE IF Kind[o] \notin {"folder", "foreign"} THEN Found(None)
           ELSE /\ look' = [look EXCEPT !.meta = Meta(o)] /\ Go("enter")
                /\ UNCHANGED <<world, route, home, place, stack, row, inodes, entries, report, was>>
\* What is there when the name is opened must be as it was found.
Enter ==
    /\ pc = "enter"
    /\ LET o == At(look.at, look.names[1])
       IN  IF o = None THEN Found(None)
           ELSE IF Meta(o) # look.meta THEN Found(None)
           ELSE IF Len(look.names) = 1 THEN Found(o)
           ELSE /\ look' = [at |-> o, names |-> Tail(look.names), meta |-> None] /\ Go("look")
                /\ UNCHANGED <<world, route, home, place, stack, row, inodes, entries, report, was>>

-----------------------------------------------------------------------------
(* Measuring a route                                                       *)

Begin(names, from) ==
    /\ look' = [at |-> from, names |-> names, meta |-> None] /\ Go("look")
\* measure: the limits come first; after the last route the home folder is looked up again.
Route ==
    /\ pc = "route"
    /\ row' = NoRow /\ place' = None /\ route' = route + 1
    /\ IF route = Len(Routes)
       THEN Begin(<<"home">>, "top") /\ UNCHANGED <<report, was>>
       ELSE /\ was' = {}
            /\ \/ /\ report.examined < TotalEntries
                  /\ Begin(Routes[route + 1].names, home.object) /\ UNCHANGED report
               \* Too many entries, or the time is over.
               \/ report' = Issue(report) /\ Go("route") /\ UNCHANGED look
    /\ UNCHANGED <<world, home, stack, inodes, entries>>

Row(state, bytes, files) ==
    [state |-> state, object |-> place.meta.object, bytes |-> bytes, files |-> files,
     listed |-> TRUE]
Measure ==
    /\ pc = "measure"
    /\ LET o == place.meta.object
           counted == [report EXCEPT !.examined = @ + 1]
           there == At(place.parent, place.name)
           unchanged == IF there = None THEN FALSE ELSE Meta(there) = place.meta
           unusable == \/ Kind[o] \notin {"folder", "file", "cloud"}
                       \/ Routes[route].fileOnly # (Kind[o] = "file")
       IN  IF unusable
           THEN /\ row' = Row("unavailable", 0, 0) /\ report' = Issue(counted)
                /\ Go("again") /\ UNCHANGED <<stack, inodes, entries>>
           \* A file that is not as it was when it was looked up.
           ELSE IF Kind[o] = "file"
           THEN /\ row' = Row(IF unchanged THEN "complete" ELSE "partial", size[o], 1)
                /\ report' = IF unchanged THEN counted ELSE Issue(counted)
                /\ Go("again") /\ UNCHANGED <<stack, inodes, entries>>
           ELSE IF ~unchanged
           THEN /\ row' = Row("unavailable", 0, 0) /\ report' = Issue(counted)
                /\ Go("again") /\ UNCHANGED <<stack, inodes, entries>>
           ELSE /\ row' = Row("complete", 0, 0) /\ report' = counted /\ Go("walk")
                /\ stack' = <<[meta |-> place.meta, name |-> place.name, first |-> Content(o),
                               read |-> {}]>>
                /\ inodes' = {} /\ entries' = 1
    /\ UNCHANGED <<world, route, look, home, place, was>>

Top == Last(stack)
Partial == row' = [row EXCEPT !.state = "partial"]
\* walk stops, and measure looks the route up again.
Leave ==
    /\ Go("again") /\ stack' = <<>> /\ inodes' = {} /\ entries' = 0
    /\ UNCHANGED <<world, route, look, home, place, was>>
Stay == Go("walk") /\ UNCHANGED <<world, route, look, home, place, was>>
LimitReached ==
    /\ pc = "walk" /\ stack # <<>>
    /\ Partial /\ report' = Issue(report) /\ Leave
Affordable == report.examined < TotalEntries /\ entries < EntriesPerRoute
Walked == pc = "walk" /\ stack = <<>> /\ Leave /\ UNCHANGED <<row, report>>

\* The next name: one that was there at first or that came since, in any order.
Unread == (Top.first \cup Content(Top.meta.object)) \ Top.read
Failed == Partial /\ report' = Issue([report EXCEPT !.examined = @ + 1]) /\ UNCHANGED inodes
Skipped(name) ==
    \/ Len(stack) = 1 /\ name \in Routes[route].skip
    \/ Routes[route].only # None /\ name \notin Routes[route].only
ReadTop(name) == [stack EXCEPT ![Len(stack)].read = @ \cup {name}]
Entry(name) ==
    LET o == At(Top.meta.object, name)
        examined == [report EXCEPT !.examined = @ + 1]
    IN  /\ pc = "walk" /\ stack # <<>> /\ Affordable /\ name \in Unread
        /\ entries' = entries + 1
        /\ IF Skipped(name) THEN UNCHANGED <<row, inodes>> /\ report' = examined /\ stack' = ReadTop(name)
           ELSE IF o = None THEN Failed /\ stack' = ReadTop(name)
           ELSE IF Kind[o] \in {"fenced", "foreign", "special"} THEN Failed /\ stack' = ReadTop(name)
           ELSE IF Kind[o] = "file"
           THEN /\ inodes' = inodes \cup {o} /\ stack' = ReadTop(name)
                /\ IF o \notin inodes /\ row.bytes + size[o] >= Word
                   THEN /\ row' = [row EXCEPT !.state = "unavailable", !.files = @ + 1]
                        /\ report' = Issue(examined)
                   ELSE /\ row' = [row EXCEPT !.files = @ + 1,
                                              !.bytes = IF o \in inodes THEN @ ELSE @ + size[o]]
                        /\ report' = examined
           ELSE IF Routes[route].only # None
           THEN UNCHANGED <<row, inodes>> /\ report' = examined /\ stack' = ReadTop(name)
           ELSE IF Len(stack) >= Depth \/ Kind[o] = "cloud"
           THEN Failed /\ stack' = ReadTop(name)
           \* Entering is a step of its own.
           ELSE /\ UNCHANGED <<row, inodes>> /\ report' = examined
                /\ stack' = Append(ReadTop(name), [meta |-> Meta(o), name |-> name, first |-> None,
                                                   read |-> {}])
        /\ IF row'.state = "unavailable"
           THEN Go("again") /\ UNCHANGED <<world, route, look, home, place, was>>
           ELSE Stay
Ready == pc = "walk" /\ stack # <<>> /\ Top.first # None
Below == IF Len(stack) = 1 THEN place.parent ELSE stack[Len(stack) - 1].meta.object
InPlace ==
    LET o == At(Below, Top.name)
    IN  IF o = None THEN FALSE ELSE Meta(o) = Top.meta
\* Directory::open: it must be as it was when its entry was read.
Open ==
    /\ pc = "walk" /\ stack # <<>> /\ Top.first = None
    /\ IF InPlace
       THEN /\ stack' = [stack EXCEPT ![Len(stack)].first = Content(Top.meta.object)]
            /\ UNCHANGED <<row, report>>
       ELSE stack' = Front(stack) /\ Partial /\ report' = Issue(report)
    /\ UNCHANGED <<inodes, entries>> /\ Stay
\* Faulty on purpose: a folder is not looked at again when it was read.
TrustingEnd ==
    /\ Ready /\ Affordable /\ Top.first \cap Content(Top.meta.object) \subseteq Top.read
    /\ row' = [row EXCEPT !.listed = @ /\ Top.read = Content(Top.meta.object)]
    /\ stack' = Front(stack) /\ UNCHANGED <<report, inodes, entries>> /\ Stay
\* The folder was read: it must be the same, at the same place, as before.
End ==
    /\ Ready /\ Affordable /\ Top.first \cap Content(Top.meta.object) \subseteq Top.read
    /\ IF version[Top.meta.object] = Top.meta.version /\ InPlace
       THEN /\ row' = [row EXCEPT !.listed = @ /\ Top.read = Content(Top.meta.object)]
            /\ UNCHANGED report
       ELSE Partial /\ report' = Issue(report)
    /\ stack' = Front(stack) /\ UNCHANGED <<inodes, entries>> /\ Stay
Walk ==
    \/ Ready /\ ((\E name \in Unread : Entry(name)) \/ LimitReached)
    \/ Open \/ End \/ Walked

Again ==
    /\ pc = "again"
    /\ stack' = <<>> /\ inodes' = {} /\ entries' = 0
    /\ Begin(Routes[route].names, home.object) /\ was' = {Target}
    /\ UNCHANGED <<world, route, home, place, row, report>>
\* A row that says nothing has no sums, and an empty folder is no row.
Add ==
    /\ pc = "add"
    /\ LET sums == IF row.state = "unavailable" \/ (row.state = "partial" /\ row.files = 0)
                   THEN [row EXCEPT !.bytes = None] ELSE row
           said == [route |-> route, was |-> was] @@ sums
       IN  report' = IF row.state # "complete" \/ row.files > 0
                     THEN [report EXCEPT !.rows = Append(@, said)] ELSE report
    /\ OnlyReport("route")

Next ==
    \/ Change
    \/ LookUp \/ Enter \/ Route \/ Measure \/ Walk \/ Again \/ Add

Spec == Init /\ [][Next]_vars

-----------------------------------------------------------------------------
(* Properties                                                              *)

Rows == {report.rows[n] : n \in DOMAIN report.rows}

\* "Re-resolve the route from its original anchor before using that pathname as the label": a
\* row with sums is of an object to which its route led, all at once, when all was read.
RowsAreWhereTheySay ==
    \A r \in Rows : r.bytes # None => r.object \in r.was

\* A complete row: each of its folders was, when it was left, as it had been read; and if
\* nothing changed then its sums are those of the files below, each counted once.
CompleteRowsAreTrue ==
    \A r \in Rows :
        LET skip == Routes[r.route].skip
            upper == {<<r.object, n>> : n \in Content(r.object) \ skip}
            lower == UNION {{<<holds[p], n>> : n \in Content(holds[p])} : p \in upper}
            files == {p \in upper \cup lower : Kind[holds[p]] = "file"}
        IN  r.state = "complete" =>
                /\ r.listed
                /\ (now = 0 /\ Kind[r.object] = "folder" /\ Routes[r.route].only = None) =>
                      /\ r.bytes = Cardinality({holds[p] : p \in files})
                      /\ r.files = Cardinality(files)

\* "Complete coverage of these fixed routes only": a complete report has no issue, all its
\* rows are complete, and, if nothing changed, no route with a file is missing; it keeps to
\* its limits.
CompleteIsEarned ==
    /\ report.examined <= TotalEntries /\ report.issues <= MaxIssues
    /\ report.omitted > 0 => report.issues = MaxIssues
    /\ report.complete => report.issues = 0 /\ \A r \in Rows : r.state = "complete"
    /\ (report.complete /\ pc = "done" /\ now = 0) =>
          \A n \in DOMAIN Routes :
              LET o == Lead(home.object, Routes[n].names)
              IN  (o # None /\ n \notin {r.route : r \in Rows}) =>
                      Kind[o] = "folder" /\ \A p \in Places :
                          (p[1] = o /\ p[2] \notin Routes[n].skip /\ holds[p] # None) =>
                              Kind[holds[p]] # "file" \/ Routes[n].only # None

=============================================================================
