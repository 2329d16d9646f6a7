----------------------------- MODULE WorkspaceGlobs -----------------------------
(***************************************************************************)
(* Which projects the pattern of a workspace takes in (workspace_component *)
(* and workspace_pattern in core/src/scanner.rs).  A character is a string  *)
(* of one letter, a part of a pattern and a component of a path are         *)
(* sequences of them, a pattern and a path sequences of those.              *)
(* The path of the workspace itself has one component, which is empty.      *)
(***************************************************************************)
EXTENDS Naturals, Sequences, SequencesExt

CONSTANTS
    Parts,        \* the parts of which patterns are made
    Components,   \* the components of which paths are made
    MaxParts, MaxComponents

VARIABLES
    pattern, path,
    at,           \* the part that is next, and what the loop knows: which beginnings
    row,          \* of the path the parts before it match
    result        \* "open" until it is known

vars == <<pattern, path, at, row, result>>

Star == "*"
Hidden(c) == c # <<>> /\ c[1] = "."
Globstar == <<Star, Star>>

-----------------------------------------------------------------------------
(* workspace_component                                                     *)

\* pattern.split('*')
Literals(p) ==
    FoldLeft(LAMBDA s, c : IF c = Star THEN Append(s, <<>>)
                           ELSE [s EXCEPT ![Len(s)] = Append(@, c)], <<<<>>>>, p)

\* What is left of c after the first occurrence of a literal in it; "none" if there
\* is none, or was none for an earlier one.
After(c, literal) ==
    LET at0 == {i \in 0..Len(c) : IsPrefix(literal, SubSeq(c, i + 1, Len(c)))}
        first == CHOOSE i \in at0 : \A j \in at0 : i <= j
    IN  IF at0 = {} THEN <<"none">> ELSE SubSeq(c, first + Len(literal) + 1, Len(c))
Found(c, literals) ==
    LET left == FoldLeft(LAMBDA r, l : IF r = <<"none">> THEN r ELSE After(r, l), c, literals)
    IN  left # <<"none">>

\* Faulty on purpose: the end may overlap with the beginning.
ComponentOverlaps(p, c) ==
    LET l == Literals(p)
    IN  /\ Hidden(c) => Hidden(p)
        /\ IsPrefix(l[1], c)
        /\ IF Len(l) = 1 THEN l[1] = c
           ELSE IsSuffix(l[Len(l)], c) /\ Found(c, SubSeq(l, 2, Len(l) - 1))
Component(p, c) ==
    LET l == Literals(p)
        rest == SubSeq(c, Len(l[1]) + 1, Len(c))
    IN  /\ Hidden(c) => Hidden(p)
        /\ IsPrefix(l[1], c)
        /\ IF Len(l) = 1 THEN rest = <<>>
           ELSE /\ IsSuffix(l[Len(l)], rest)
                /\ Found(SubSeq(rest, 1, Len(rest) - Len(l[Len(l)])), SubSeq(l, 2, Len(l) - 1))

-----------------------------------------------------------------------------
(* workspace_pattern                                                       *)

\* Slashes at the end go, and then one "./" at the beginning.
Trimmed(p) ==
    LET kept == {n \in 1..Len(p) : p[n] # <<>>}
        last == IF kept = {} THEN 1 ELSE CHOOSE n \in kept : \A m \in kept : m <= n
        t == SubSeq(p, 1, last)
    IN  IF Len(t) > 1 /\ t[1] = <<".">> THEN Tail(t) ELSE t

Unsupported(part) ==
    \/ part \in {<<>>, <<".">>, <<".", ".">>}
    \/ part # Globstar /\ \E i \in 1..(Len(part) - 1) : part[i] = Star /\ part[i + 1] = Star
    \/ \E i \in DOMAIN part : part[i] = "?"

Recursive(p) == Globstar \in {p[i] : i \in DOMAIN p}

\* Without "**" a part is for one component.
Plain(p, c) == Len(p) = Len(c) /\ \A i \in DOMAIN p : Component(p[i], c[i])

\* Sequences of m to n elements of S.
Between(S, m, n) == UNION {[1..k -> S] : k \in m..n}

Init ==
    /\ pattern \in Between(Parts, 1, MaxParts)
    /\ path \in Between(Components \ {<<>>}, 1, MaxComponents) \cup {<<<<>>>>}
    /\ at = 0 /\ row = <<>> /\ result = "open"

Begin ==
    /\ at = 0 /\ result = "open"
    /\ LET p == Trimmed(pattern)
       IN  IF p = <<<<".">>>>
           THEN result' = (IF path = <<<<>>>> THEN "in" ELSE "out") /\ UNCHANGED <<at, row>>
           ELSE IF \E i \in DOMAIN p : Unsupported(p[i])
           THEN result' = "error" /\ UNCHANGED <<at, row>>
           ELSE IF ~Recursive(p)
           THEN result' = (IF Plain(p, path) THEN "in" ELSE "out") /\ UNCHANGED <<at, row>>
           ELSE at' = 1 /\ row' = [i \in 0..Len(path) |-> i = 0] /\ UNCHANGED result
    /\ UNCHANGED <<pattern, path>>

\* Faulty on purpose: what "**" passes may be hidden.
RowOfAll(part) ==
    [i \in 0..Len(path) |-> \E j \in 0..i : row[j]]
\* current, from previous: "**" takes any number of components which are not hidden.
RowAfter(part) ==
    IF part = Globstar
    THEN LET current[i \in 0..Len(path)] ==
                 row[i] \/ (i > 0 /\ ~Hidden(path[i]) /\ current[i - 1])
         IN  current
    ELSE [i \in 0..Len(path) |-> i > 0 /\ row[i - 1] /\ Component(part, path[i])]

Step ==
    /\ at > 0 /\ result = "open"
    /\ LET p == Trimmed(pattern)
       IN  IF at <= Len(p) THEN row' = RowAfter(p[at]) /\ at' = at + 1 /\ UNCHANGED result
           ELSE result' = (IF row[Len(path)] THEN "in" ELSE "out") /\ UNCHANGED <<at, row>>
    /\ UNCHANGED <<pattern, path>>

Next == Begin \/ Step

Spec == Init /\ [][Next]_vars

-----------------------------------------------------------------------------
(* What a pattern means                                                    *)

\* The rest of a part from i on is the rest of a component from j on, with something
\* for each star.
Means(p, c) ==
    LET rest[i \in 1..(Len(p) + 1), j \in 1..(Len(c) + 1)] ==
          IF i > Len(p) THEN j > Len(c)
          ELSE IF p[i] = Star THEN \E k \in j..(Len(c) + 1) : rest[i + 1, k]
          ELSE j <= Len(c) /\ c[j] = p[i] /\ rest[i + 1, j + 1]
    IN  (Hidden(c) => Hidden(p)) /\ rest[1, 1]
\* The same of a pattern and a path, with folders that are not hidden for each "**".
Takes(p, c) ==
    LET rest[i \in 1..(Len(p) + 1), j \in 1..(Len(c) + 1)] ==
          IF i > Len(p) THEN j > Len(c)
          ELSE IF p[i] = Globstar
          THEN \E k \in j..(Len(c) + 1) :
                  (\A m \in j..(k - 1) : ~Hidden(c[m])) /\ rest[i + 1, k]
          ELSE j <= Len(c) /\ Means(p[i], c[j]) /\ rest[i + 1, j + 1]
    IN  rest[1, 1]

\* The loops find what a pattern means: the greedy search in a component misses no
\* match, and the rows of "**" neither miss a path nor take in a hidden folder.
PatternsMean ==
    result \in {"in", "out"} =>
        LET p == Trimmed(pattern)
        IN  (result = "in") = IF p = <<<<".">>>> THEN path = <<<<>>>> ELSE Takes(p, path)

=============================================================================
