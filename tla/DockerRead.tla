-------------------------------- MODULE DockerRead --------------------------------
(***************************************************************************)
(* Docker's accounting of its build cache, read over a local socket          *)
(* (core/src/docker_read.rs): one request, a response that may come in any   *)
(* pieces and stop anywhere, its framing, and the sums.                     *)
(*                                                                         *)
(* A response is a sequence of tokens: a header is one token, and each byte   *)
(* is one: "r" and "n" are the two that end a line, "0", "1" and "2" digits,  *)
(* and "x" anything else.  What a body says is a sequence of records, which  *)
(* its bytes stand for.                                                     *)
(***************************************************************************)
EXTENDS Naturals, Sequences, FiniteSets, SequencesExt, TLC

CONSTANTS
    None,
    Messages,        \* what a server may want to say
    RequestLength,   \* in writes, at most
    MaxResponse,     \* MAX_RESPONSE_BYTES
    MaxRecords,
    Word,            \* sums are below this
    MaxSwaps         \* bounds how often the socket is replaced

VARIABLES
    \* External: which server listens at the path, how often that changed, the connection's
    \* server, its message, how many tokens it has sent, and if it closed
    listening, swaps, server, message, sent, closed,
    pc,
    expected,        \* who listened at the first look
    written,         \* tokens of the request
    response,
    outcome          \* None, or what is answered

vars == <<listening, swaps, server, message, sent, closed, pc, expected, written, response,
          outcome>>
world == <<listening, swaps, server, message, sent, closed>>
Ended == {"refused", "answered"}

-----------------------------------------------------------------------------
(* External: the server                                                    *)

Byte(b) == [name |-> "byte", value |-> b]
LineEnd == <<Byte("r"), Byte("n")>>
Size(n) == IF n < 3 THEN <<Byte(ToString(n))>> ELSE <<Byte(ToString(n \div 3)), Byte(ToString(n % 3))>>
Chunk(c) == Size(Len(c)) \o LineEnd \o c \o LineEnd
Body(m) == FlattenSeq(m.chunks)
\* The tokens of a message: its headers, an empty line, and the body.
Encoded(m) ==
    FlattenSeq([n \in DOMAIN m.headers |-> <<m.headers[n]>> \o LineEnd]) \o LineEnd
    \o (IF \E n \in DOMAIN m.headers : m.headers[n].name = "encoding"
        THEN FlattenSeq([n \in DOMAIN m.chunks |-> Chunk(m.chunks[n])]) \o Size(0) \o LineEnd \o LineEnd
        ELSE Body(m))

Swap ==
    /\ swaps < MaxSwaps /\ pc \notin Ended
    /\ swaps' = swaps + 1 /\ listening' = 1 - listening
    /\ UNCHANGED <<server, message, sent, closed, pc, expected, written, response, outcome>>
Send ==
    /\ server # None /\ written = RequestLength /\ ~closed /\ pc \notin Ended
    /\ \/ sent < Len(Encoded(message)) /\ sent' = sent + 1 /\ UNCHANGED closed
       \/ closed' = TRUE /\ UNCHANGED sent
    /\ UNCHANGED <<listening, swaps, server, message, pc, expected, written, response, outcome>>

-----------------------------------------------------------------------------
(* The reader                                                              *)

Init ==
    /\ listening = 0 /\ swaps = 0 /\ server = None /\ sent = 0 /\ closed = FALSE
    /\ message \in Messages
    /\ pc = "look" /\ expected = None /\ written = 0 /\ response = <<>> /\ outcome = None

Go(to) == pc' = to
Refuse == Go("refused") /\ UNCHANGED <<world, expected, written, response, outcome>>
\* A cancel or the end of the time is found at any step, also while it waits.
Stop == pc \notin Ended /\ Refuse

Look ==
    /\ pc = "look" /\ Go("connect") /\ expected' = listening
    /\ UNCHANGED <<world, written, response, outcome>>
Connect ==
    /\ pc = "connect" /\ Go("write") /\ server' = listening
    /\ UNCHANGED <<listening, swaps, message, sent, closed, expected, written, response, outcome>>
Write ==
    /\ pc = "write"
    /\ IF closed THEN Refuse
       ELSE /\ \E n \in 1..(RequestLength - written) :
                   written' = written + n
                   /\ Go(IF written + n = RequestLength THEN "read" ELSE "write")
            /\ UNCHANGED <<world, expected, response, outcome>>
\* Any number of tokens that are there; or the end.
Read ==
    /\ pc = "read"
    /\ LET more == sent - Len(response)
       IN  \/ \E n \in 1..more :
                 IF n > MaxResponse - Len(response) THEN Refuse
                 ELSE /\ response' = response \o SubSeq(Encoded(message), Len(response) + 1,
                                                        Len(response) + n)
                      /\ UNCHANGED <<world, pc, expected, written, outcome>>
           \/ more = 0 /\ closed /\ Go("again")
              /\ UNCHANGED <<world, expected, written, response, outcome>>
LookAgain ==
    /\ pc = "again"
    /\ IF listening = expected
       THEN Go("parse") /\ UNCHANGED <<world, expected, written, response, outcome>>
       ELSE Refuse

\* Where tokens stand first in s, from n on.
Find(s, n, tokens) ==
    LET at == {m \in n..(Len(s) - Len(tokens) + 1) :
                  SubSeq(s, m, m + Len(tokens) - 1) = tokens}
    IN  IF at = {} THEN 0 ELSE CHOOSE m \in at : \A k \in at : m <= k

\* parse_headers: each header that matters once at most, and one framing.
Given(s, name) == SelectSeq(s, LAMBDA h : h.name = name)
Once(s, name, values) == Len(Given(s, name)) = 1 /\ Given(s, name)[1].value \in values
Acceptable(s) ==
    /\ Once(s, "status", {"200"}) /\ Once(s, "type", {"json"})
    /\ \A n \in DOMAIN Given(s, "content") : Given(s, "content")[n].value = "identity"
    /\ IF Given(s, "length") = <<>> THEN Once(s, "encoding", {"chunked"})
       ELSE Len(Given(s, "length")) = 1 /\ Given(s, "encoding") = <<>>

IsDigit(t) == t \in {Byte("0"), Byte("1"), Byte("2")}
Digit(t) == CHOOSE n \in 0..2 : t = Byte(ToString(n))
\* Faulty on purpose: a response that ends after a chunk is taken for complete.
RECURSIVE ChunksSoFar(_)
ChunksSoFar(s) ==
    LET end == Find(s, 1, LineEnd)
        size == FoldLeft(LAMBDA n, t : 3 * n + Digit(t), 0, SubSeq(s, 1, end - 1))
        after == SubSeq(s, end + 2, Len(s))
    IN  IF end = 0 THEN <<>>
        ELSE IF end = 1 \/ \E n \in 1..(end - 1) : ~IsDigit(s[n]) THEN None
        ELSE IF size = 0 THEN IF after = LineEnd THEN <<>> ELSE None
        ELSE IF Len(after) < size + 2 THEN None
        ELSE LET rest == ChunksSoFar(SubSeq(after, size + 3, Len(after)))
             IN  IF rest = None THEN None ELSE SubSeq(after, 1, size) \o rest
\* decode_chunked: size, chunk, and so on, until one of size 0 and nothing behind it.
RECURSIVE Chunks(_)
Chunks(s) ==
    LET end == Find(s, 1, LineEnd)
        size == FoldLeft(LAMBDA n, t : 3 * n + Digit(t), 0, SubSeq(s, 1, end - 1))
        after == SubSeq(s, end + 2, Len(s))
    IN  IF end <= 1 \/ \E n \in 1..(end - 1) : ~IsDigit(s[n]) THEN None
        ELSE IF size = 0 THEN IF after = LineEnd THEN <<>> ELSE None
        ELSE IF Len(after) < size + 2 \/ SubSeq(after, size + 1, size + 2) # LineEnd THEN None
        ELSE LET rest == Chunks(SubSeq(after, size + 3, Len(after)))
             IN  IF rest = None THEN None ELSE SubSeq(after, 1, size) \o rest
Decode(head, body) ==
    IF Given(head, "length") = <<>> THEN Chunks(body)
    ELSE IF Given(head, "length")[1].value = ToString(Len(body)) THEN body ELSE None

\* parse_body: the records that the whole body says; anything else is not JSON.
Total(records) == FoldLeft(LAMBDA n, r : n + r.size, 0, records)
Unused(records) == SelectSeq(records, LAMBDA r : ~r.inUse)
Sums(body) ==
    LET records == message.records
    IN  IF \/ body # Body(message) \/ Len(records) > MaxRecords
           \/ \E m, n \in DOMAIN records : m # n /\ records[m].id = records[n].id
           \/ Total(records) >= Word
        THEN None
        ELSE [logical |-> Total(records), unused |-> Total(Unused(records))]
Parse ==
    /\ pc = "parse"
    /\ LET end == Find(response, 1, LineEnd \o LineEnd)
           head == SelectSeq(SubSeq(response, 1, end - 1), LAMBDA t : t.name # "byte")
           decoded == Decode(head, SubSeq(response, end + 4, Len(response)))
       IN  IF end = 0 THEN Refuse
           ELSE IF ~Acceptable(head) THEN Refuse
           ELSE IF decoded = None THEN Refuse
           ELSE IF Sums(decoded) = None THEN Refuse
           ELSE /\ Go("answered") /\ outcome' = Sums(decoded)
                /\ UNCHANGED <<world, expected, written, response>>

Next ==
    \/ Swap \/ Send \/ Stop
    \/ Look \/ Connect \/ Write \/ Read \/ LookAgain \/ Parse

Spec == Init /\ [][Next]_vars

-----------------------------------------------------------------------------
(* Properties                                                              *)

\* An answer comes from a response that is complete as the server framed it, in one way, and
\* from the server that listened at the first look if it was replaced once at most.
AnswerIsWhole ==
    pc = "answered" =>
        /\ response = Encoded(message)
        /\ Cardinality({n \in DOMAIN message.headers :
                           message.headers[n].name \in {"length", "encoding"}}) = 1
        /\ swaps <= 1 => server = expected

\* Its sums are those of the server's records, of which none is there twice.
SumsAreTrue ==
    pc = "answered" =>
        /\ outcome.unused <= outcome.logical /\ outcome.logical < Word
        /\ \A n \in DOMAIN message.records : message.records[n].size <= outcome.logical
        /\ Cardinality({message.records[n].id : n \in DOMAIN message.records})
             = Len(message.records)

=============================================================================
