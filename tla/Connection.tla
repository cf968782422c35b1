------------------------------ MODULE Connection ------------------------------
(***************************************************************************)
(* One connection between ticker-client and a connection task of tickerd:  *)
(* Client::call on one side, handle in server.rs on the other, and the two *)
(* byte streams of a Unix socket between them.                             *)
(*                                                                         *)
(* A request line is some bytes, all marked with the request's number, and *)
(* a newline: what serde parses is a line whose bytes are all there and of *)
(* one request.  A client waits for the reply before it calls again; one   *)
(* that does not (nc, a script) may write on, blank lines too, and shut    *)
(* down its writing side after a line while it goes on reading; one that   *)
(* stops in the middle of a line is modelled only as one that hangs up.    *)
(***************************************************************************)
EXTENDS Integers, Sequences, FiniteSets

CONSTANTS
    Sizes,              \* bytes a request may have, newline not counted
    MAX_REQUEST_BYTES,
    MayFail,            \* whether either side may go away
    Capacity,           \* bytes the socket holds towards the daemon
    MaxCalls            \* bound: requests on the connection

ASSUME ConnectionAssumption ==
    /\ Sizes \subseteq Nat \ {0}
    /\ MAX_REQUEST_BYTES \in Nat \ {0}
    /\ MayFail \in BOOLEAN
    /\ Capacity \in Nat \ {0}
    /\ MaxCalls \in Nat

Newline == 0

VARIABLES
    sizes,    \* of the requests made so far, in order
    unsent,   \* bytes write_all has still to write
    answers,  \* replies the client has read
    client,   \* "open"; "failed": a call returned Err; "closed"
    up,       \* bytes in the socket to the daemon
    down,     \* replies in the socket to the client
    buf,      \* the handler's line buffer
    hpc,      \* "read", "next", "dispatch", "write", "refuse", "closed", "dead"
    outcome,  \* the reply to be written
    executed, \* requests dispatched
    waits,    \* never changes: whether the client reads each reply before it writes on
    shut      \* whether the client has shut down its writing side

peer    == <<sizes, unsent, answers, client, waits, shut>>
sockets == <<up, down>>
handler == <<buf, hpc, outcome>>
vars    ==
    <<sizes, unsent, answers, client, up, down, buf, hpc, outcome, executed, waits, shut>>

Calls == Len(sizes)

Line(k, n) == Append([i \in 1..n |-> k], Newline)

\* What from_str makes of the line in the buffer: a request, or 0 for an error.
Parse(line) ==
    LET body == {i \in 1..Len(line) : line[i] # Newline}
    IN  IF \E k \in 1..Calls : Cardinality(body) = sizes[k] /\ \A i \in body : line[i] = k
        THEN line[1] ELSE 0

Blank(line) == \A i \in 1..Len(line) : line[i] = Newline

\* Replies are [to |-> k], k a request, or one of these.
BadRequest == [to |-> 0]
Oversized  == [to |-> -1]

HandlerOpen == hpc \notin {"closed", "dead"}

-----------------------------------------------------------------------------
Init ==
    /\ sizes = <<>> /\ unsent = <<>> /\ answers = <<>>
    /\ client = "open"
    /\ up = <<>> /\ down = <<>>
    /\ buf = <<>> /\ hpc = "read" /\ outcome = BadRequest
    /\ executed = <<>>
    /\ waits \in BOOLEAN
    /\ shut = FALSE

(* Client::call. *)
\* Slip for the mutants: the next call does not wait for this one's reply.
FreeOnceWritten == client = "open" /\ ~shut /\ unsent = <<>>

Free == client = "open" /\ ~shut /\ unsent = <<>> /\ (waits => Len(answers) = Calls)

Request(n) ==
    /\ Free /\ Calls < MaxCalls
    /\ sizes' = Append(sizes, n)
    /\ unsent' = Line(Calls + 1, n)
    /\ UNCHANGED <<answers, client, waits, shut, sockets, handler, executed>>

BlankLine ==
    /\ Free /\ ~waits /\ Calls \in 1..(MaxCalls - 1)
    /\ unsent' = <<Newline>>
    /\ UNCHANGED <<sizes, answers, client, waits, shut, sockets, handler, executed>>

\* shutdown(SHUT_WR): nothing more to say, though replies may be to come.
ShutDown ==
    /\ Free /\ ~waits
    /\ shut' = TRUE
    /\ UNCHANGED <<sizes, unsent, answers, client, waits, sockets, handler, executed>>

Write ==
    /\ client = "open" /\ unsent # <<>> /\ HandlerOpen
    /\ Len(up) < Capacity
    /\ up' = Append(up, Head(unsent))
    /\ unsent' = Tail(unsent)
    /\ UNCHANGED <<sizes, answers, client, waits, shut, down, handler, executed>>

ReadReply ==
    /\ client = "open" /\ unsent = <<>> /\ down # <<>>
    /\ answers' = Append(answers, Head(down))
    /\ down' = Tail(down)
    /\ UNCHANGED <<sizes, unsent, client, waits, shut, up, handler, executed>>

\* write_all or flush meets a socket nobody reads, or read_line its end.
CallFails ==
    /\ client = "open" /\ ~HandlerOpen
    /\ unsent # <<>> \/ (down = <<>> /\ Len(answers) < Calls)
    /\ client' = "failed"
    /\ UNCHANGED <<sizes, unsent, answers, waits, shut, sockets, handler, executed>>

HangUp ==
    /\ client # "closed"
    /\ MayFail \/ client = "failed" \/ (unsent = <<>> /\ Len(answers) = Calls)
    /\ client' = "closed"
    /\ UNCHANGED <<sizes, unsent, answers, waits, shut, sockets, handler, executed>>

-----------------------------------------------------------------------------
(* handle. *)
Handles(here) == hpc = here /\ UNCHANGED peer

Goto(label) == hpc' = label

\* Slip for the mutants: the byte past the cap is not asked for.
FullAtCap(line) == line[Len(line)] = Newline \/ Len(line) = MAX_REQUEST_BYTES

\* take(MAX_REQUEST_BYTES + 1).read_until is done with the line.
Full(line) == line[Len(line)] = Newline \/ Len(line) = MAX_REQUEST_BYTES + 1

TooLong(line) == Len(line) > MAX_REQUEST_BYTES

\* Slip for the mutants: a line over the cap is dropped without a word.
ConsiderSilently(line) ==
    /\ buf' = line
    /\ outcome' = [to |-> Parse(line)]
    /\ Goto(IF TooLong(line) \/ Blank(line) THEN "next" ELSE "dispatch")

\* Slip for the mutants: the connection ends without the refusal.
HangUpSilently(line) ==
    /\ buf' = line
    /\ outcome' = [to |-> Parse(line)]
    /\ Goto(IF TooLong(line) THEN "closed" ELSE IF Blank(line) THEN "next" ELSE "dispatch")

\* What follows a finished read_until: refuse, skip or dispatch the line.
Consider(line) ==
    /\ buf' = line
    /\ outcome' = IF TooLong(line) THEN Oversized
                  ELSE IF Blank(line) THEN outcome ELSE [to |-> Parse(line)]
    /\ Goto(IF TooLong(line) THEN "refuse" ELSE IF Blank(line) THEN "next" ELSE "dispatch")

ReadByte ==
    /\ Handles("read")
    /\ up # <<>>
    /\ up' = Tail(up)
    /\ LET line == Append(buf, Head(up))
       IN  IF Full(line) THEN Consider(line) ELSE buf' = line /\ UNCHANGED <<hpc, outcome>>
    /\ UNCHANGED <<down, executed>>

\* The client is gone or will write no more: what it left unfinished is still a
\* line, and at the end of the stream the handler breaks without a word.
ReadEnd ==
    /\ Handles("read")
    /\ up = <<>> /\ (client = "closed" \/ shut)
    /\ IF buf = <<>> THEN Goto("closed") /\ UNCHANGED <<buf, outcome>> ELSE Consider(buf)
    /\ UNCHANGED <<sockets, executed>>

NextLine ==
    /\ Handles("next")
    /\ buf' = <<>>
    /\ Goto("read")
    /\ UNCHANGED <<outcome, sockets, executed>>

\* Slip for the mutants: the reply does not wait for the request.
DispatchUnawaited ==
    /\ Handles("dispatch")
    /\ Goto("write")
    /\ UNCHANGED <<buf, outcome, sockets, executed>>

Dispatch ==
    /\ Handles("dispatch")
    /\ executed' = IF outcome = BadRequest THEN executed ELSE Append(executed, outcome.to)
    /\ Goto("write")
    /\ UNCHANGED <<buf, outcome, sockets>>

\* write_all of the reply; to a client that is gone it is an error.
Reply(here, label) ==
    /\ Handles(here)
    /\ IF client = "closed" THEN Goto("closed") /\ UNCHANGED down
       ELSE Goto(label) /\ down' = Append(down, outcome)
    /\ UNCHANGED <<buf, outcome, up, executed>>

Answer == Reply("write", "next")

Refuse == Reply("refuse", "closed")

\* The daemon stops or dies.
Die ==
    /\ MayFail /\ HandlerOpen /\ Handles(hpc)
    /\ Goto("dead")
    /\ UNCHANGED <<buf, outcome, sockets, executed>>

-----------------------------------------------------------------------------
Call == Write \/ ReadReply \/ CallFails

Serve == ReadByte \/ ReadEnd \/ NextLine \/ Dispatch \/ Answer \/ Refuse

Next == (\E n \in Sizes : Request(n)) \/ BlankLine \/ ShutDown \/ Call \/ HangUp \/ Serve \/ Die

Spec == Init /\ [][Next]_vars

(* A call goes on once made, and a connection task that is ready is run.   *)
FairSpec == Spec /\ WF_vars(Call) /\ WF_vars(Serve)

-----------------------------------------------------------------------------
\* The bytes of request k and its newline fit.
Fits(k) == sizes[k] + 1 <= MAX_REQUEST_BYTES

(* "One request per line, one response per line" (server.rs 1): the k-th   *)
(* reply a client finds on the connection is the one to its k-th request,  *)
(* whether it waits for replies or not, and whatever lengths and blank     *)
(* lines came before; an oversized line is the last to be answered.        *)
RepliesInOrder ==
    LET replies == answers \o down
    IN  \A i \in 1..Len(replies) :
            replies[i] = IF Fits(i) THEN [to |-> i] ELSE Oversized

(* Requests are carried out in the order they were made, none twice, none  *)
(* left out and none in part, and an answered one has been carried out.    *)
ExecutedInOrder ==
    /\ \A i \in 1..Len(executed) : executed[i] = i /\ sizes[i] <= MAX_REQUEST_BYTES
    /\ \A i \in 1..Len(answers) : answers[i].to > 0 => answers[i].to <= Len(executed)

(* What a client that waits cannot know is confined to its last request:   *)
(* everything before it was answered.                                      *)
OneInDoubt == waits => Len(executed) <= Len(answers) + 1

(* The daemon hangs up on a client that is still there only after telling  *)
(* it why, or when the client has said that it is done and every request   *)
(* of its has a reply: whatever it is sent, in whatever pieces, a          *)
(* connection that ends otherwise means that the daemon died (server.rs    *)
(* 155-170).  Whether the client can still read that error is another      *)
(* matter: UntoldOversize.cfg.                                             *)
HangsUpWithReason ==
    hpc = "closed" /\ client # "closed" =>
        LET replies == answers \o down
        IN  \/ replies # <<>> /\ replies[Len(replies)] = Oversized
            \/ shut /\ Len(replies) = Calls

(* A call returns: with the reply, or because the connection ended.        *)
CallsReturn ==
    waits => \A k \in 1..MaxCalls : Calls = k ~> Len(answers) >= k \/ client # "open"
=============================================================================
