------------------------------ MODULE Tickerctl ------------------------------
(***************************************************************************)
(* tickerctl: one command, from connecting to its exit code, over a        *)
(* Connection.  It connects first, then asks for what is missing (only     *)
(* `provider set` does), then makes one call and turns the reply into an   *)
(* exit code; a script may then run it again.  With no command typed the   *)
(* connection is another client's.                                         *)
(*                                                                         *)
(* Left out: everything printed.  A number is "number" or "nan", the one   *)
(* serde_json has no notation for (an infinity is another).                *)
(***************************************************************************)
EXTENDS Connection

CONSTANTS
    Commands,  \* commands that may be typed
    MaxRuns,   \* bound: times a script runs its command
    None       \* an absent Option; no command, no exit code

Ops == {"ping", "summary", "holdings", "history", "buy", "sell", "refresh", "transactions",
        "status", "list", "set", "clear"}

Numbers == {"number", "nan"}

Typings == [op : Ops, json : BOOLEAN, shares : Numbers \cup {None}, price : Numbers \cup {None}]

\* The kinds of Response.
Kinds == {"Ok", "Error", "Pong", "Summary", "Holdings", "History", "Transactions", "ProviderStatus"}

ASSUME TickerctlAssumption ==
    /\ Commands \subseteq Typings
    /\ MaxRuns \in Nat
    /\ None \notin Typings \cup Numbers \cup Nat \cup Kinds

VARIABLES
    cmd,      \* what was typed, or None
    at,       \* "connect", "ask", "call", "ended"
    code,     \* the exit code; None before the end, and for a command killed
    verdict,  \* the kind of Response dispatch returned
    fills,    \* prices at which the daemon inserted its trades, over all runs
    past      \* the runs before: their exit codes, None for a killed one, or Unsent

shell == <<cmd, at, code, verdict, fills, past>>
cvars == <<vars, shell>>

-----------------------------------------------------------------------------
\* The kind of answer dispatch has for what shows something, when not an Error.
Shown(op) ==
    CASE op = "ping"         -> "Pong"
      [] op = "summary"      -> "Summary"
      [] op = "holdings"     -> "Holdings"
      [] op = "history"      -> "History"
      [] op = "transactions" -> "Transactions"
      [] OTHER               -> "ProviderStatus"

\* And for what changes something; provider commands answer with the status.
Kind(op) == IF op \in {"buy", "sell", "refresh"} THEN "Ok" ELSE Shown(op)

\* What print_human knows how to print.
Expected ==
    [ping |-> "Pong", summary |-> "Summary", holdings |-> "Holdings", history |-> "History",
     transactions |-> "Transactions", buy |-> "Ok", sell |-> "Ok", refresh |-> "Ok",
     status |-> "ProviderStatus", list |-> "ProviderStatus", set |-> "ProviderStatus",
     clear |-> "ProviderStatus"]

\* A number through serde_json and back: what is not finite is written null.
OverTheWire(n) == IF n = "nan" THEN None ELSE n

IsTrade(c) == c.op \in {"buy", "sell"}

\* from_str refuses a null where a number has to be.
WellFormed(c) == IsTrade(c) => OverTheWire(c.shares) # None

\* Buy's price.unwrap_or(snap.current_price), and Sell's.
FillOf(c) == IF OverTheWire(c.price) # None THEN OverTheWire(c.price) ELSE "cached"

\* Slip for the mutants: with --json every reply is a success.
JsonSucceeds(c, kind) ==
    IF c.json THEN 0 ELSE IF kind = "Error" THEN 1 ELSE IF kind = Expected[c.op] THEN 0 ELSE 2

\* run and print_human: the exit code for a reply.
ExitCode(c, kind) ==
    IF kind = "Error" THEN 1 ELSE IF c.json \/ kind = Expected[c.op] THEN 0 ELSE 2

-----------------------------------------------------------------------------
CliInit ==
    /\ Init
    /\ cmd \in Commands \cup {None}
    /\ at = "connect" /\ code = None /\ verdict = None
    /\ fills = <<>> /\ past = <<>>
    /\ cmd # None => waits

Ours == cmd # None

Exit(n) == at' = "ended" /\ code' = n

\* Client::connect.
Connect ==
    /\ Ours /\ at = "connect" /\ HandlerOpen
    /\ at' = IF cmd.op = "set" THEN "ask" ELSE "call"
    /\ UNCHANGED <<vars, cmd, code, verdict, fills, past>>

Unreachable ==
    /\ Ours /\ at = "connect" /\ ~HandlerOpen
    /\ Exit(2)
    /\ UNCHANGED <<vars, cmd, verdict, fills, past>>

\* build_set_request has what it needs.
Answered ==
    /\ at = "ask"
    /\ at' = "call"
    /\ UNCHANGED <<vars, cmd, code, verdict, fills, past>>

\* No such provider or number, nothing entered, or no terminal to ask on.
Cancelled ==
    /\ at = "ask"
    /\ Exit(2)
    /\ UNCHANGED <<vars, cmd, verdict, fills, past>>

Send ==
    /\ at = "call" /\ Calls = 0
    /\ \E n \in Sizes : Request(n)
    /\ UNCHANGED shell

Write1 == Ours /\ Write /\ UNCHANGED shell

\* The reply is to the one request, or is one of the handler's own errors.
Reads ==
    /\ at = "call" /\ ReadReply
    /\ Exit(ExitCode(cmd, IF Head(down).to > 0 THEN verdict ELSE "Error"))
    /\ UNCHANGED <<cmd, verdict, fills, past>>

Fails ==
    /\ at = "call" /\ CallFails
    /\ Exit(2)
    /\ UNCHANGED <<cmd, verdict, fills, past>>

\* The process is gone, at its end or by Ctrl-C.
Gone ==
    /\ Ours /\ HangUp
    /\ at' = "ended"
    /\ UNCHANGED <<cmd, code, verdict, fills, past>>

Unsent == -1

\* What a run comes to, once it is over: one without a call is Unsent.
Outcome == IF Calls = 0 THEN Unsent ELSE code

\* The next run, on a connection of its own: to the same daemon, to one that
\* has been started since, or to none.
Again ==
    /\ at = "ended" /\ client = "closed" /\ ~HandlerOpen
    /\ Len(past) + 1 < MaxRuns
    /\ past' = Append(past, Outcome)
    /\ at' = "connect" /\ code' = None /\ verdict' = None
    /\ sizes' = <<>> /\ unsent' = <<>> /\ answers' = <<>> /\ client' = "open" /\ shut' = FALSE
    /\ up' = <<>> /\ down' = <<>>
    /\ buf' = <<>> /\ hpc' \in {"read", "dead"} /\ outcome' = BadRequest
    /\ executed' = <<>>
    /\ UNCHANGED <<waits, cmd, fills>>

(* The daemon's side.                                                      *)
\* dispatch refuses, fails, or carries the request out.
Dispatched ==
    /\ Ours /\ Dispatch
    /\ \/ outcome = BadRequest /\ UNCHANGED <<verdict, fills>>
       \/ /\ outcome # BadRequest /\ cmd.op \notin {"ping", "status", "list"}
          /\ verdict' = "Error" /\ UNCHANGED fills
       \/ /\ outcome # BadRequest /\ WellFormed(cmd)
          /\ verdict' = Kind(cmd.op)
          /\ fills' = IF IsTrade(cmd) THEN Append(fills, FillOf(cmd)) ELSE fills
    /\ UNCHANGED <<cmd, at, code, past>>

Serves == Ours /\ (ReadByte \/ ReadEnd \/ NextLine \/ Answer \/ Refuse \/ Die) /\ UNCHANGED shell

Others == ~Ours /\ Next /\ UNCHANGED shell

CliNext ==
    \/ Connect \/ Unreachable \/ Answered \/ Cancelled \/ Send \/ Write1 \/ Reads \/ Fails \/ Gone \/ Again
    \/ Dispatched \/ Serves \/ Others

CliSpec == CliInit /\ [][CliNext]_cvars

(* The process runs on but for its prompt, and so does the connection.     *)
FairCliSpec ==
    /\ CliSpec
    /\ WF_cvars(Connect \/ Unreachable \/ Send)
    /\ WF_cvars(Write1 \/ Reads \/ Fails \/ (Others /\ Call))
    /\ WF_cvars(Dispatched \/ (Serves /\ Serve) \/ (Others /\ Serve))

-----------------------------------------------------------------------------
\* How many runs came to one of these.
Times(codes) ==
    Cardinality({i \in 1..Len(past) : past[i] \in codes}) + (IF Outcome \in codes THEN 1 ELSE 0)

(* The exit codes tell a script what became of its trades, whatever broke  *)
(* on the way and with --json or without: a run that ended with 0 inserted *)
(* one, at the price asked for; with 1, or before its call, none; a run    *)
(* that has made its call and ended with 2, or been killed, or not ended,  *)
(* at most one (main.rs 106-161).                                          *)
ExitTellsTrade ==
    Ours /\ IsTrade(cmd) =>
        /\ Times({0}) <= Len(fills) /\ Len(fills) <= Times({0, 2, None})
        /\ cmd.price = "number" => \A i \in 1..Len(fills) : fills[i] = cmd.price
=============================================================================
