----------------------------- MODULE MCConnection -----------------------------
(* Requests around the size cap on one connection: a command of            *)
(* tickerctl's, or another client's.                                       *)
EXTENDS Tickerctl

Typed(op, json, shares, price) == [op |-> op, json |-> json, shares |-> shares, price |-> price]

\* Every command, with --json and without; trades with and without a price.
AllCommands ==
    {Typed(op, json, None, None) : op \in Ops \ {"buy", "sell"}, json \in BOOLEAN}
        \cup {Typed("sell", FALSE, "number", None), Typed("sell", TRUE, "nan", None)}
        \cup {Typed("buy", json, "number", price) : json \in BOOLEAN, price \in {"number", None}}

NanCommands == {Typed("buy", FALSE, "number", "nan")}

NoCommands == {}

-----------------------------------------------------------------------------
(* What documents say and the code does not do, each by a configuration of *)
(* its own.                                                                *)

(* "Oversized lines get an error and the connection closes" (SECURITY.md   *)
(* 111): a client whose oversized call fails has been sent that error.     *)
OversizedIsTold == client = "failed" => Len(answers) = Calls

(* "2 = the command never reached the daemon" (README.md 223-226): a reply *)
(* that is lost, or a line whose refusal could not be read, exits 2 too.   *)
TwoMeansNeverReached == Ours /\ code = 2 => executed = <<>>

(* "--price: Override the fill price" (main.rs 58): what is not a number   *)
(* arrives as no price at all, and the trade fills at the cached close.    *)
FilledAsAsked == Ours /\ code = 0 /\ cmd.price # None => fills = <<cmd.price>>
=============================================================================
