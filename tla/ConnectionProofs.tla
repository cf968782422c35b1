---------------------------- MODULE ConnectionProofs ----------------------------
(***************************************************************************)
(* Proofs about a connection: why it ends, what a client that waits for    *)
(* its replies can be in doubt about, and that requests are carried out    *)
(* and answered in the order they were made; for requests of any length,   *)
(* any cap, any capacity of the socket and any number of calls.            *)
(***************************************************************************)
EXTENDS Tickerctl, SequenceTheorems, FiniteSetTheorems, TLAPS

Replies == [to : Int]

TypeInv ==
    /\ sizes \in Seq(Nat) /\ executed \in Seq(Int)
    /\ unsent \in Seq(Nat) /\ up \in Seq(Nat) /\ buf \in Seq(Nat)
    /\ answers \in Seq(Replies) /\ down \in Seq(Replies) /\ outcome \in Replies
    /\ client \in {"open", "failed", "closed"}
    /\ hpc \in {"read", "next", "dispatch", "write", "refuse", "closed", "dead"}
    /\ waits \in BOOLEAN /\ shut \in BOOLEAN
    /\ shut => unsent = <<>> /\ ~waits

LEMMA Constants ==
    Sizes \subseteq Nat \ {0} /\ MAX_REQUEST_BYTES \in Nat \ {0} /\ Capacity \in Nat
BY ConnectionAssumption

LEMMA LineIsASeq ==
    ASSUME NEW k \in Nat, NEW n \in Nat
    PROVE  /\ Line(k, n) \in Seq(Nat) /\ Len(Line(k, n)) = n + 1
           /\ \A i \in 1..n : Line(k, n)[i] = k
           /\ Line(k, n)[n + 1] = Newline
<1> DEFINE body == [i \in 1..n |-> k]
<1>1. body \in Seq(Nat) /\ Len(body) = n
  <2>1. body \in [1..n -> Nat]
    OBVIOUS
  <2>2. body \in Seq(Nat)
    BY <2>1
  <2>3. DOMAIN body = 1..n /\ Len(body) \in Nat /\ DOMAIN body = 1..Len(body)
    BY <2>2, LenProperties
  <2>4. Len(body) = n
    <3> HIDE DEF body
    <3> QED BY <2>3
  <2> QED BY <2>2, <2>4
<1>2. \A i \in 1..n : body[i] = k
  OBVIOUS
<1> HIDE DEF body
<1>3. Line(k, n) = Append(body, Newline) /\ Newline \in Nat
  BY DEF Line, body, Newline
<1> QED BY <1>1, <1>2, <1>3, AppendProperties

\* What is considered has a byte, and the outcome is a reply.
LEMMA Considered ==
    ASSUME TypeInv, NEW line \in Seq(Nat), line # <<>>, Consider(line)
    PROVE  /\ buf' \in Seq(Nat) /\ outcome' \in Replies
           /\ hpc' \in {"next", "dispatch", "refuse"}
           /\ hpc' = "refuse" <=> TooLong(line)
           /\ hpc' = "refuse" => outcome' = Oversized
<1>1. line[1] \in Int
  BY EmptySeq, ElementOfSeq
<1>2. Parse(line) \in Int
  BY <1>1 DEF Parse
<1> QED BY <1>2 DEF Consider, Goto, TypeInv, Replies, Oversized

\* The head of one sequence goes to the end of the other.
LEMMA HandedOver ==
    ASSUME NEW S, NEW a \in Seq(S), NEW d \in Seq(S), d # <<>>
    PROVE  Append(a, Head(d)) \o Tail(d) = a \o d
<1>1. /\ Head(d) \in S /\ Tail(d) \in Seq(S) /\ Len(Tail(d)) = Len(d) - 1 /\ Head(d) = d[1]
      /\ \A i \in 1..Len(Tail(d)) : Tail(d)[i] = d[i + 1]
      /\ Len(a) \in Nat /\ Len(d) \in Nat /\ Len(d) >= 1
  BY HeadTailProperties, LenProperties, EmptySeq
<1> DEFINE b == Append(a, Head(d))
<1>2. /\ b \in Seq(S) /\ Len(b) = Len(a) + 1 /\ b[Len(a) + 1] = d[1]
      /\ \A i \in 1..Len(a) : b[i] = a[i]
  BY <1>1, AppendProperties
<1> HIDE DEF b
<1>3. /\ b \o Tail(d) \in Seq(S) /\ Len(b \o Tail(d)) = Len(b) + Len(Tail(d))
      /\ \A i \in 1..Len(b) + Len(Tail(d)) :
            (b \o Tail(d))[i] = IF i <= Len(b) THEN b[i] ELSE Tail(d)[i - Len(b)]
  BY <1>1, <1>2, ConcatProperties
<1>4. /\ a \o d \in Seq(S) /\ Len(a \o d) = Len(a) + Len(d)
      /\ \A i \in 1..Len(a) + Len(d) : (a \o d)[i] = IF i <= Len(a) THEN a[i] ELSE d[i - Len(a)]
  BY ConcatProperties
<1>5. \A i \in 1..Len(a) + Len(d) : (b \o Tail(d))[i] = (a \o d)[i]
  <2> SUFFICES ASSUME NEW i \in 1..Len(a) + Len(d) PROVE (b \o Tail(d))[i] = (a \o d)[i]
    OBVIOUS
  <2>1. CASE i <= Len(a)
    BY <1>1, <1>2, <1>3, <1>4, <2>1
  <2>2. CASE i = Len(a) + 1
    BY <1>1, <1>2, <1>3, <1>4, <2>2
  <2>3. CASE i > Len(a) + 1
    <3>1. i - Len(b) \in 1..Len(Tail(d)) /\ (i - Len(b)) + 1 = i - Len(a)
      BY <1>1, <1>2, <2>3
    <3>2. Tail(d)[i - Len(b)] = d[i - Len(a)]
      BY <1>1, <3>1
    <3>3. i \in 1..Len(b) + Len(Tail(d)) /\ ~(i <= Len(b)) /\ ~(i <= Len(a))
      BY <1>1, <1>2, <2>3
    <3>4. (b \o Tail(d))[i] = Tail(d)[i - Len(b)]
      BY <1>3, <3>3
    <3>5. (a \o d)[i] = d[i - Len(a)]
      BY <1>4, <3>3
    <3> QED BY <3>2, <3>4, <3>5
  <2>4. i <= Len(a) \/ i = Len(a) + 1 \/ i > Len(a) + 1
    BY <1>1
  <2> QED BY <2>1, <2>2, <2>3, <2>4
<1>6. b \o Tail(d) = a \o d
  BY <1>1, <1>2, <1>3, <1>4, <1>5, SeqEqual
<1> QED BY <1>6 DEF b

LEMMA ReadsALine ==
    ASSUME TypeInv, up # <<>>
    PROVE  /\ Append(buf, Head(up)) \in Seq(Nat) /\ Append(buf, Head(up)) # <<>>
           /\ Len(Append(buf, Head(up))) = Len(buf) + 1
           /\ Append(buf, Head(up))[Len(buf) + 1] = Head(up)
           /\ Head(up) \in Nat /\ Tail(up) \in Seq(Nat)
<1>1. Head(up) \in Nat /\ Tail(up) \in Seq(Nat)
  BY HeadTailProperties DEF TypeInv
<1>2. buf \in Seq(Nat) /\ Len(buf) \in Nat
  BY LenProperties DEF TypeInv
<1>3. /\ Append(buf, Head(up)) \in Seq(Nat)
      /\ Len(Append(buf, Head(up))) = Len(buf) + 1
      /\ Append(buf, Head(up))[Len(buf) + 1] = Head(up)
  BY <1>1, <1>2, AppendProperties
<1>4. Append(buf, Head(up)) # <<>>
  BY <1>2, <1>3, EmptySeq
<1> QED BY <1>1, <1>3, <1>4

\* What the client has been told so far, read or not.
Told == answers \o down

LEMMA ToldStays ==
    ASSUME TypeInv, ReadReply
    PROVE  Told' = Told
<1>1. answers \in Seq(Replies) /\ down \in Seq(Replies) /\ down # <<>>
  BY DEF TypeInv, ReadReply
<1> QED BY <1>1, HandedOver DEF ReadReply, Told

LEMMA TypeInitially == Init => TypeInv
<1> SUFFICES ASSUME Init PROVE TypeInv
  OBVIOUS
<1>1. waits \in BOOLEAN /\ shut \in BOOLEAN /\ (shut => unsent = <<>> /\ ~waits)
  BY DEF Init
<1> QED BY <1>1, EmptySeq DEF Init, TypeInv, Replies, BadRequest

LEMMA TypeInductive == TypeInv /\ [Next]_vars => TypeInv'
<1> SUFFICES ASSUME TypeInv, [Next]_vars PROVE TypeInv'
  OBVIOUS
<1> USE DEF TypeInv, peer, sockets, handler
<1>1. CASE UNCHANGED vars
  BY <1>1 DEF vars
<1>2. ASSUME NEW n \in Sizes, Request(n) PROVE TypeInv'
  <2>1. n \in Nat /\ Calls + 1 \in Nat
    BY Constants, LenProperties DEF Calls
  <2>2. unsent' \in Seq(Nat)
    BY <1>2, <2>1, LineIsASeq DEF Request
  <2>3. sizes' \in Seq(Nat)
    BY <1>2, <2>1, AppendProperties DEF Request
  <2>4. ~shut /\ UNCHANGED shut
    BY <1>2 DEF Request, Free
  <2> QED BY <1>2, <2>2, <2>3, <2>4 DEF Request
<1>3. CASE BlankLine
  BY <1>3 DEF BlankLine, Free, Newline
<1>s. CASE ShutDown
  BY <1>s DEF ShutDown, Free
<1>4. CASE Write
  BY <1>4, HeadTailProperties, AppendProperties DEF Write
<1>5. CASE ReadReply
  BY <1>5, HeadTailProperties, AppendProperties DEF ReadReply
<1>6. CASE CallFails \/ HangUp
  BY <1>6 DEF CallFails, HangUp
<1>7. CASE ReadByte
  <2> DEFINE line == Append(buf, Head(up))
  <2>1. line \in Seq(Nat) /\ line # <<>> /\ up' \in Seq(Nat)
    BY <1>7, ReadsALine DEF ReadByte
  <2>2. UNCHANGED <<peer, down, executed>>
    BY <1>7 DEF ReadByte, Handles
  <2> HIDE DEF line
  <2>3. CASE Consider(line)
    BY <2>1, <2>2, <2>3, Considered
  <2>4. CASE buf' = line /\ UNCHANGED <<hpc, outcome>>
    BY <2>1, <2>2, <2>4
  <2> QED BY <1>7, <2>3, <2>4 DEF ReadByte, line
<1>8. CASE ReadEnd
  <2>1. UNCHANGED <<peer, sockets, executed>>
    BY <1>8 DEF ReadEnd, Handles
  <2>2. CASE buf # <<>> /\ Consider(buf)
    BY <2>1, <2>2, Considered
  <2>3. CASE Goto("closed") /\ UNCHANGED <<buf, outcome>>
    BY <2>1, <2>3 DEF Goto
  <2> QED BY <1>8, <2>2, <2>3 DEF ReadEnd
<1>9. CASE NextLine
  BY <1>9, EmptySeq DEF NextLine, Handles, Goto
<1>10. CASE Dispatch
  <2>1. executed' \in Seq(Int)
    BY <1>10, AppendProperties DEF Dispatch, Replies
  <2> QED BY <1>10, <2>1 DEF Dispatch, Handles, Goto
<1>11. CASE Answer \/ Refuse
  <2>1. down' \in Seq(Replies)
    <3>1. down' = down \/ down' = Append(down, outcome)
      BY <1>11 DEF Answer, Refuse, Reply
    <3>2. down \in Seq(Replies) /\ Append(down, outcome) \in Seq(Replies)
      BY AppendProperties
    <3> QED BY <3>1, <3>2
  <2>2. hpc' \in {"next", "closed"} /\ UNCHANGED <<peer, buf, outcome, up, executed>>
    BY <1>11 DEF Answer, Refuse, Reply, Handles, Goto
  <2> QED BY <2>1, <2>2
<1>12. CASE Die
  BY <1>12 DEF Die, Handles, Goto
<1> QED BY <1>1, <1>2, <1>3, <1>s, <1>4, <1>5, <1>6, <1>7, <1>8, <1>9, <1>10, <1>11, <1>12
        DEF Next, Call, Serve

LEMMA TypesAlways == Spec => []TypeInv
BY TypeInitially, TypeInductive, PTL DEF Spec

-----------------------------------------------------------------------------
(* What a client that waits is in doubt about.  Such a client has one line *)
(* at a time on its way, and every line is answered once at most.          *)

Rest == up \o unsent

\* A newline at the end and nowhere else; or nothing.
OneLine(s) == \A i \in 1..Len(s) : s[i] = Newline <=> i = Len(s)

One(yes) == IF yes THEN 1 ELSE 0

\* A request that has been made, or partly read, and not been carried out.
ToRun == hpc = "dispatch" \/ (hpc \in {"read", "next"} /\ Rest # <<>>)

\* The same, until it has been answered.
ToAnswer == ToRun \/ hpc \in {"write", "refuse"}

Counts ==
    /\ Calls <= Len(answers) + 1
    /\ Len(answers) + Len(down) + One(ToAnswer) <= Calls
    /\ Len(executed) + One(ToRun) <= Calls

Lines ==
    /\ HandlerOpen => OneLine(Rest)
    /\ hpc = "read" /\ buf # <<>> => Rest # <<>>
    /\ hpc \in {"dispatch", "write"} /\ client # "closed" => Rest = <<>>

WaitInv == waits => Counts /\ Lines

LEMMA Lengths ==
    TypeInv => /\ Calls \in Nat /\ Len(answers) \in Nat /\ Len(down) \in Nat /\ Len(executed) \in Nat
               /\ Rest \in Seq(Nat)
<1> SUFFICES ASSUME TypeInv PROVE Lengths!2
  OBVIOUS
<1>1. Rest \in Seq(Nat)
  BY ConcatProperties DEF Rest, TypeInv
<1> QED BY <1>1, LenProperties DEF TypeInv, Calls

\* A line one byte of which is taken.
LEMMA Shorter ==
    ASSUME NEW s \in Seq(Nat), s # <<>>, OneLine(s)
    PROVE  OneLine(Tail(s)) /\ (Head(s) = Newline <=> Tail(s) = <<>>)
<1> DEFINE t == Tail(s)
<1>1. /\ t \in Seq(Nat) /\ Len(t) = Len(s) - 1 /\ Head(s) = s[1]
      /\ \A i \in 1..Len(t) : t[i] = s[i + 1]
      /\ Len(s) \in Nat /\ Len(s) >= 1
  BY HeadTailProperties, LenProperties, EmptySeq
<1> HIDE DEF t
<1>2. Head(s) = Newline <=> Len(s) = 1
  <2>1. 1 \in 1..Len(s)
    BY <1>1
  <2> QED BY <1>1, <2>1 DEF OneLine
<1>3. Len(s) = 1 <=> t = <<>>
  <2>1. t = <<>> <=> Len(t) = 0
    BY <1>1, EmptySeq
  <2> QED BY <1>1, <2>1
<1>4. OneLine(t)
  <2> SUFFICES ASSUME NEW i \in 1..Len(t)
               PROVE  t[i] = Newline <=> i = Len(t)
    BY DEF OneLine
  <2>1. i + 1 \in 1..Len(s) /\ i \in Nat
    BY <1>1
  <2>2. s[i + 1] = Newline <=> i + 1 = Len(s)
    BY <2>1 DEF OneLine
  <2>3. i + 1 = Len(s) <=> i = Len(t)
    BY <1>1, <2>1
  <2>4. t[i] = s[i + 1]
    BY <1>1
  <2> QED BY <2>2, <2>3, <2>4
<1> QED BY <1>2, <1>3, <1>4 DEF t

LEMMA NewLine ==
    ASSUME NEW k \in Nat \ {0}, NEW n \in Nat
    PROVE  OneLine(Line(k, n))
<1> SUFFICES ASSUME NEW i \in 1..Len(Line(k, n))
             PROVE  Line(k, n)[i] = Newline <=> i = Len(Line(k, n))
  BY DEF OneLine
<1>1. Len(Line(k, n)) = n + 1
  BY LineIsASeq
<1>2. CASE i = n + 1
  BY <1>1, <1>2, LineIsASeq
<1>3. CASE i # n + 1
  <2>1. i \in 1..n
    BY <1>1, <1>3
  <2>2. Line(k, n)[i] = k
    BY <2>1, LineIsASeq
  <2> QED BY <1>1, <1>3, <2>2 DEF Newline
<1> QED BY <1>2, <1>3

\* What each step does to the line on its way.
LEMMA RestNext ==
    ASSUME TypeInv
    PROVE  /\ up = <<>> /\ up' = up /\ unsent' \in Seq(Nat) => Rest' = unsent'
           /\ Write => Rest' = Rest
           /\ up # <<>> /\ up' = Tail(up) /\ unsent' = unsent =>
                  Rest # <<>> /\ Rest' = Tail(Rest) /\ Head(Rest) = Head(up)
           /\ Rest = <<>> => up = <<>> /\ unsent = <<>>
<1>1. up \in Seq(Nat) /\ unsent \in Seq(Nat)
  BY DEF TypeInv
<1>2. ASSUME up = <<>>, up' = up, unsent' \in Seq(Nat) PROVE Rest' = unsent'
  BY <1>2, ConcatEmptySeq DEF Rest
<1>3. ASSUME Write PROVE Rest' = Rest
  BY <1>1, <1>3, HandedOver DEF Write, Rest
<1>4. ASSUME up # <<>>, up' = Tail(up), unsent' = unsent
      PROVE  Rest # <<>> /\ Rest' = Tail(Rest) /\ Head(Rest) = Head(up)
  BY <1>1, <1>4, SMTT(30) DEF Rest
<1>5. ASSUME Rest = <<>> PROVE up = <<>> /\ unsent = <<>>
  BY <1>1, <1>5, ConcatEqualIffEmpty DEF Rest
<1> QED BY <1>2, <1>3, <1>4, <1>5

\* Steps that neither carry out nor answer, and bring no new line.
LEMMA CountsStay ==
    ASSUME Counts, TypeInv, UNCHANGED <<sizes, answers, down, executed>>,
           ToRun' => ToRun, ToAnswer' => ToAnswer
    PROVE  Counts'
<1> HIDE DEF ToRun, ToAnswer
<1>1. One(ToRun') <= One(ToRun) /\ One(ToRun') \in Nat /\ One(ToRun) \in Nat
  BY DEF One
<1>2. One(ToAnswer') <= One(ToAnswer) /\ One(ToAnswer') \in Nat /\ One(ToAnswer) \in Nat
  BY DEF One
<1>3. Calls' = Calls
  BY DEF Calls
<1> QED BY <1>1, <1>2, <1>3, Lengths DEF Counts

\* Steps of the client that make no call, and those of nobody.
LEMMA WaitStays ==
    ASSUME TypeInv, WaitInv, UNCHANGED <<sizes, answers, down, executed, hpc, buf, waits>>,
           Rest' = Rest, client' = "closed" \/ client # "closed"
    PROVE  WaitInv'
<1>1. waits => Counts'
  BY DEF WaitInv, Counts, Calls, One, ToRun, ToAnswer
<1>2. waits => Lines'
  BY DEF WaitInv, Lines, HandlerOpen
<1> QED BY <1>1, <1>2 DEF WaitInv

LEMMA WaitInductive == TypeInv /\ TypeInv' /\ WaitInv /\ [Next]_vars => WaitInv'
<1> SUFFICES ASSUME TypeInv, TypeInv', WaitInv, [Next]_vars, waits PROVE Counts' /\ Lines'
  <2>1. CASE UNCHANGED vars \/ (\E n \in Sizes : Request(n)) \/ BlankLine \/ ShutDown \/ Call \/ HangUp
    BY <2>1 DEF vars, Request, BlankLine, ShutDown, Call, Write, ReadReply, CallFails, HangUp, WaitInv
  <2>2. CASE Serve \/ Die
    <3>1. UNCHANGED peer
      BY <2>2 DEF Serve, ReadByte, ReadEnd, NextLine, Dispatch, Answer, Refuse, Reply, Die, Handles
    <3> QED BY <3>1 DEF peer, WaitInv
  <2> QED BY <2>1, <2>2 DEF Next
<1> USE DEF peer, sockets, handler
<1>n. /\ Calls \in Nat /\ Len(answers) \in Nat /\ Len(down) \in Nat /\ Len(executed) \in Nat
      /\ Rest \in Seq(Nat)
  BY Lengths
<1>w. Counts /\ Lines
  BY DEF WaitInv
<1>r. UNCHANGED <<up, unsent>> => Rest' = Rest
  BY DEF Rest
<1>1. CASE UNCHANGED vars \/ CallFails \/ HangUp
  <2>1. UNCHANGED <<sizes, answers, down, executed, hpc, buf, waits, up, unsent>>
    BY <1>1 DEF vars, CallFails, HangUp
  <2>2. client' = "closed" \/ client # "closed" \/ client' = client
    BY <1>1 DEF vars, CallFails, HangUp
  <2>3. CASE client' = "closed" \/ client # "closed"
    BY <1>r, <2>1, <2>3, WaitStays DEF WaitInv
  <2>4. CASE client' = client
    BY <1>r, <1>w, <2>1, <2>4 DEF Counts, Lines, Calls, One, ToRun, ToAnswer, HandlerOpen
  <2> QED BY <2>2, <2>3, <2>4
<1>2. CASE BlankLine \/ ShutDown
  BY <1>2 DEF BlankLine, ShutDown
<1>3. CASE Write
  BY <1>3, RestNext, WaitStays DEF Write, WaitInv
<1>4. ASSUME NEW n \in Sizes, Request(n) PROVE Counts' /\ Lines'
  <2>1. /\ client = "open" /\ client' = client /\ unsent = <<>> /\ Len(answers) = Calls
        /\ unsent' = Line(Calls + 1, n) /\ n \in Nat
        /\ UNCHANGED <<answers, down, executed, hpc, buf, up>>
    BY <1>4, Constants DEF Request, Free
  <2>2. Calls' = Calls + 1
    BY <1>4, <1>n, AppendProperties, Constants DEF Request, Calls, TypeInv
  <2>3. ~ToAnswer /\ Len(down) = 0
    BY <1>w, <1>n, <2>1 DEF Counts, One
  <2>4. CASE HandlerOpen
    <3>1. hpc \in {"read", "next"} /\ Rest = <<>>
      BY <2>3, <2>4 DEF ToAnswer, ToRun, HandlerOpen, TypeInv
    <3>2. OneLine(Rest')
      <4>1. up = <<>> /\ unsent' \in Seq(Nat)
        BY <3>1, RestNext DEF TypeInv
      <4>2. Rest' = Line(Calls + 1, n)
        BY <2>1, <4>1, RestNext
      <4> QED BY <1>n, <2>1, <4>2, NewLine
    <3>3. buf = <<>> \/ hpc # "read"
      BY <1>w, <3>1 DEF Lines
    <3>4. Counts'
      <4>1. One(ToRun') \in {0, 1} /\ One(ToAnswer') \in {0, 1} /\ One(ToRun) = 0
        BY <2>3 DEF One, ToAnswer
      <4> QED BY <1>w, <1>n, <2>1, <2>2, <2>3, <4>1 DEF Counts
    <3>5. Lines'
      BY <1>w, <2>1, <2>2, <2>3, <3>1, <3>2, <3>3 DEF Lines, HandlerOpen
    <3> QED BY <3>4, <3>5
  <2>5. CASE ~HandlerOpen
    <3>1. Counts'
      <4>1. One(ToRun') \in {0, 1} /\ One(ToAnswer') \in {0, 1} /\ One(ToRun) = 0
        BY <2>3 DEF One, ToAnswer
      <4> QED BY <1>w, <1>n, <2>1, <2>2, <2>3, <4>1 DEF Counts
    <3>2. Lines'
      BY <1>w, <2>1, <2>2, <2>3, <2>5 DEF Lines, HandlerOpen
    <3> QED BY <3>1, <3>2
  <2> QED BY <2>4, <2>5
<1>5. CASE ReadReply
  <2>1. Len(answers') = Len(answers) + 1 /\ Len(down') = Len(down) - 1
    BY <1>5, AppendProperties, HeadTailProperties DEF ReadReply, TypeInv
  <2>2. /\ UNCHANGED <<sizes, executed, hpc, buf, client>> /\ Rest' = Rest
    BY <1>5 DEF ReadReply, Rest
  <2>3. Counts'
    <3>1. (ToRun' <=> ToRun) /\ (ToAnswer' <=> ToAnswer)
      BY <2>2 DEF ToRun, ToAnswer
    <3>2. One(ToRun') = One(ToRun) /\ One(ToAnswer') = One(ToAnswer)
      BY <3>1 DEF One
    <3>3. One(ToAnswer) \in {0, 1}
      BY DEF One
    <3> QED BY <1>w, <1>n, <2>1, <2>2, <3>2, <3>3 DEF Counts, Calls
  <2>4. Lines'
    BY <1>w, <2>1, <2>2 DEF Lines, HandlerOpen
  <2> QED BY <2>3, <2>4
<1>6. CASE ReadByte
  <2> DEFINE line == Append(buf, Head(up))
  <2>1. /\ hpc = "read" /\ UNCHANGED <<sizes, answers, client, down, executed>>
        /\ Rest # <<>> /\ Rest' = Tail(Rest) /\ Head(Rest) = Head(up)
    BY <1>6, RestNext DEF ReadByte, Handles
  <2>2. OneLine(Rest)
    BY <1>w, <2>1 DEF Lines, HandlerOpen
  <2>3. OneLine(Rest') /\ (Head(up) = Newline <=> Rest' = <<>>)
    BY <1>n, <2>1, <2>2, Shorter
  <2>4. ToRun
    BY <2>1 DEF ToRun
  <2>5. line \in Seq(Nat) /\ line # <<>> /\ line[Len(line)] = Head(up) /\ Len(line) \in Nat
    BY <1>6, ReadsALine, LenProperties DEF ReadByte
  <2> HIDE DEF line
  <2>6. CASE Full(line) /\ Consider(line)
    <3>1. hpc' \in {"next", "dispatch", "refuse"} /\ (hpc' = "refuse" <=> TooLong(line))
      BY <2>5, <2>6, Considered
    <3>2. ~TooLong(line) => Rest' = <<>>
      BY <2>3, <2>5, <2>6, Constants DEF Full, TooLong
    <3>3. Counts'
      <4>1. (ToRun' => ToRun) /\ (ToAnswer' => ToAnswer)
        BY <2>1, <2>3, <2>4, <3>1, <3>2 DEF ToRun, ToAnswer
      <4>2. UNCHANGED <<sizes, answers, down, executed>>
        BY <2>1
      <4> QED BY <1>w, <4>1, <4>2, CountsStay
    <3>4. Lines'
      BY <1>w, <2>1, <2>3, <2>4, <3>1, <3>2 DEF Lines, HandlerOpen
    <3> QED BY <3>3, <3>4
  <2>7. CASE ~Full(line) /\ UNCHANGED <<hpc, outcome>>
    <3>1. Rest' # <<>>
      BY <2>3, <2>5, <2>7 DEF Full
    <3>2. Counts'
      <4>1. (ToRun' => ToRun) /\ (ToAnswer' => ToAnswer)
        BY <2>1, <2>3, <2>4, <2>7, <3>1 DEF ToRun, ToAnswer
      <4>2. UNCHANGED <<sizes, answers, down, executed>>
        BY <2>1
      <4> QED BY <1>w, <4>1, <4>2, CountsStay
    <3>3. Lines'
      BY <1>w, <2>1, <2>3, <2>4, <2>7, <3>1 DEF Lines, HandlerOpen
    <3> QED BY <3>2, <3>3
  <2> QED BY <1>6, <2>6, <2>7 DEF ReadByte, line
<1>7. CASE ReadEnd
  <2>1. /\ hpc = "read" /\ UNCHANGED <<sizes, answers, client, down, executed>> /\ client = "closed"
        /\ Rest' = Rest
    BY <1>7, <1>r DEF ReadEnd, Handles, TypeInv
  <2>2. CASE buf # <<>> /\ Consider(buf)
    <3>1. hpc' \in {"next", "dispatch", "refuse"}
      BY <2>2, Considered DEF TypeInv
    <3>2. ToRun
      BY <1>w, <2>1, <2>2 DEF Lines, ToRun
    <3>3. Counts'
      <4>1. (ToRun' => ToRun) /\ (ToAnswer' => ToAnswer)
        BY <2>1, <3>1, <3>2 DEF ToRun, ToAnswer
      <4>2. UNCHANGED <<sizes, answers, down, executed>>
        BY <2>1
      <4> QED BY <1>w, <4>1, <4>2, CountsStay
    <3>4. Lines'
      BY <1>w, <2>1, <3>1, <3>2 DEF Lines, HandlerOpen
    <3> QED BY <3>3, <3>4
  <2>3. CASE Goto("closed")
    <3>1. Counts'
      <4>1. (ToRun' => ToRun) /\ (ToAnswer' => ToAnswer)
        BY <2>1, <2>3 DEF ToRun, ToAnswer, Goto
      <4>2. UNCHANGED <<sizes, answers, down, executed>>
        BY <2>1
      <4> QED BY <1>w, <4>1, <4>2, CountsStay
    <3>2. Lines'
      BY <1>w, <2>1, <2>3 DEF Lines, HandlerOpen, Goto
    <3> QED BY <3>1, <3>2
  <2> QED BY <1>7, <2>2, <2>3 DEF ReadEnd
<1>8. CASE NextLine
  <2>1. /\ hpc = "next" /\ hpc' = "read" /\ buf' = <<>> /\ Rest' = Rest
        /\ UNCHANGED <<sizes, answers, client, down, executed>>
    BY <1>8, <1>r DEF NextLine, Handles, Goto
  <2>2. Counts'
    <3>1. (ToRun' => ToRun) /\ (ToAnswer' => ToAnswer)
      BY <2>1 DEF ToRun, ToAnswer
    <3>2. UNCHANGED <<sizes, answers, down, executed>>
      BY <2>1
    <3> QED BY <1>w, <3>1, <3>2, CountsStay
  <2>3. Lines'
    BY <1>w, <2>1 DEF Lines, HandlerOpen
  <2> QED BY <2>2, <2>3
<1>9. CASE Dispatch
  <2>1. /\ hpc = "dispatch" /\ hpc' = "write" /\ Rest' = Rest
        /\ UNCHANGED <<sizes, answers, client, down, buf>>
    BY <1>9, <1>r DEF Dispatch, Handles, Goto
  <2>2. Len(executed') \in Nat /\ Len(executed') <= Len(executed) + 1
    <3>1. outcome.to \in Int
      BY DEF TypeInv, Replies
    <3>2. executed' = executed \/ executed' = Append(executed, outcome.to)
      BY <1>9 DEF Dispatch
    <3>3. executed \in Seq(Int)
      BY DEF TypeInv
    <3>4. Len(Append(executed, outcome.to)) = Len(executed) + 1
      BY <3>1, <3>3, AppendProperties
    <3>5. CASE executed' = executed
      BY <1>n, <3>5
    <3>6. CASE executed' = Append(executed, outcome.to)
      BY <1>n, <3>4, <3>6
    <3> QED BY <3>2, <3>5, <3>6
  <2>3. Counts'
    <3>1. ToRun /\ ~ToRun' /\ ToAnswer
      BY <2>1 DEF ToRun, ToAnswer
    <3>2. One(ToRun) = 1 /\ One(ToRun') = 0 /\ One(ToAnswer) = 1 /\ One(ToAnswer') \in {0, 1}
      BY <3>1 DEF One
    <3> QED BY <1>w, <1>n, <2>1, <2>2, <3>2 DEF Counts, Calls
  <2>4. Lines'
    BY <1>w, <2>1, <2>2 DEF Lines, HandlerOpen
  <2> QED BY <2>3, <2>4
<1>10. CASE Answer \/ Refuse
  <2>1. /\ hpc \in {"write", "refuse"} /\ UNCHANGED <<sizes, answers, client, executed, buf>>
        /\ Rest' = Rest
    BY <1>10, <1>r DEF Answer, Refuse, Reply, Handles
  <2>2. CASE hpc' = "closed" /\ down' = down
    <3>1. Counts'
      <4>1. (ToRun' => ToRun) /\ (ToAnswer' => ToAnswer)
        BY <2>1, <2>2 DEF ToRun, ToAnswer
      <4>2. UNCHANGED <<sizes, answers, down, executed>>
        BY <2>1, <2>2
      <4> QED BY <1>w, <4>1, <4>2, CountsStay
    <3>2. Lines'
      BY <1>w, <2>1, <2>2 DEF Lines, HandlerOpen
    <3> QED BY <3>1, <3>2
  <2>3. CASE client # "closed" /\ down' = Append(down, outcome)
    <3>1. Len(down') = Len(down) + 1
      BY <2>3, AppendProperties DEF TypeInv
    <3>2. hpc' = IF hpc = "write" THEN "next" ELSE "closed"
      BY <1>10, <2>3 DEF Answer, Refuse, Reply, Handles, Goto
    <3>3. hpc = "write" => Rest = <<>>
      BY <1>w, <2>3 DEF Lines
    <3>4. Counts'
      <4>1. ToAnswer /\ ~ToAnswer' /\ ~ToRun'
        BY <2>1, <3>2, <3>3 DEF ToRun, ToAnswer
      <4>2. One(ToAnswer) = 1 /\ One(ToAnswer') = 0 /\ One(ToRun') = 0 /\ One(ToRun) \in {0, 1}
        BY <4>1 DEF One
      <4> QED BY <1>w, <1>n, <2>1, <3>1, <4>2 DEF Counts, Calls
    <3>5. Lines'
      BY <1>w, <2>1, <2>3, <3>1, <3>2, <3>3 DEF Lines, HandlerOpen
    <3> QED BY <3>4, <3>5
  <2> QED BY <1>10, <2>2, <2>3 DEF Answer, Refuse, Reply, Goto
<1>11. CASE Die
  <2>1. hpc' = "dead" /\ UNCHANGED <<sizes, answers, client, down, executed, buf>> /\ Rest' = Rest
    BY <1>11, <1>r DEF Die, Handles, Goto
  <2>2. Counts'
    <3>1. (ToRun' => ToRun) /\ (ToAnswer' => ToAnswer)
      BY <2>1 DEF ToRun, ToAnswer
    <3>2. UNCHANGED <<sizes, answers, down, executed>>
      BY <2>1
    <3> QED BY <1>w, <3>1, <3>2, CountsStay
  <2>3. Lines'
    BY <1>w, <2>1 DEF Lines, HandlerOpen
  <2> QED BY <2>2, <2>3
<1> QED BY <1>1, <1>2, <1>3, <1>4, <1>5, <1>6, <1>7, <1>8, <1>9, <1>10, <1>11
        DEF Next, Call, Serve

(* A client that waits for its replies is in doubt about one call at most  *)
(* (ticker-client, lib.rs 24): of what the daemon carried out, all but the *)
(* last has been answered.                                                 *)
THEOREM DoubtIsOneCall == Spec => []OneInDoubt
<1>1. Init => WaitInv
  BY EmptySeq, ConcatEmptySeq DEF Init, WaitInv, Counts, Lines, Calls, One, ToRun, ToAnswer, Rest, OneLine
<1>2. TypeInv /\ WaitInv => OneInDoubt
  BY Lengths DEF WaitInv, Counts, OneInDoubt, One
<1> QED BY <1>1, <1>2, WaitInductive, TypesAlways, PTL DEF Spec

-----------------------------------------------------------------------------
(* What is on its way to the handler, as a sequence of numbers: request k  *)
(* is sizes[k] times the number k and a newline, and blank lines may stand *)
(* anywhere between two requests.                                          *)

\* Request k is in s between places a and e, and nowhere else, and a newline is at e.
Block(s, k, a, e) ==
    /\ e \in 1..Len(s) /\ s[e] = Newline
    /\ \A i \in 1..Len(s) : s[i] = k <=> a < i /\ i < e

\* The numbers in s that are no newlines go up.
Rising(s) == \A i, j \in 1..Len(s) : i < j /\ s[i] # Newline /\ s[j] # Newline => s[i] <= s[j]

\* All in s that is no newline is of the requests from lo + 1 to hi.
Within(s, lo, hi) == \A i \in 1..Len(s) : s[i] = Newline \/ (lo < s[i] /\ s[i] <= hi)

\* The requests after the first lo of those of sizes z are all there.
There(s, lo, z) ==
    \A k \in lo + 1..Len(z) : \E a, e \in Nat : e = a + z[k] + 1 /\ Block(s, k, a, e)

Laid(s, lo, z) == Rising(s) /\ Within(s, lo, Len(z)) /\ There(s, lo, z)

AllPositive(z) == \A k \in 1..Len(z) : z[k] > 0

LEMMA InBoth ==
    ASSUME NEW S, NEW a \in Seq(S), NEW d \in Seq(S)
    PROVE  /\ a \o d \in Seq(S)
           /\ Len(a) \in Nat /\ Len(d) \in Nat /\ Len(a \o d) = Len(a) + Len(d)
           /\ \A i \in 1..Len(a) : (a \o d)[i] = a[i]
           /\ \A i \in 1..Len(d) : (a \o d)[Len(a) + i] = d[i]
<1>1. /\ a \o d \in Seq(S) /\ Len(a \o d) = Len(a) + Len(d)
      /\ \A i \in 1..Len(a) + Len(d) : (a \o d)[i] = IF i <= Len(a) THEN a[i] ELSE d[i - Len(a)]
      /\ Len(a) \in Nat /\ Len(d) \in Nat
  BY ConcatProperties, LenProperties
<1>2. \A i \in 1..Len(a) : (a \o d)[i] = a[i]
  BY <1>1
<1>3. ASSUME NEW i \in 1..Len(d) PROVE (a \o d)[Len(a) + i] = d[i]
  <2>1. Len(a) + i \in 1..Len(a) + Len(d) /\ ~(Len(a) + i <= Len(a)) /\ (Len(a) + i) - Len(a) = i
    BY <1>1
  <2> QED BY <1>1, <2>1
<1> QED BY <1>1, <1>2, <1>3

\* What s begins is longer, and its later places are not of request k.
Longer(s, t) == Len(s) <= Len(t) /\ \A i \in 1..Len(s) : t[i] = s[i]

LEMMA BlockLonger ==
    ASSUME NEW s \in Seq(Nat), NEW t \in Seq(Nat), Longer(s, t), NEW k, NEW a \in Nat, NEW e \in Nat,
           \A i \in 1..Len(t) : i > Len(s) => t[i] # k, Block(s, k, a, e)
    PROVE  Block(t, k, a, e)
<1> DEFINE m == Len(s)
           d == Len(t)
<1>1. m \in Nat /\ d \in Nat /\ m <= d /\ \A i \in 1..m : t[i] = s[i]
  BY LenProperties DEF Longer
<1>2. e \in 1..m /\ s[e] = Newline /\ \A i \in 1..m : s[i] = k <=> a < i /\ i < e
  BY DEF Block
<1>3. \A i \in 1..d : i > m => t[i] # k
  OBVIOUS
<1> HIDE DEF m, d
<1>4. e \in 1..d /\ t[e] = Newline
  BY <1>1, <1>2
<1>5. ASSUME NEW i \in 1..d PROVE t[i] = k <=> a < i /\ i < e
  <2>1. CASE i \in 1..m
    BY <1>1, <1>2, <2>1
  <2>2. CASE i \notin 1..m
    <3>1. i > m /\ ~(i < e)
      BY <1>1, <1>2, <2>2
    <3> QED BY <1>3, <3>1
  <2> QED BY <2>1, <2>2
<1> QED BY <1>4, <1>5 DEF Block, d

LEMMA RisingLonger ==
    ASSUME NEW s \in Seq(Nat), NEW t \in Seq(Nat), Longer(s, t), Rising(s),
           NEW lo \in Nat, NEW hi \in Nat, NEW k \in Nat, Within(s, lo, hi), hi <= k,
           \A i \in 1..Len(t) : i > Len(s) => t[i] = k \/ t[i] = Newline
    PROVE  Rising(t)
<1> DEFINE m == Len(s)
           d == Len(t)
<1>1. m \in Nat /\ d \in Nat /\ m <= d /\ \A i \in 1..m : t[i] = s[i]
  BY LenProperties DEF Longer
<1>2. \A i, j \in 1..m : i < j /\ s[i] # Newline /\ s[j] # Newline => s[i] <= s[j]
  BY DEF Rising
<1>3. \A i \in 1..d : i > m => t[i] = k \/ t[i] = Newline
  OBVIOUS
<1>4. \A i \in 1..m : s[i] \in Nat /\ (s[i] = Newline \/ s[i] <= hi)
  BY DEF Within
<1> HIDE DEF m, d
<1>5. ASSUME NEW i \in 1..d, NEW j \in 1..d, i < j, t[i] # Newline, t[j] # Newline
      PROVE  t[i] <= t[j]
  <2>1. CASE j \in 1..m
    <3>1. i \in 1..m
      BY <1>1, <1>5, <2>1
    <3> QED BY <1>1, <1>2, <1>5, <2>1, <3>1
  <2>2. CASE j \notin 1..m
    <3>1. t[j] = k
      BY <1>1, <1>3, <1>5, <2>2
    <3>2. CASE i \in 1..m
      <4>1. t[i] = s[i] /\ t[i] # Newline
        BY <1>1, <1>5, <3>2
      <4>2. s[i] \in Nat /\ s[i] <= hi
        BY <1>4, <3>2, <4>1
      <4> QED BY <3>1, <4>1, <4>2
    <3>3. CASE i \notin 1..m
      <4>1. t[i] = k
        BY <1>1, <1>3, <1>5, <3>3
      <4> QED BY <3>1, <4>1
    <3> QED BY <3>2, <3>3
  <2> QED BY <2>1, <2>2
<1> QED BY <1>5 DEF Rising, d

LEMMA WithinLonger ==
    ASSUME NEW s \in Seq(Nat), NEW t \in Seq(Nat), Longer(s, t),
           NEW lo \in Nat, NEW hi \in Nat, NEW k \in Nat, Within(s, lo, hi), hi <= k, lo < k,
           \A i \in 1..Len(t) : i > Len(s) => t[i] = k \/ t[i] = Newline
    PROVE  Within(t, lo, k)
<1> DEFINE m == Len(s)
           d == Len(t)
<1>1. m \in Nat /\ d \in Nat /\ m <= d /\ \A i \in 1..m : t[i] = s[i]
  BY LenProperties DEF Longer
<1>3. \A i \in 1..d : i > m => t[i] = k \/ t[i] = Newline
  OBVIOUS
<1>4. \A i \in 1..m : s[i] \in Nat /\ (s[i] = Newline \/ (lo < s[i] /\ s[i] <= hi))
  BY DEF Within
<1> HIDE DEF m, d
<1>5. ASSUME NEW i \in 1..d
      PROVE  t[i] = Newline \/ (lo < t[i] /\ t[i] <= k)
  <2>1. CASE i \in 1..m
    <3>1. t[i] = s[i]
      BY <1>1, <2>1
    <3>2. s[i] \in Nat /\ (s[i] = Newline \/ (lo < s[i] /\ s[i] <= hi))
      BY <1>4, <2>1
    <3> QED BY <3>1, <3>2
  <2>2. CASE i \notin 1..m
    BY <1>1, <1>3, <2>2
  <2> QED BY <2>1, <2>2
<1> QED BY <1>5 DEF Within, d

\* A request is made.
LEMMA LaidWithLine ==
    ASSUME NEW z \in Seq(Nat), NEW s \in Seq(Nat), NEW lo \in Nat, lo <= Len(z), Laid(s, lo, z),
           NEW n \in Nat \ {0}
    PROVE  Laid(s \o Line(Len(z) + 1, n), lo, Append(z, n))
<1> DEFINE h == Len(z)
           k == h + 1
           more == Append(z, n)
           l == Line(k, n)
           t == s \o l
           m == Len(s)
<1>0. h \in Nat /\ k \in Nat /\ lo <= h /\ lo < k /\ h <= k /\ n \in Nat
  BY LenProperties
<1>1. /\ more \in Seq(Nat) /\ Len(more) = k /\ more[k] = n
      /\ \A i \in 1..h : more[i] = z[i]
  <2>1. n \in Nat
    OBVIOUS
  <2> QED BY <2>1, AppendProperties
<1>2. /\ l \in Seq(Nat) /\ Len(l) = n + 1 /\ l[n + 1] = Newline
      /\ \A i \in 1..n : l[i] = k
  BY <1>0, LineIsASeq
<1>3. Rising(s) /\ Within(s, lo, h) /\ There(s, lo, z)
  BY DEF Laid
<1> HIDE DEF l, more, h
<1>4. /\ t \in Seq(Nat) /\ m \in Nat /\ Len(t) = m + Len(l)
      /\ \A i \in 1..m : t[i] = s[i]
      /\ \A i \in 1..Len(l) : t[m + i] = l[i]
  <2>1. /\ s \o l \in Seq(Nat) /\ Len(s) \in Nat /\ Len(s \o l) = Len(s) + Len(l)
        /\ \A i \in 1..Len(s) : (s \o l)[i] = s[i]
        /\ \A i \in 1..Len(l) : (s \o l)[Len(s) + i] = l[i]
    <3>1. s \in Seq(Nat) /\ l \in Seq(Nat)
      BY <1>2
    <3> HIDE DEF t, m
    <3> QED BY <3>1, InBoth
  <2> QED BY <2>1 DEF t, m
<1> HIDE DEF t, m
<1>5. Len(t) = m + n + 1
  BY <1>0, <1>2, <1>4
<1>6. t[m + n + 1] = Newline
  <2>1. n + 1 \in 1..n + 1 /\ m + (n + 1) = m + n + 1
    BY <1>0, <1>4
  <2> QED BY <1>2, <1>4, <2>1
<1>7. ASSUME NEW i \in 1..Len(t), m < i, i < m + n + 1 PROVE t[i] = k
  <2>0. i \in Nat /\ m \in Nat /\ n \in Nat
    BY <1>4
  <2>1. i - m \in 1..n /\ i - m \in 1..n + 1 /\ m + (i - m) = i
    BY <1>7, <2>0
  <2>2. t[m + (i - m)] = l[i - m] /\ l[i - m] = k
    BY <1>2, <1>4, <2>1
  <2> QED BY <2>1, <2>2
<1>8. \A i \in 1..Len(t) : i > m => t[i] = k \/ t[i] = Newline
  <2> SUFFICES ASSUME NEW i \in 1..Len(t), i > m PROVE t[i] = k \/ t[i] = Newline
    OBVIOUS
  <2>1. i < m + n + 1 \/ i = m + n + 1
    BY <1>0, <1>4, <1>5
  <2> QED BY <1>6, <1>7, <2>1
<1>9. Longer(s, t)
  BY <1>0, <1>4, <1>5 DEF Longer, m
<1>10. Rising(t)
  BY <1>0, <1>3, <1>4, <1>8, <1>9, RisingLonger DEF m
<1>11. Within(t, lo, k)
  BY <1>0, <1>3, <1>4, <1>8, <1>9, WithinLonger DEF m
<1>12. \A i \in 1..m : s[i] # k
  <2>1. \A i \in 1..m : s[i] \in Nat /\ (s[i] = Newline \/ s[i] <= h)
    BY <1>3 DEF Within, m
  <2>2. ASSUME NEW i \in 1..m, s[i] = k PROVE FALSE
    <3>1. s[i] = Newline \/ s[i] <= h
      BY <2>1
    <3>2. k # Newline /\ ~(k <= h)
      BY <1>0 DEF Newline
    <3> QED BY <2>2, <3>1, <3>2
  <2> QED BY <2>2
<1>13. ASSUME NEW q \in lo + 1..k PROVE \E a, e \in Nat : e = a + more[q] + 1 /\ Block(t, q, a, e)
  <2>1. CASE q = k
    <3>1. ASSUME NEW i \in 1..Len(t) PROVE t[i] = k <=> m < i /\ i < m + n + 1
      <4>1. CASE i \in 1..m
        BY <1>0, <1>4, <1>12, <4>1
      <4>2. CASE m < i /\ i < m + n + 1
        BY <1>7, <4>2
      <4>3. CASE i = m + n + 1
        <5>1. t[i] # k
          BY <1>0, <1>6, <4>3 DEF Newline
        <5> QED BY <1>0, <1>4, <4>3, <5>1
      <4> QED BY <1>0, <1>4, <1>5, <4>1, <4>2, <4>3
    <3>2. m + n + 1 \in 1..Len(t) /\ m + n + 1 \in Nat
      BY <1>0, <1>4, <1>5
    <3>3. Block(t, k, m, m + n + 1)
      BY <1>6, <3>1, <3>2 DEF Block
    <3> QED BY <1>1, <1>4, <2>1, <3>2, <3>3
  <2>2. CASE q # k
    <3>1. q \in lo + 1..h /\ q \in 1..h
      BY <1>0, <2>2
    <3>2. PICK a \in Nat, e \in Nat : e = a + z[q] + 1 /\ Block(s, q, a, e)
      BY <1>3, <3>1 DEF There, h
    <3>3. more[q] = z[q]
      BY <1>1, <3>1
    <3>4. \A i \in 1..Len(t) : i > Len(s) => t[i] # q
      BY <1>8, <2>2, <3>1 DEF m, Newline
    <3>5. Block(t, q, a, e)
      BY <1>4, <1>9, <3>2, <3>4, BlockLonger
    <3> QED BY <3>2, <3>3, <3>5
  <2> QED BY <2>1, <2>2
<1>14. There(t, lo, more)
  BY <1>1, <1>13 DEF There
<1>15. Laid(t, lo, more)
  BY <1>1, <1>10, <1>11, <1>14 DEF Laid
<1> QED BY <1>15 DEF t, l, more, h

\* A blank line is.
LEMMA LaidWithBlank ==
    ASSUME NEW z \in Seq(Nat), NEW s \in Seq(Nat), NEW lo \in Nat, lo <= Len(z), Laid(s, lo, z)
    PROVE  Laid(s \o <<Newline>>, lo, z)
<1> DEFINE t == s \o <<Newline>>
           l == <<Newline>>
<1>1. l \in Seq(Nat) /\ Len(l) = 1 /\ l[1] = Newline /\ 1 \in 1..Len(l)
  BY DEF Newline
<1>2. Rising(s) /\ Within(s, lo, Len(z)) /\ There(s, lo, z) /\ Len(z) \in Nat
  BY LenProperties DEF Laid
<1> HIDE DEF l
<1>3. /\ t \in Seq(Nat) /\ Len(s) \in Nat /\ Len(t) = Len(s) + 1
      /\ \A i \in 1..Len(s) : t[i] = s[i]
      /\ t[Len(s) + 1] = Newline
  <2>1. /\ s \o l \in Seq(Nat) /\ Len(s) \in Nat /\ Len(s \o l) = Len(s) + Len(l)
        /\ \A i \in 1..Len(s) : (s \o l)[i] = s[i]
        /\ \A i \in 1..Len(l) : (s \o l)[Len(s) + i] = l[i]
    <3>1. s \in Seq(Nat) /\ l \in Seq(Nat)
      BY <1>1
    <3> HIDE DEF t
    <3> QED BY <3>1, InBoth
  <2> QED BY <1>1, <2>1 DEF l
<1> HIDE DEF t
<1>4. Longer(s, t)
  BY <1>3 DEF Longer
<1>5. \A i \in 1..Len(t) : i > Len(s) => t[i] = Newline
  BY <1>3
<1>6. Rising(t)
  BY <1>2, <1>3, <1>4, <1>5, RisingLonger
<1>7. Within(t, lo, Len(z))
  <2>1. \A i \in 1..Len(s) : s[i] = Newline \/ (lo < s[i] /\ s[i] <= Len(z))
    BY <1>2 DEF Within
  <2>2. ASSUME NEW i \in 1..Len(t) PROVE (i \in 1..Len(s) /\ t[i] = s[i]) \/ t[i] = Newline
    BY <1>3
  <2> QED BY <2>1, <2>2 DEF Within
<1>8. ASSUME NEW q \in lo + 1..Len(z) PROVE \E a, e \in Nat : e = a + z[q] + 1 /\ Block(t, q, a, e)
  <2>1. PICK a \in Nat, e \in Nat : e = a + z[q] + 1 /\ Block(s, q, a, e)
    BY <1>2 DEF There
  <2>2. \A i \in 1..Len(t) : i > Len(s) => t[i] # q
    BY <1>5 DEF Newline
  <2>3. Block(t, q, a, e)
    BY <1>3, <1>4, <2>1, <2>2, BlockLonger
  <2> QED BY <2>1, <2>3
<1>9. There(t, lo, z)
  BY <1>8 DEF There
<1>10. Laid(t, lo, z)
  BY <1>6, <1>7, <1>9 DEF Laid
<1> QED BY <1>10 DEF t

\* s goes on, after d places, as r.
After(s, d, r) ==
    Len(s) = d + Len(r) /\ \A i \in 1..Len(r) : s[d + i] = r[i]

\* The first d places of s are of requests up to k, the others of later ones.
SplitAt(s, d, k) ==
    /\ \A i \in 1..d : s[i] = Newline \/ s[i] <= k
    /\ \A i \in d + 1..Len(s) : s[i] = Newline \/ k < s[i]

LEMMA LaidDropped ==
    ASSUME NEW z \in Seq(Nat), NEW s \in Seq(Nat), NEW r \in Seq(Nat), NEW d \in Nat,
           NEW lo \in Nat, NEW k \in Nat, lo <= k,
           AllPositive(z), Laid(s, lo, z), After(s, d, r), SplitAt(s, d, k)
    PROVE  Laid(r, k, z)
<1> DEFINE m == Len(r)
<1>1. /\ m \in Nat /\ Len(s) \in Nat /\ Len(s) = d + m /\ Len(z) \in Nat
      /\ \A i \in 1..m : s[d + i] = r[i]
  BY LenProperties DEF After
<1>2. Rising(s) /\ Within(s, lo, Len(z)) /\ There(s, lo, z)
  BY DEF Laid
<1> HIDE DEF m
<1>3. \A i \in 1..m : d + i \in 1..Len(s) /\ d + i \in d + 1..Len(s)
  BY <1>1
<1>4. Rising(r)
  <2>1. ASSUME NEW i \in 1..m, NEW j \in 1..m, i < j, r[i] # Newline, r[j] # Newline
        PROVE  r[i] <= r[j]
    <3>1. d + i \in 1..Len(s) /\ d + j \in 1..Len(s) /\ d + i < d + j
      BY <1>1, <1>3, <2>1
    <3>2. s[d + i] = r[i] /\ s[d + j] = r[j]
      BY <1>1
    <3> QED BY <1>2, <2>1, <3>1, <3>2 DEF Rising
  <2> QED BY <2>1 DEF Rising, m
<1>5. Within(r, k, Len(z))
  <2>1. ASSUME NEW i \in 1..m PROVE r[i] = Newline \/ (k < r[i] /\ r[i] <= Len(z))
    <3>1. d + i \in 1..Len(s) /\ d + i \in d + 1..Len(s) /\ s[d + i] = r[i]
      BY <1>1, <1>3
    <3>2. s[d + i] = Newline \/ s[d + i] <= Len(z)
      BY <1>2, <3>1 DEF Within
    <3>3. s[d + i] = Newline \/ k < s[d + i]
      BY <3>1 DEF SplitAt
    <3> QED BY <3>1, <3>2, <3>3
  <2> QED BY <2>1 DEF Within, m
<1>6. ASSUME NEW q \in k + 1..Len(z) PROVE \E a, e \in Nat : e = a + z[q] + 1 /\ Block(r, q, a, e)
  <2>1. q \in lo + 1..Len(z) /\ q \in 1..Len(z) /\ q \in Nat /\ q > k
    BY <1>1
  <2>2. PICK a \in Nat, e \in Nat : e = a + z[q] + 1 /\ Block(s, q, a, e)
    BY <1>2, <2>1 DEF There
  <2>3. e \in 1..Len(s) /\ s[e] = Newline /\ \A i \in 1..Len(s) : s[i] = q <=> a < i /\ i < e
    BY <2>2 DEF Block
  <2>4. PICK w \in Nat : w = z[q] /\ w > 0 /\ e = a + w + 1
    BY <2>1, <2>2 DEF AllPositive
  <2>5. a + 1 < e /\ a + 1 \in 1..Len(s)
    <3>1. w > 0 /\ e = a + w + 1 /\ a \in Nat /\ w \in Nat
      BY <2>4
    <3>2. e \in 1..Len(s) /\ Len(s) \in Nat
      BY <1>1, <2>3
    <3> QED BY <3>1, <3>2
  <2>6. s[a + 1] = q
    BY <2>3, <2>5
  <2>7. a >= d
    <3>1. SUFFICES ASSUME a + 1 \in 1..d PROVE FALSE
      BY <1>1
    <3>2. s[a + 1] = Newline \/ s[a + 1] <= k
      BY <3>1 DEF SplitAt
    <3> QED BY <2>1, <2>6, <3>2 DEF Newline
  <2> DEFINE b == a - d
             f == e - d
  <2>8. b \in Nat /\ f \in Nat /\ f \in 1..m /\ d + f = e
    BY <1>1, <2>3, <2>5, <2>7
  <2>9. r[f] = Newline
    BY <1>1, <2>3, <2>8
  <2>10. ASSUME NEW i \in 1..m PROVE r[i] = q <=> b < i /\ i < f
    <3>1. d + i \in 1..Len(s) /\ s[d + i] = r[i]
      BY <1>1, <1>3
    <3>2. s[d + i] = q <=> a < d + i /\ d + i < e
      BY <2>3, <3>1
    <3>3. (a < d + i <=> b < i) /\ (d + i < e <=> i < f)
      BY <1>1, <2>8
    <3> QED BY <3>1, <3>2, <3>3
  <2>11. f = b + w + 1
    <3>1. e = a + w + 1 /\ a \in Nat /\ w \in Nat /\ e \in Nat
      BY <2>4
    <3> QED BY <3>1
  <2> HIDE DEF b, f
  <2>12. Block(r, q, b, f)
    BY <2>8, <2>9, <2>10 DEF Block, m
  <2> QED BY <2>4, <2>8, <2>11, <2>12
<1>7. There(r, k, z)
  BY <1>6 DEF There
<1> QED BY <1>4, <1>5, <1>7 DEF Laid

\* What comes first is the next request.
LEMMA FirstBlock ==
    ASSUME NEW z \in Seq(Nat), NEW s \in Seq(Nat), NEW lo \in Nat, AllPositive(z), Laid(s, lo, z),
           s # <<>>, s[1] # Newline
    PROVE  lo + 1 \in 1..Len(z) /\ s[1] = lo + 1 /\ Block(s, lo + 1, 0, z[lo + 1] + 1)
<1> DEFINE k == lo + 1
<1>1. Rising(s) /\ Within(s, lo, Len(z)) /\ There(s, lo, z)
  BY DEF Laid
<1>2. Len(s) \in Nat /\ Len(z) \in Nat /\ 1 \in 1..Len(s) /\ s[1] \in Nat
  BY LenProperties, EmptySeq
<1>3. lo < s[1] /\ s[1] <= Len(z)
  BY <1>1, <1>2 DEF Within
<1>4. k \in 1..Len(z) /\ k \in lo + 1..Len(z) /\ k \in Nat
  BY <1>2, <1>3
<1>5. PICK a \in Nat, e \in Nat : e = a + z[k] + 1 /\ Block(s, k, a, e)
  BY <1>1, <1>4 DEF There
<1>6. e \in 1..Len(s) /\ \A i \in 1..Len(s) : s[i] = k <=> a < i /\ i < e
  BY <1>5 DEF Block
<1>7. PICK w \in Nat : w = z[k] /\ w > 0 /\ e = a + w + 1
  BY <1>4, <1>5 DEF AllPositive
<1>8. a + 1 \in 1..Len(s) /\ s[a + 1] = k
  <2>1. a + 1 < e /\ a + 1 \in 1..Len(s)
    <3>1. w > 0 /\ e = a + w + 1 /\ a \in Nat /\ w \in Nat
      BY <1>7
    <3>2. e \in 1..Len(s) /\ Len(s) \in Nat
      BY <1>2, <1>6
    <3> QED BY <3>1, <3>2
  <2> QED BY <1>6, <2>1
<1>9. s[1] = k
  <2>1. CASE a = 0
    BY <1>8, <2>1
  <2>2. CASE a # 0
    <3>1. 1 < a + 1 /\ s[a + 1] # Newline
      BY <1>4, <1>8, <2>2 DEF Newline
    <3>2. s[1] <= s[a + 1]
      BY <1>1, <1>2, <1>8, <3>1 DEF Rising
    <3> QED BY <1>2, <1>3, <1>8, <3>2
  <2> QED BY <2>1, <2>2
<1>10. a = 0
  <2>1. a < 1
    BY <1>2, <1>6, <1>9
  <2> QED BY <2>1
<1>11. e = z[k] + 1
  BY <1>7, <1>10
<1> QED BY <1>4, <1>5, <1>9, <1>10, <1>11

\* None among the first d places of s.
NoNewline(s, d) == \A i \in 1..d : s[i] # Newline

\* The line that is d places long, its end included.
LEMMA FirstLine ==
    ASSUME NEW z \in Seq(Nat), NEW s \in Seq(Nat), NEW r \in Seq(Nat), NEW lo \in Nat,
           NEW d \in Nat \ {0, 1}, AllPositive(z), Laid(s, lo, z), After(s, d, r),
           NoNewline(s, d - 1), s[d] = Newline
    PROVE  /\ lo + 1 \in 1..Len(z) /\ z[lo + 1] = d - 1
           /\ \A i \in 1..d - 1 : s[i] = lo + 1
           /\ Laid(r, lo + 1, z)
<1> DEFINE k == lo + 1
           e == z[k] + 1
<1>0. Len(r) \in Nat /\ Len(s) = d + Len(r) /\ Len(s) \in Nat /\ d \in Nat /\ d >= 2 /\ k \in Nat
  BY LenProperties DEF After
<1>1. s # <<>> /\ s[1] # Newline /\ 1 \in 1..Len(s) /\ d \in 1..Len(s)
  <2>1. 1 \in 1..d - 1
    BY <1>0
  <2>2. s[1] # Newline
    BY <2>1 DEF NoNewline
  <2> QED BY <1>0, <2>2, EmptySeq
<1>2. k \in 1..Len(z) /\ s[1] = k /\ Block(s, k, 0, e)
  BY <1>1, FirstBlock
<1>3. e \in 1..Len(s) /\ s[e] = Newline /\ \A i \in 1..Len(s) : s[i] = k <=> 0 < i /\ i < e
  BY <1>2 DEF Block
<1>4. z[k] \in Nat
  BY <1>2, ElementOfSeq
<1> HIDE DEF e
<1>5. e = d
  <2>1. e >= d
    <3> SUFFICES ASSUME e < d PROVE FALSE
      BY <1>0, <1>3
    <3>1. e \in 1..d - 1
      BY <1>0, <1>3
    <3> QED BY <1>3, <3>1 DEF NoNewline
  <2>2. ~(d < e)
    <3>1. s[d] # k
      BY <1>0 DEF Newline
    <3> QED BY <1>0, <1>1, <1>3, <3>1
  <2>3. e \in Nat
    BY <1>0, <1>3
  <2> QED BY <1>0, <2>1, <2>2, <2>3
<1>6. z[k] = d - 1
  <2>1. PICK w \in Nat : w = z[k] /\ e = w + 1
    BY <1>4 DEF e
  <2> QED BY <1>0, <1>5, <2>1
<1>7. ASSUME NEW i \in 1..d - 1 PROVE s[i] = k
  <2>1. i \in 1..Len(s) /\ 0 < i /\ i < e
    BY <1>0, <1>5
  <2> QED BY <1>3, <2>1
<1>8. SplitAt(s, d, k)
  <2>1. ASSUME NEW i \in 1..d PROVE s[i] = Newline \/ s[i] <= k
    <3>1. i = d \/ i \in 1..d - 1
      BY <1>0
    <3> QED BY <1>0, <1>7, <3>1
  <2>2. ASSUME NEW i \in d + 1..Len(s), s[i] # Newline PROVE k < s[i]
    <3>1. i \in 1..Len(s) /\ 1 < i /\ ~(i < e)
      BY <1>0, <1>5
    <3>2. s[i] # k /\ s[i] \in Nat
      <4>1. s[i] # k
        BY <1>3, <3>1
      <4> QED BY <3>1, <4>1, ElementOfSeq
    <3>3. s[1] <= s[i]
      BY <1>1, <2>2, <3>1 DEF Laid, Rising
    <3> QED BY <1>0, <1>2, <3>2, <3>3
  <2> QED BY <2>1, <2>2 DEF SplitAt
<1>9. Laid(r, k, z)
  BY <1>0, <1>8, LaidDropped
<1> QED BY <1>2, <1>6, <1>7, <1>9

\* The d bytes of a line that has not ended.
LEMMA FirstPiece ==
    ASSUME NEW z \in Seq(Nat), NEW s \in Seq(Nat), NEW lo \in Nat, NEW d \in Nat \ {0},
           AllPositive(z), Laid(s, lo, z), d <= Len(s), NoNewline(s, d)
    PROVE  /\ lo + 1 \in 1..Len(z) /\ d <= z[lo + 1]
           /\ \A i \in 1..d : s[i] = lo + 1
<1> DEFINE k == lo + 1
           e == z[k] + 1
<1>0. Len(s) \in Nat /\ d \in Nat /\ d >= 1 /\ k \in Nat
  BY LenProperties
<1>1. s # <<>> /\ s[1] # Newline
  <2>1. 1 \in 1..d
    BY <1>0
  <2>2. s[1] # Newline
    BY <2>1 DEF NoNewline
  <2> QED BY <1>0, <2>2, EmptySeq
<1>2. k \in 1..Len(z) /\ s[1] = k /\ Block(s, k, 0, e)
  BY <1>1, FirstBlock
<1>3. e \in 1..Len(s) /\ s[e] = Newline /\ \A i \in 1..Len(s) : s[i] = k <=> 0 < i /\ i < e
  BY <1>2 DEF Block
<1>4. z[k] \in Nat
  BY <1>2
<1> HIDE DEF e
<1>5. e \in Nat /\ d < e
  <2>1. e \in Nat /\ e >= 1
    BY <1>0, <1>3
  <2>2. ~(e \in 1..d)
    BY <1>3 DEF NoNewline
  <2> QED BY <1>0, <2>1, <2>2
<1>6. d <= z[k]
  <2>1. PICK w \in Nat : w = z[k] /\ e = w + 1
    BY <1>4 DEF e
  <2> QED BY <1>0, <1>5, <2>1
<1>7. ASSUME NEW i \in 1..d PROVE s[i] = k
  <2>1. i \in 1..Len(s) /\ 0 < i /\ i < e
    BY <1>0, <1>5
  <2> QED BY <1>3, <2>1
<1> QED BY <1>2, <1>6, <1>7

\* A line with nothing in it.
LEMMA FirstBlank ==
    ASSUME NEW z \in Seq(Nat), NEW s \in Seq(Nat), NEW r \in Seq(Nat), NEW lo \in Nat,
           AllPositive(z), Laid(s, lo, z), After(s, 1, r), s[1] = Newline
    PROVE  Laid(r, lo, z)
<1>1. Within(s, lo, Len(z)) /\ Len(s) \in Nat /\ Len(r) \in Nat /\ Len(s) = 1 + Len(r)
  BY LenProperties DEF Laid, After
<1>2. SplitAt(s, 1, lo)
  <2>1. \A i \in 1..1 : s[i] = Newline
    OBVIOUS
  <2>2. \A i \in 1 + 1..Len(s) : s[i] = Newline \/ lo < s[i]
    BY <1>1 DEF Within
  <2> QED BY <2>1, <2>2 DEF SplitAt
<1> QED BY <1>2, LaidDropped

-----------------------------------------------------------------------------
(* Requests are carried out, and answered, in the order they were made.    *)

\* What the handler has still to read, the line it is reading included.
Stream == (IF hpc = "read" THEN buf ELSE <<>>) \o Rest

\* Requests whose lines have been read to the end.
Taken == Len(executed) + One(hpc = "dispatch")

\* The handler reads on, or will.
Live == hpc \in {"read", "next"} \/ (hpc \in {"dispatch", "write"} /\ client # "closed")

StreamInv ==
    /\ AllPositive(sizes)
    /\ hpc = "read" => Len(buf) <= MAX_REQUEST_BYTES /\ \A i \in 1..Len(buf) : buf[i] # Newline
    /\ Live => Laid(Stream, Taken, sizes)

DoneInv ==
    /\ Len(executed) <= Calls
    /\ \A i \in 1..Len(executed) : executed[i] = i /\ sizes[i] <= MAX_REQUEST_BYTES

Due(i) == IF Fits(i) THEN [to |-> i] ELSE Oversized

ToldInv ==
    /\ Len(Told) <= Calls
    /\ \A i \in 1..Len(Told) : Told[i] = Due(i) /\ (Fits(i) <=> i <= Len(executed))

\* What the handler is about to do.
AboutToRun ==
    LET k == Len(executed) + 1
    IN  \/ k <= Calls /\ outcome = [to |-> k] /\ sizes[k] <= MAX_REQUEST_BYTES
           /\ (client # "closed" => Fits(k))
        \/ client = "closed" /\ outcome = BadRequest

StageInv ==
    /\ hpc \in {"read", "next", "dispatch", "refuse"} => Len(Told) = Len(executed)
    /\ hpc = "dispatch" => AboutToRun
    /\ hpc = "write" /\ client # "closed" =>
           /\ Len(Told) + 1 = Len(executed)
           /\ outcome = [to |-> Len(executed)] /\ Fits(Len(executed))
    /\ hpc = "refuse" =>
           /\ outcome = Oversized
           /\ Len(executed) + 1 <= Calls /\ ~Fits(Len(executed) + 1)

OrderInv == StreamInv /\ DoneInv /\ ToldInv /\ StageInv

\* The line is n bytes of request k, and a newline or none.
Text(line, k, n) ==
    {i \in 1..Len(line) : line[i] # Newline} = 1..n /\ \A i \in 1..n : line[i] = k

\* What serde makes of it.
LEMMA ParseIs ==
    ASSUME TypeInv, NEW line \in Seq(Nat), NEW k \in 1..Calls, NEW n \in Nat \ {0},
           Text(line, k, n)
    PROVE  Parse(line) = IF sizes[k] = n THEN k ELSE 0
<1>1. n \in Nat /\ 1 \in 1..n /\ 1 \in Int /\ n \in Int
  OBVIOUS
<1>2. Cardinality(1..n) = n
  <2>1. Cardinality(1..n) = IF 1 > n THEN 0 ELSE n - 1 + 1
    BY <1>1, FS_Interval
  <2> QED BY <1>1, <2>1
<1>3. line[1] = k /\ \A i \in 1..n : line[i] = k
  BY <1>1 DEF Text
<1>4. (\E j \in 1..Calls : n = sizes[j] /\ \A i \in 1..n : line[i] = j) <=> sizes[k] = n
  BY <1>1, <1>3
<1> QED BY <1>2, <1>3, <1>4 DEF Parse, Text

LEMMA OrderTypes ==
    TypeInv => /\ Rest \in Seq(Nat) /\ Stream \in Seq(Nat)
               /\ Calls \in Nat /\ Len(executed) \in Nat /\ Len(buf) \in Nat
               /\ answers \in Seq(Replies) /\ down \in Seq(Replies)
               /\ Told \in Seq(Replies) /\ Len(Told) \in Nat /\ Taken \in Nat
               /\ sizes \in Seq(Nat) /\ Len(sizes) = Calls
<1> SUFFICES ASSUME TypeInv PROVE OrderTypes!2
  OBVIOUS
<1>1. Rest \in Seq(Nat)
  BY Lengths
<1>2. (IF hpc = "read" THEN buf ELSE <<>>) \in Seq(Nat)
  BY EmptySeq DEF TypeInv
<1>3. Stream \in Seq(Nat)
  BY <1>1, <1>2, ConcatProperties DEF Stream
<1>4. answers \in Seq(Replies) /\ down \in Seq(Replies) /\ Told \in Seq(Replies)
  BY ConcatProperties DEF Told, TypeInv
<1>5. Len(executed) \in Nat /\ Len(buf) \in Nat /\ Len(Told) \in Nat /\ Calls \in Nat
  BY <1>4, LenProperties DEF TypeInv, Calls
<1>6. Taken \in Nat
  BY <1>5 DEF Taken, One
<1> QED BY <1>1, <1>3, <1>4, <1>5, <1>6 DEF TypeInv, Calls

\* The line a handler has read, newline or not, and what is then still to be read.
LEMMA LineRead ==
    ASSUME TypeInv, StreamInv, hpc = "read", NEW line \in Seq(Nat), NEW r \in Seq(Nat),
           Stream = line \o r, line # <<>>, \A i \in 1..Len(line) - 1 : line[i] # Newline,
           NEW k, k = Len(executed) + 1
    PROVE  /\ Blank(line) => Len(line) = 1 /\ Laid(r, Len(executed), sizes)
           /\ line[Len(line)] = Newline /\ ~Blank(line) =>
                  /\ k <= Calls /\ Len(line) = sizes[k] + 1 /\ Parse(line) = k
                  /\ Laid(r, k, sizes)
           /\ line[Len(line)] # Newline =>
                  /\ k <= Calls /\ Len(line) <= sizes[k] /\ ~Blank(line)
                  /\ Parse(line) = IF Len(line) = sizes[k] THEN k ELSE 0
<1> DEFINE d == Len(line)
           lo == Len(executed)
           s == line \o r
<1>1. d \in Nat /\ d >= 1 /\ lo \in Nat /\ k \in Nat /\ d \in 1..d /\ Calls \in Nat /\ d \in Nat \ {0}
  BY LenProperties, EmptySeq, OrderTypes
<1>2. /\ s \in Seq(Nat) /\ Len(s) = d + Len(r) /\ Len(r) \in Nat
      /\ \A i \in 1..d : s[i] = line[i]
      /\ \A i \in 1..Len(r) : s[d + i] = r[i]
  BY InBoth
<1>3. AllPositive(sizes) /\ Laid(s, lo, sizes) /\ sizes \in Seq(Nat) /\ Len(sizes) = Calls
  <2>1. Taken = lo
    BY <1>1 DEF Taken, One
  <2> QED BY <2>1, OrderTypes DEF StreamInv, Live
<1> HIDE DEF s, lo, d
<1>4. After(s, d, r)
  BY <1>2 DEF After
<1>n. \A i \in 1..d - 1 : line[i] # Newline /\ s[i] = line[i] /\ s[i] # Newline
  <2> SUFFICES ASSUME NEW i \in 1..d - 1 PROVE line[i] # Newline /\ s[i] = line[i]
    OBVIOUS
  <2>1. i \in 1..d
    BY <1>1
  <2>2. line[i] # Newline
    BY DEF d
  <2> QED BY <1>2, <2>1, <2>2
<1>5. ASSUME Blank(line) PROVE d = 1 /\ Laid(r, lo, sizes)
  <2>1. d = 1
    <3>1. \A i \in 1..d : line[i] = Newline
      BY <1>5 DEF Blank, d
    <3>2. ~(1 \in 1..d - 1)
      <4> SUFFICES ASSUME 1 \in 1..d - 1 PROVE FALSE
        OBVIOUS
      <4>1. 1 \in 1..d
        BY <1>1
      <4>2. line[1] = Newline
        BY <3>1, <4>1
      <4> QED BY <1>n, <4>2
    <3> QED BY <1>1, <3>2
  <2>2. s[1] = Newline
    BY <1>1, <1>2, <1>5, <2>1 DEF Blank, d
  <2> QED BY <1>1, <1>2, <1>3, <1>4, <2>1, <2>2, FirstBlank
<1>6. ASSUME line[d] = Newline, ~Blank(line)
      PROVE  k <= Calls /\ d = sizes[k] + 1 /\ Parse(line) = k /\ Laid(r, k, sizes)
  <2>1. d # 1
    <3>1. ASSUME d = 1 PROVE Blank(line)
      BY <1>6, <3>1 DEF Blank, d
    <3> QED BY <1>6, <3>1
  <2>2. d \in Nat \ {0, 1} /\ s[d] = Newline /\ NoNewline(s, d - 1)
    BY <1>1, <1>2, <1>6, <1>n, <2>1 DEF NoNewline
  <2>3. /\ lo + 1 \in 1..Len(sizes) /\ sizes[lo + 1] = d - 1
        /\ \A i \in 1..d - 1 : s[i] = lo + 1
        /\ Laid(r, lo + 1, sizes)
    BY <1>1, <1>2, <1>3, <1>4, <2>2, FirstLine
  <2>4. k = lo + 1
    BY DEF lo
  <2>5. k \in 1..Calls /\ sizes[k] = d - 1 /\ Laid(r, k, sizes) /\ \A i \in 1..d - 1 : s[i] = k
    BY <1>3, <2>3, <2>4
  <2>6. d = sizes[k] + 1 /\ d - 1 \in Nat \ {0}
    BY <1>1, <2>1, <2>5
  <2>7. Parse(line) = k
    <3>1. {i \in 1..Len(line) : line[i] # Newline} = 1..d - 1
      <4>1. ASSUME NEW i \in 1..d PROVE line[i] # Newline <=> i \in 1..d - 1
        <5>1. i = d \/ i \in 1..d - 1
          BY <1>1
        <5>2. ~(d \in 1..d - 1)
          BY <1>1
        <5> QED BY <1>6, <1>n, <5>1, <5>2
      <4>2. \A i \in 1..d - 1 : i \in 1..d
        BY <1>1
      <4> QED BY <4>1, <4>2 DEF d
    <3>2. \A i \in 1..d - 1 : line[i] = k
      BY <1>n, <2>5
    <3>3. k \in 1..Calls /\ d - 1 \in Nat \ {0} /\ sizes[k] = d - 1
      BY <2>5, <2>6
    <3>4. Parse(line) = IF sizes[k] = d - 1 THEN k ELSE 0
      <4>1. PICK n \in Nat \ {0} : n = d - 1
        BY <3>3
      <4>2. Text(line, k, n)
        BY <3>1, <3>2, <4>1 DEF Text
      <4>3. Parse(line) = IF sizes[k] = n THEN k ELSE 0
        BY <3>3, <4>2, ParseIs
      <4> QED BY <4>1, <4>3
    <3> QED BY <3>3, <3>4
  <2>8. k <= Calls
    BY <1>1, <2>5
  <2> QED BY <2>5, <2>6, <2>7, <2>8
<1>7. ASSUME line[d] # Newline
      PROVE  k <= Calls /\ d <= sizes[k] /\ ~Blank(line) /\ Parse(line) = IF d = sizes[k] THEN k ELSE 0
  <2>1. \A i \in 1..d : line[i] # Newline /\ s[i] # Newline /\ s[i] = line[i]
    <3> SUFFICES ASSUME NEW i \in 1..d PROVE line[i] # Newline
      BY <1>2
    <3>1. i = d \/ i \in 1..d - 1
      BY <1>1
    <3> QED BY <1>7, <1>n, <3>1
  <2>2. lo + 1 \in 1..Len(sizes) /\ d <= sizes[lo + 1] /\ \A i \in 1..d : s[i] = lo + 1
    <3>1. d <= Len(s)
      BY <1>1, <1>2
    <3>2. \A i \in 1..d : s[i] # Newline
      BY <2>1
    <3>3. /\ sizes \in Seq(Nat) /\ s \in Seq(Nat) /\ lo \in Nat /\ d \in Nat \ {0}
          /\ AllPositive(sizes) /\ Laid(s, lo, sizes)
      BY <1>1, <1>2, <1>3
    <3>4. NoNewline(s, d)
      BY <3>2 DEF NoNewline
    <3> QED BY <3>1, <3>3, <3>4, FirstPiece
  <2>3. k = lo + 1
    BY DEF lo
  <2>4. k \in 1..Calls /\ d <= sizes[k] /\ \A i \in 1..d : line[i] = k
    BY <1>3, <2>1, <2>2, <2>3
  <2>5. ~Blank(line)
    BY <1>1, <2>1 DEF Blank, d
  <2>6. Text(line, k, d)
    BY <2>1, <2>4 DEF Text, d
  <2>7. Parse(line) = IF sizes[k] = d THEN k ELSE 0
    BY <1>1, <2>4, <2>6, ParseIs
  <2>8. k <= Calls
    BY <1>1, <2>4
  <2> QED BY <2>4, <2>5, <2>7, <2>8
<1> QED BY <1>5, <1>6, <1>7 DEF d, lo

\* Steps that carry nothing out, answer nothing and read nothing.
LEMMA OrderStays ==
    ASSUME OrderInv, UNCHANGED <<sizes, executed, hpc, buf, outcome>>, Rest' = Rest, Told' = Told,
           client # "closed" \/ client' = "closed"
    PROVE  OrderInv'
<1>1. StreamInv'
  <2>1. Stream' = Stream /\ Taken' = Taken /\ (Live' => Live)
    BY DEF Stream, Taken, One, Live
  <2> QED BY <2>1 DEF OrderInv, StreamInv, AllPositive
<1>2. DoneInv' /\ ToldInv'
  BY DEF OrderInv, DoneInv, ToldInv, Due, Fits, Calls
<1>3. StageInv'
  BY DEF OrderInv, StageInv, AboutToRun, Fits, Calls
<1> QED BY <1>1, <1>2, <1>3 DEF OrderInv

LEMMA OrderRequest ==
    ASSUME TypeInv, OrderInv, NEW n \in Sizes, Request(n)
    PROVE  OrderInv'
<1>1. /\ client = "open" /\ client' = client /\ unsent = <<>> /\ unsent' = Line(Calls + 1, n)
      /\ sizes' = Append(sizes, n)
      /\ UNCHANGED <<answers, down, executed, hpc, buf, outcome, up>>
  BY DEF Request, Free, sockets, handler
<1>2. n \in Nat \ {0} /\ n \in Nat /\ Calls \in Nat /\ sizes \in Seq(Nat) /\ Len(sizes) = Calls
      /\ Len(executed) \in Nat /\ Len(Told) \in Nat
  BY Constants, OrderTypes
<1>3. /\ sizes' \in Seq(Nat) /\ Calls' = Calls + 1 /\ sizes'[Calls + 1] = n
      /\ \A i \in 1..Calls : sizes'[i] = sizes[i]
  BY <1>1, <1>2, AppendProperties DEF Calls
<1>4. \A i \in 1..Calls : Fits(i)' <=> Fits(i)
  BY <1>3 DEF Fits
<1>5. Told' = Told
  BY <1>1 DEF Told
<1>6. DoneInv'
  <2>1. Len(executed) <= Calls
    BY DEF OrderInv, DoneInv
  <2>2. \A i \in 1..Len(executed) : i \in 1..Calls
    BY <1>2, <2>1
  <2>3. \A i \in 1..Len(executed) : executed[i] = i /\ sizes'[i] <= MAX_REQUEST_BYTES
    BY <1>3, <2>2 DEF OrderInv, DoneInv
  <2>4. Len(executed) <= Calls'
    BY <1>2, <1>3, <2>1
  <2> QED BY <1>1, <2>3, <2>4 DEF DoneInv
<1>7. ToldInv'
  <2>1. Len(Told) <= Calls /\ \A i \in 1..Len(Told) : Told[i] = Due(i) /\ (Fits(i) <=> i <= Len(executed))
    BY DEF OrderInv, ToldInv
  <2>2. \A i \in 1..Len(Told) : i \in 1..Calls
    BY <1>2, <2>1
  <2>3. \A i \in 1..Len(Told) : Told[i] = Due(i)' /\ (Fits(i)' <=> i <= Len(executed))
    BY <1>4, <2>1, <2>2 DEF Due
  <2>4. Len(Told) <= Calls'
    BY <1>2, <1>3, <2>1
  <2> QED BY <1>1, <1>5, <2>3, <2>4 DEF ToldInv
<1>8. StageInv'
  <2>1. PICK E \in Nat : E = Len(executed) /\ E = Len(executed')
    BY <1>1, <1>2
  <2>2. ASSUME hpc = "dispatch" PROVE AboutToRun'
    <3>1. E + 1 <= Calls /\ outcome = [to |-> E + 1] /\ sizes[E + 1] <= MAX_REQUEST_BYTES /\ Fits(E + 1)
      BY <2>1, <1>1, <2>2 DEF OrderInv, StageInv, AboutToRun
    <3>2. E + 1 \in 1..Calls
      BY <1>2, <2>1, <3>1
    <3>3. E + 1 <= Calls' /\ sizes'[E + 1] <= MAX_REQUEST_BYTES /\ Fits(E + 1)'
      BY <1>2, <1>3, <1>4, <3>1, <3>2
    <3> QED BY <1>1, <2>1, <3>1, <3>3 DEF AboutToRun
  <2>3. ASSUME hpc = "write"
        PROVE  Len(Told) + 1 = E /\ outcome = [to |-> E] /\ Fits(E)'
    <3>1. Len(Told) + 1 = E /\ outcome = [to |-> E] /\ Fits(E) /\ E <= Calls
      BY <2>1, <1>1, <2>3 DEF OrderInv, StageInv, DoneInv
    <3>2. E \in 1..Calls
      BY <1>2, <3>1
    <3> QED BY <1>4, <3>1, <3>2
  <2>4. ASSUME hpc = "refuse"
        PROVE  outcome = Oversized /\ E + 1 <= Calls' /\ ~Fits(E + 1)'
    <3>1. outcome = Oversized /\ E + 1 <= Calls /\ ~Fits(E + 1)
      BY <2>1, <2>4 DEF OrderInv, StageInv
    <3>2. E + 1 \in 1..Calls /\ E + 1 <= Calls'
      BY <1>2, <1>3, <3>1
    <3> QED BY <1>4, <3>1, <3>2
  <2>5. hpc \in {"read", "next", "dispatch", "refuse"} => Len(Told) = E
    BY <2>1 DEF OrderInv, StageInv
  <2> QED BY <1>1, <1>5, <2>1, <2>2, <2>3, <2>4, <2>5 DEF StageInv
<1>9. StreamInv'
  <2>1. AllPositive(sizes')
    <3>1. ASSUME NEW i \in 1..Calls + 1 PROVE sizes'[i] > 0
      <4>1. CASE i \in 1..Calls
        BY <1>2, <1>3, <4>1 DEF OrderInv, StreamInv, AllPositive
      <4>2. CASE i = Calls + 1
        BY <1>2, <1>3, <4>2
      <4> QED BY <1>2, <4>1, <4>2
    <3> QED BY <1>3, <3>1 DEF AllPositive, Calls
  <2>2. ASSUME Live PROVE Laid(Stream', Taken', sizes')
    <3> DEFINE l == Line(Calls + 1, n)
               begun == IF hpc = "read" THEN buf ELSE <<>>
    <3>1. l \in Seq(Nat) /\ begun \in Seq(Nat) /\ up \in Seq(Nat)
      BY <1>2, LineIsASeq, EmptySeq DEF TypeInv
    <3> HIDE DEF l
    <3>2. Rest = up /\ Rest' = up \o l
      BY <1>1, <3>1, ConcatEmptySeq DEF Rest, l
    <3>3. Stream = begun \o up /\ Stream' = begun \o (up \o l)
      BY <1>1, <3>2 DEF Stream
    <3> HIDE DEF begun
    <3>4. Stream' = Stream \o l
      <4>1. (begun \o up) \o l = begun \o (up \o l)
        BY <3>1, ConcatAssociative
      <4> QED BY <3>3, <4>1
    <3>5. Taken' = Taken /\ Taken \in Nat /\ Taken <= Len(sizes)
      <4>1. hpc = "dispatch" => Len(executed) + 1 <= Calls
        BY <1>1 DEF OrderInv, StageInv, AboutToRun
      <4>2. Len(executed) <= Calls
        BY DEF OrderInv, DoneInv
      <4> QED BY <1>1, <1>2, <4>1, <4>2 DEF Taken, One
    <3>6. Laid(Stream, Taken, sizes) /\ Stream \in Seq(Nat)
      BY <2>2, OrderTypes DEF OrderInv, StreamInv
    <3>7. Laid(Stream \o l, Taken, Append(sizes, n))
      BY <1>2, <3>5, <3>6, LaidWithLine DEF l
    <3> QED BY <1>1, <3>4, <3>5, <3>7
  <2>3. Live' <=> Live
    BY <1>1 DEF Live
  <2> QED BY <1>1, <2>1, <2>2, <2>3 DEF OrderInv, StreamInv
<1> QED BY <1>6, <1>7, <1>8, <1>9 DEF OrderInv

LEMMA OrderBlankLine ==
    ASSUME TypeInv, OrderInv, BlankLine
    PROVE  OrderInv'
<1>1. /\ client = "open" /\ client' = client /\ unsent = <<>> /\ unsent' = <<Newline>>
      /\ UNCHANGED <<sizes, answers, down, executed, hpc, buf, outcome, up>>
  BY DEF BlankLine, Free, sockets, handler
<1>2. Told' = Told
  BY <1>1 DEF Told
<1>3. DoneInv' /\ ToldInv'
  BY <1>1, <1>2 DEF OrderInv, DoneInv, ToldInv, Due, Fits, Calls
<1>4. StageInv'
  BY <1>1, <1>2 DEF OrderInv, StageInv, AboutToRun, Fits, Calls
<1>5. ASSUME Live PROVE Laid(Stream', Taken', sizes')
  <2> DEFINE begun == IF hpc = "read" THEN buf ELSE <<>>
             l == <<Newline>>
  <2>1. l \in Seq(Nat) /\ begun \in Seq(Nat) /\ up \in Seq(Nat)
    BY EmptySeq DEF TypeInv, Newline
  <2> HIDE DEF l
  <2>2. Rest = up /\ Rest' = up \o l
    BY <1>1, <2>1, ConcatEmptySeq DEF Rest, l
  <2>3. Stream = begun \o up /\ Stream' = begun \o (up \o l)
    BY <1>1, <2>2 DEF Stream
  <2> HIDE DEF begun
  <2>4. Stream' = Stream \o l
    <3>1. (begun \o up) \o l = begun \o (up \o l)
      BY <2>1, ConcatAssociative
    <3> QED BY <2>3, <3>1
  <2>5. Taken' = Taken /\ Taken \in Nat /\ Taken <= Len(sizes)
    <3>1. hpc = "dispatch" => Len(executed) + 1 <= Calls
      BY <1>1 DEF OrderInv, StageInv, AboutToRun
    <3>2. Len(executed) <= Calls
      BY DEF OrderInv, DoneInv
    <3> QED BY <1>1, <3>1, <3>2, OrderTypes DEF Taken, One
  <2>6. Laid(Stream, Taken, sizes) /\ Stream \in Seq(Nat) /\ sizes \in Seq(Nat)
    BY <1>5, OrderTypes DEF OrderInv, StreamInv
  <2>7. Laid(Stream \o l, Taken, sizes)
    BY <2>5, <2>6, LaidWithBlank DEF l
  <2> QED BY <1>1, <2>4, <2>5, <2>7
<1>6. StreamInv'
  <2>1. Live' <=> Live
    BY <1>1 DEF Live
  <2> QED BY <1>1, <1>5, <2>1 DEF OrderInv, StreamInv, AllPositive
<1> QED BY <1>3, <1>4, <1>6 DEF OrderInv

\* What follows a line, or a piece of one, that is handed over.
LEMMA OrderConsidered ==
    ASSUME TypeInv, OrderInv, hpc = "read", NEW line \in Seq(Nat), NEW r \in Seq(Nat),
           Stream = line \o r, line # <<>>, \A i \in 1..Len(line) - 1 : line[i] # Newline,
           Consider(line), UNCHANGED <<sizes, answers, client, down, executed>>, Rest' = r,
           \/ line[Len(line)] = Newline /\ Len(line) <= MAX_REQUEST_BYTES + 1
           \/ Len(line) = MAX_REQUEST_BYTES + 1
           \/ client = "closed" /\ Len(line) <= MAX_REQUEST_BYTES
    PROVE  OrderInv'
<1> DEFINE k == Len(executed) + 1
           d == Len(line)
<1>0. d \in Nat /\ d >= 1 /\ Len(executed) \in Nat /\ k \in Nat /\ Calls \in Nat /\ sizes \in Seq(Nat)
      /\ Len(sizes) = Calls /\ MAX_REQUEST_BYTES \in Nat /\ MAX_REQUEST_BYTES >= 1
  BY LenProperties, EmptySeq, OrderTypes, Constants
<1>1. Told' = Told
  BY DEF Told
<1>2. DoneInv' /\ ToldInv' /\ AllPositive(sizes')
  BY <1>1 DEF OrderInv, DoneInv, ToldInv, Due, Fits, Calls, StreamInv
<1>3. /\ Blank(line) => d = 1 /\ Laid(r, Len(executed), sizes)
      /\ line[d] = Newline /\ ~Blank(line) =>
             k <= Calls /\ d = sizes[k] + 1 /\ Parse(line) = k /\ Laid(r, k, sizes)
      /\ line[d] # Newline =>
             k <= Calls /\ d <= sizes[k] /\ ~Blank(line) /\ Parse(line) = IF d = sizes[k] THEN k ELSE 0
  BY LineRead DEF OrderInv
<1>4. Len(Told) = Len(executed)
  BY DEF OrderInv, StageInv
<1>k. k <= Calls => sizes[k] \in Nat
  <2> SUFFICES ASSUME k <= Calls PROVE sizes[k] \in Nat
    OBVIOUS
  <2>1. k \in 1..Calls
    BY <1>0
  <2>2. \A i \in 1..Calls : sizes[i] \in Nat
    BY <1>0, ElementOfSeq
  <2> QED BY <2>1, <2>2
<1>d. d <= MAX_REQUEST_BYTES + 1
  BY <1>0
<1>b. Blank(line) => d = 1
  BY <1>3
<1> HIDE DEF d
<1>5. CASE TooLong(line)
  <2>1. hpc' = "refuse" /\ outcome' = Oversized
    BY <1>5 DEF Consider, Goto
  <2>2. d > MAX_REQUEST_BYTES
    BY <1>5 DEF TooLong, d
  <2>3. ~Blank(line) /\ d = MAX_REQUEST_BYTES + 1
    <3>1. d \in Nat /\ MAX_REQUEST_BYTES \in Nat /\ MAX_REQUEST_BYTES >= 1
      BY <1>0
    <3> QED BY <1>b, <1>d, <2>2, <3>1
  <2>4. k <= Calls /\ sizes[k] + 1 > MAX_REQUEST_BYTES
    BY <1>0, <1>3, <1>k, <2>3
  <2>5. k <= Calls' /\ ~Fits(k)'
    BY <1>0, <1>k, <2>4 DEF Fits, Calls
  <2>6. StageInv'
    BY <1>1, <1>4, <2>1, <2>5 DEF StageInv
  <2>7. StreamInv'
    BY <1>2, <2>1 DEF StreamInv, Live
  <2> QED BY <1>2, <2>6, <2>7 DEF OrderInv
<1>6. CASE ~TooLong(line) /\ Blank(line)
  <2>1. hpc' = "next" /\ outcome' = outcome
    BY <1>6 DEF Consider, Goto
  <2>2. StageInv'
    BY <1>1, <1>4, <2>1 DEF StageInv
  <2>3. Laid(Stream', Taken', sizes')
    <3>1. Stream' = r
      BY <2>1, ConcatEmptySeq DEF Stream
    <3>2. Taken' = Len(executed)
      BY <1>0, <2>1 DEF Taken, One
    <3> QED BY <1>3, <1>6, <3>1, <3>2
  <2>4. StreamInv'
    BY <1>2, <2>1, <2>3 DEF StreamInv
  <2> QED BY <1>2, <2>2, <2>4 DEF OrderInv
<1>7. CASE ~TooLong(line) /\ ~Blank(line)
  <2>1. hpc' = "dispatch" /\ outcome' = [to |-> Parse(line)]
    BY <1>7 DEF Consider, Goto
  <2>2. d <= MAX_REQUEST_BYTES
    BY <1>0, <1>7 DEF TooLong, d
  <2>3. line[d] = Newline \/ client = "closed"
    BY <1>0, <2>2 DEF d
  <2>4. CASE line[d] = Newline
    <3>1. k <= Calls /\ d = sizes[k] + 1 /\ Parse(line) = k /\ Laid(r, k, sizes)
      BY <1>3, <1>7, <2>4
    <3>2. sizes[k] <= MAX_REQUEST_BYTES /\ Fits(k)
      BY <1>0, <1>k, <2>2, <3>1 DEF Fits
    <3>3. AboutToRun'
      BY <2>1, <3>1, <3>2 DEF AboutToRun, Fits, Calls
    <3>4. StageInv'
      BY <1>1, <1>4, <2>1, <3>3 DEF StageInv
    <3>5. Laid(Stream', Taken', sizes')
      <4>1. Stream' = r
        BY <2>1, ConcatEmptySeq DEF Stream
      <4>2. Taken' = k
        BY <1>0, <2>1 DEF Taken, One
      <4> QED BY <3>1, <4>1, <4>2
    <3>6. StreamInv'
      BY <1>2, <2>1, <3>5 DEF StreamInv
    <3> QED BY <1>2, <3>4, <3>6 DEF OrderInv
  <2>5. CASE line[d] # Newline
    <3>1. k <= Calls /\ Parse(line) = IF d = sizes[k] THEN k ELSE 0
      BY <1>3, <2>5
    <3>2. client = "closed"
      BY <2>3, <2>5
    <3>3. AboutToRun'
      <4>1. CASE d = sizes[k]
        BY <2>1, <2>2, <3>1, <3>2, <4>1 DEF AboutToRun, Fits, Calls
      <4>2. CASE d # sizes[k]
        BY <2>1, <3>1, <3>2, <4>2 DEF AboutToRun, BadRequest
      <4> QED BY <4>1, <4>2
    <3>4. StageInv'
      BY <1>1, <1>4, <2>1, <3>3 DEF StageInv
    <3>5. StreamInv'
      BY <1>2, <2>1, <3>2 DEF StreamInv, Live
    <3> QED BY <1>2, <3>4, <3>5 DEF OrderInv
  <2> QED BY <2>4, <2>5
<1> QED BY <1>5, <1>6, <1>7

LEMMA OrderReadByte ==
    ASSUME TypeInv, OrderInv, ReadByte
    PROVE  OrderInv'
<1> DEFINE line == Append(buf, Head(up))
           r == Tail(Rest)
<1>1. /\ hpc = "read" /\ UNCHANGED <<sizes, answers, client, down, executed, unsent>>
      /\ up # <<>> /\ up' = Tail(up)
      /\ Rest # <<>> /\ Rest' = r /\ Head(Rest) = Head(up)
  BY RestNext DEF ReadByte, Handles, peer
<1>2. /\ line \in Seq(Nat) /\ line # <<>> /\ Len(line) = Len(buf) + 1 /\ Len(buf) \in Nat
      /\ \A i \in 1..Len(buf) : line[i] = buf[i]
      /\ Rest \in Seq(Nat) /\ r \in Seq(Nat) /\ buf \in Seq(Nat)
  <2>1. Rest \in Seq(Nat) /\ buf \in Seq(Nat) /\ Head(up) \in Nat
    BY <1>1, Lengths, ReadsALine DEF TypeInv
  <2>2. r \in Seq(Nat)
    BY <1>1, <2>1, HeadTailProperties
  <2>3. \A i \in 1..Len(buf) : line[i] = buf[i]
    BY <2>1, AppendProperties
  <2> QED BY <1>1, <2>1, <2>2, <2>3, ReadsALine, LenProperties
<1>3. Stream = line \o r
  <2>1. Stream = buf \o Rest
    BY <1>1 DEF Stream
  <2>2. Append(buf, Head(Rest)) \o Tail(Rest) = buf \o Rest
    BY <1>1, <1>2, HandedOver
  <2> QED BY <1>1, <2>1, <2>2
<1>4. Len(buf) <= MAX_REQUEST_BYTES /\ MAX_REQUEST_BYTES \in Nat /\ \A i \in 1..Len(buf) : buf[i] # Newline
  BY <1>1, Constants DEF OrderInv, StreamInv
<1>5. \A i \in 1..Len(line) - 1 : line[i] # Newline
  <2>1. Len(line) - 1 = Len(buf)
    BY <1>2
  <2> QED BY <1>2, <1>4, <2>1
<1>6. IF Full(line) THEN Consider(line) ELSE buf' = line /\ UNCHANGED <<hpc, outcome>>
  BY DEF ReadByte
<1> HIDE DEF line, r
<1>7. CASE Full(line)
  <2>1. Consider(line)
    BY <1>6, <1>7
  <2>2. \/ line[Len(line)] = Newline /\ Len(line) <= MAX_REQUEST_BYTES + 1
        \/ Len(line) = MAX_REQUEST_BYTES + 1
    BY <1>2, <1>4, <1>7 DEF Full
  <2> QED BY <1>1, <1>2, <1>3, <1>5, <2>1, <2>2, OrderConsidered
<1>8. CASE ~Full(line)
  <2>1. buf' = line /\ UNCHANGED <<hpc, outcome>>
    BY <1>6, <1>8
  <2>2. Told' = Told
    BY <1>1 DEF Told
  <2>3. DoneInv' /\ ToldInv' /\ StageInv'
    BY <1>1, <2>1, <2>2 DEF OrderInv, DoneInv, ToldInv, StageInv, AboutToRun, Due, Fits, Calls
  <2>4. Len(line) <= MAX_REQUEST_BYTES /\ \A i \in 1..Len(line) : line[i] # Newline
    <3>1. Len(line) # MAX_REQUEST_BYTES + 1 /\ line[Len(line)] # Newline
      BY <1>8 DEF Full
    <3>2. Len(line) <= MAX_REQUEST_BYTES
      BY <1>2, <1>4, <3>1
    <3>3. ASSUME NEW i \in 1..Len(line) PROVE line[i] # Newline
      <4>1. i = Len(line) \/ i \in 1..Len(line) - 1
        BY <1>2
      <4> QED BY <1>5, <3>1, <4>1
    <3> QED BY <3>2, <3>3
  <2>5. Stream' = Stream /\ Taken' = Taken
    BY <1>1, <1>3, <2>1 DEF Stream, Taken
  <2>6. StreamInv'
    <3>1. Live
      BY <1>1 DEF Live
    <3> QED BY <1>1, <2>1, <2>4, <2>5, <3>1 DEF OrderInv, StreamInv
  <2> QED BY <2>3, <2>6 DEF OrderInv
<1> QED BY <1>7, <1>8

\* A handler with nothing more to read has read every request to its end.
LEMMA NothingLeft ==
    ASSUME TypeInv, OrderInv, hpc = "read", Rest = <<>>
    PROVE  buf = <<>> /\ Len(executed) = Calls
<1>1. /\ buf \in Seq(Nat) /\ Len(buf) \in Nat /\ Len(executed) \in Nat
      /\ Calls \in Nat /\ Len(sizes) = Calls
  BY OrderTypes DEF TypeInv
<1>2. Stream = buf
  BY <1>1, ConcatEmptySeq DEF Stream
<1>3. Taken = Len(executed)
  BY <1>1 DEF Taken, One
<1>4. Laid(buf, Len(executed), sizes) /\ Len(executed) <= Calls
  BY <1>2, <1>3 DEF OrderInv, StreamInv, DoneInv, Live
<1>5. \A i \in 1..Len(buf) : buf[i] # Newline
  BY DEF OrderInv, StreamInv
<1>6. Len(executed) = Calls
  <2> SUFFICES ASSUME Len(executed) < Calls PROVE FALSE
    BY <1>1, <1>4
  <2>1. Len(executed) + 1 \in Len(executed) + 1..Len(sizes)
    BY <1>1
  <2>2. \E a, e \in Nat : Block(buf, Len(executed) + 1, a, e)
    BY <1>4, <2>1 DEF Laid, There
  <2> QED BY <1>5, <2>2 DEF Block
<1>7. Len(buf) = 0
  <2> SUFFICES ASSUME Len(buf) # 0 PROVE FALSE
    OBVIOUS
  <2>1. 1 \in 1..Len(buf) /\ buf[1] # Newline
    BY <1>1, <1>5
  <2>2. Len(executed) < buf[1] /\ buf[1] <= Len(sizes) /\ buf[1] \in Nat
    BY <1>1, <1>4, <2>1, ElementOfSeq DEF Laid, Within
  <2> QED BY <1>1, <1>6, <2>2
<1> QED BY <1>1, <1>6, <1>7, EmptySeq

\* So has one that meets the end of what a client that is still there has to say.
LEMMA EndOfStream ==
    ASSUME TypeInv, OrderInv, ReadEnd, client # "closed"
    PROVE  buf = <<>> /\ Len(executed) = Calls
<1>1. hpc = "read" /\ up = <<>> /\ unsent = <<>>
  BY DEF ReadEnd, Handles, TypeInv
<1>2. Rest = <<>>
  BY <1>1, EmptySeq, ConcatEmptySeq DEF Rest
<1> QED BY <1>1, <1>2, NothingLeft

LEMMA OrderReadEnd ==
    ASSUME TypeInv, OrderInv, ReadEnd
    PROVE  OrderInv'
<1>1. /\ hpc = "read" /\ (buf # <<>> => client = "closed")
      /\ UNCHANGED <<sizes, answers, client, down, executed, unsent, up>>
  BY EndOfStream DEF ReadEnd, Handles, peer, sockets
<1>2. Rest' = Rest /\ Told' = Told
  BY <1>1 DEF Rest, Told
<1>3. CASE buf = <<>>
  <2>1. hpc' = "closed"
    BY <1>3 DEF ReadEnd, Goto
  <2>2. DoneInv' /\ ToldInv' /\ StageInv'
    BY <1>1, <1>2, <2>1 DEF OrderInv, DoneInv, ToldInv, StageInv, Due, Fits, Calls
  <2>3. StreamInv'
    BY <1>1, <2>1 DEF OrderInv, StreamInv, Live, AllPositive
  <2> QED BY <2>2, <2>3 DEF OrderInv
<1>4. CASE buf # <<>>
  <2>1. Consider(buf)
    BY <1>4 DEF ReadEnd
  <2>2. Rest \in Seq(Nat) /\ buf \in Seq(Nat) /\ Len(buf) \in Nat /\ Stream = buf \o Rest
    BY <1>1, OrderTypes DEF TypeInv, Stream
  <2>3. Len(buf) <= MAX_REQUEST_BYTES /\ \A i \in 1..Len(buf) : buf[i] # Newline
    BY <1>1 DEF OrderInv, StreamInv
  <2>4. \A i \in 1..Len(buf) - 1 : buf[i] # Newline
    BY <2>2, <2>3
  <2> QED BY <1>1, <1>2, <1>4, <2>1, <2>2, <2>3, <2>4, OrderConsidered
<1> QED BY <1>3, <1>4

LEMMA OrderNextLine ==
    ASSUME TypeInv, OrderInv, NextLine
    PROVE  OrderInv'
<1>1. /\ hpc = "next" /\ hpc' = "read" /\ buf' = <<>>
      /\ UNCHANGED <<sizes, answers, client, down, executed, unsent, up, outcome>>
  BY DEF NextLine, Handles, Goto, peer, sockets
<1>2. Rest' = Rest /\ Told' = Told
  BY <1>1 DEF Rest, Told
<1>3. DoneInv' /\ ToldInv' /\ StageInv'
  BY <1>1, <1>2 DEF OrderInv, DoneInv, ToldInv, StageInv, Due, Fits, Calls
<1>4. StreamInv'
  <2>1. Stream' = Stream /\ Taken' = Taken /\ Live
    BY <1>1, <1>2 DEF Stream, Taken, One, Live
  <2>2. Len(buf') = 0 /\ MAX_REQUEST_BYTES \in Nat
    BY <1>1, EmptySeq, Constants
  <2>3. Len(buf') <= MAX_REQUEST_BYTES /\ \A i \in 1..Len(buf') : buf'[i] # Newline
    BY <2>2
  <2> QED BY <1>1, <2>1, <2>3 DEF OrderInv, StreamInv
<1> QED BY <1>3, <1>4 DEF OrderInv

LEMMA OrderDispatch ==
    ASSUME TypeInv, OrderInv, Dispatch
    PROVE  OrderInv'
<1>1. /\ hpc = "dispatch" /\ hpc' = "write"
      /\ UNCHANGED <<sizes, answers, client, down, unsent, up, outcome, buf>>
      /\ executed' = IF outcome = BadRequest THEN executed ELSE Append(executed, outcome.to)
  BY DEF Dispatch, Handles, Goto, peer, sockets
<1>2. Rest' = Rest /\ Told' = Told
  BY <1>1 DEF Rest, Told
<1>3. PICK E \in Nat : E = Len(executed) /\ Len(Told) = E /\ E <= Calls /\ Calls \in Nat
  BY <1>1, OrderTypes DEF OrderInv, StageInv, DoneInv
<1>4. CASE outcome = BadRequest
  <2>1. client = "closed" /\ executed' = executed
    <3>1. outcome # [to |-> E + 1]
      <4>1. [to |-> 0].to # [to |-> E + 1].to
        BY <1>3
      <4> QED BY <1>4, <4>1 DEF BadRequest
    <3> QED BY <1>1, <1>3, <1>4, <3>1 DEF OrderInv, StageInv, AboutToRun
  <2>2. DoneInv' /\ ToldInv'
    BY <1>1, <1>2, <2>1 DEF OrderInv, DoneInv, ToldInv, Due, Fits, Calls
  <2>3. StageInv' /\ StreamInv'
    BY <1>1, <2>1 DEF OrderInv, StageInv, StreamInv, Live, AllPositive
  <2> QED BY <2>2, <2>3 DEF OrderInv
<1>5. CASE outcome # BadRequest
  <2>1. /\ E + 1 <= Calls /\ outcome = [to |-> E + 1] /\ sizes[E + 1] <= MAX_REQUEST_BYTES
        /\ client # "closed" => Fits(E + 1)
    BY <1>1, <1>3, <1>5 DEF OrderInv, StageInv, AboutToRun
  <2>2. executed' = Append(executed, E + 1)
    BY <1>1, <1>5, <2>1
  <2>3. /\ Len(executed') = E + 1 /\ executed'[E + 1] = E + 1
        /\ \A i \in 1..E : executed'[i] = executed[i]
    <3>1. executed \in Seq(Int) /\ E + 1 \in Int
      BY DEF TypeInv
    <3> QED BY <1>3, <2>2, <3>1, AppendProperties
  <2>4. DoneInv'
    <3>1. ASSUME NEW i \in 1..E + 1 PROVE executed'[i] = i /\ sizes[i] <= MAX_REQUEST_BYTES
      <4>1. CASE i \in 1..E
        BY <1>3, <2>3, <4>1 DEF OrderInv, DoneInv
      <4>2. CASE i = E + 1
        BY <2>1, <2>3, <4>2
      <4> QED BY <4>1, <4>2
    <3>2. E + 1 <= Calls'
      BY <1>1, <2>1 DEF Calls
    <3> QED BY <1>1, <2>3, <3>1, <3>2 DEF DoneInv
  <2>5. ToldInv'
    <3>1. Len(Told) <= Calls /\ \A i \in 1..Len(Told) : Told[i] = Due(i) /\ (Fits(i) <=> i <= E)
      BY <1>3 DEF OrderInv, ToldInv
    <3>2. \A i \in 1..Len(Told) : i <= E /\ i <= E + 1
      BY <1>3
    <3>3. \A i \in 1..Len(Told) : Told[i] = Due(i) /\ (Fits(i) <=> i <= E + 1)
      BY <3>1, <3>2
    <3> QED BY <1>1, <1>2, <2>3, <3>1, <3>3 DEF ToldInv, Due, Fits, Calls
  <2>6. StageInv'
    <3>1. client # "closed" => Fits(E + 1)
      BY <2>1
    <3>2. client' # "closed" => Len(Told') + 1 = E + 1 /\ outcome' = [to |-> E + 1] /\ Fits(E + 1)
      BY <1>1, <1>2, <1>3, <2>1
    <3>3. client' # "closed" => Len(Told') + 1 = Len(executed') /\ outcome' = [to |-> Len(executed')]
                                /\ sizes'[Len(executed')] + 1 <= MAX_REQUEST_BYTES
      BY <1>1, <2>3, <3>2 DEF Fits
    <3> QED BY <1>1, <3>3 DEF StageInv, Fits
  <2>7. StreamInv'
    <3>1. Stream' = Stream
      BY <1>1, <1>2 DEF Stream
    <3>2. Taken' = Taken
      BY <1>1, <1>3, <2>3 DEF Taken, One
    <3>3. Live' => Live
      BY <1>1 DEF Live
    <3> QED BY <1>1, <3>1, <3>2, <3>3 DEF OrderInv, StreamInv, AllPositive
  <2> QED BY <2>4, <2>5, <2>6, <2>7 DEF OrderInv
<1> QED BY <1>4, <1>5

\* One more reply.
LEMMA OneMoreTold ==
    ASSUME TypeInv, answers' = answers, down' = Append(down, outcome),
           NEW m \in Nat, Len(Told) = m
    PROVE  /\ Len(Told') = m + 1 /\ Told'[m + 1] = outcome
           /\ \A i \in 1..m : Told'[i] = Told[i]
<1>1. answers \in Seq(Replies) /\ down \in Seq(Replies) /\ outcome \in Replies /\ Told \in Seq(Replies)
  BY OrderTypes DEF TypeInv
<1>2. Told' = Append(Told, outcome)
  <2>1. Append(down, outcome) \in Seq(Replies) /\ <<outcome>> \in Seq(Replies)
    BY <1>1, AppendProperties
  <2>2. Append(down, outcome) = down \o <<outcome>> /\ Append(Told, outcome) = Told \o <<outcome>>
    BY <1>1, AppendIsConcat
  <2>3. answers \o (down \o <<outcome>>) = (answers \o down) \o <<outcome>>
    BY <1>1, <2>1, ConcatAssociative
  <2> QED BY <2>2, <2>3 DEF Told
<1> QED BY <1>1, <1>2, AppendProperties

LEMMA OrderReply ==
    ASSUME TypeInv, OrderInv, Answer \/ Refuse
    PROVE  OrderInv'
<1>1. /\ hpc \in {"write", "refuse"}
      /\ UNCHANGED <<sizes, answers, client, executed, unsent, up, outcome, buf>>
      /\ \/ client = "closed" /\ hpc' = "closed" /\ down' = down
         \/ client # "closed" /\ hpc' = (IF hpc = "write" THEN "next" ELSE "closed")
               /\ down' = Append(down, outcome)
  BY DEF Answer, Refuse, Reply, Handles, Goto, peer
<1>2. Rest' = Rest
  BY <1>1 DEF Rest
<1>3. DoneInv' /\ AllPositive(sizes')
  BY <1>1 DEF OrderInv, DoneInv, Calls, StreamInv
<1>4. PICK E \in Nat : E = Len(executed) /\ E = Len(executed') /\ E <= Calls /\ Calls \in Nat
  BY <1>1, OrderTypes DEF OrderInv, DoneInv
<1>5. CASE client = "closed"
  <2>1. Told' = Told /\ hpc' = "closed"
    BY <1>1, <1>5 DEF Told
  <2>2. ToldInv' /\ StageInv' /\ StreamInv'
    BY <1>1, <1>3, <2>1 DEF OrderInv, ToldInv, StageInv, StreamInv, Live, Due, Fits, Calls
  <2> QED BY <1>3, <2>2 DEF OrderInv
<1>6. CASE client # "closed" /\ hpc = "write"
  <2>1. hpc' = "next" /\ down' = Append(down, outcome) /\ answers' = answers
    BY <1>1, <1>6
  <2>2. PICK m \in Nat : Len(Told) = m /\ m + 1 = E /\ outcome = [to |-> E] /\ Fits(E)
    BY <1>4, <1>6, OrderTypes DEF OrderInv, StageInv
  <2>3. /\ Len(Told') = m + 1 /\ Told'[m + 1] = outcome
        /\ \A i \in 1..m : Told'[i] = Told[i]
    BY <2>1, <2>2, OneMoreTold
  <2>4. ASSUME NEW i \in 1..E PROVE Told'[i] = Due(i) /\ (Fits(i) <=> i <= E)
    <3>1. CASE i \in 1..m
      <4>1. Told[i] = Due(i) /\ (Fits(i) <=> i <= E)
        BY <1>4, <2>2, <3>1 DEF OrderInv, ToldInv
      <4> QED BY <2>3, <3>1, <4>1
    <3>2. CASE i = m + 1
      <4>1. i = E /\ Fits(i)
        BY <2>2, <3>2
      <4> QED BY <1>4, <2>2, <2>3, <3>2, <4>1 DEF Due
    <3> QED BY <2>2, <3>1, <3>2
  <2>5. ToldInv'
    <3>1. Len(Told') = E /\ E <= Calls'
      BY <1>1, <1>4, <2>2, <2>3 DEF Calls
    <3> QED BY <1>1, <1>4, <2>4, <3>1 DEF ToldInv, Due, Fits
  <2>6. StageInv'
    BY <1>4, <2>1, <2>2, <2>3 DEF StageInv
  <2>7. StreamInv'
    <3>1. Stream' = Stream /\ Taken' = Taken /\ Live
      BY <1>1, <1>2, <1>6, <2>1 DEF Stream, Taken, One, Live
    <3> QED BY <1>1, <1>3, <2>1, <3>1 DEF OrderInv, StreamInv
  <2> QED BY <1>3, <2>5, <2>6, <2>7 DEF OrderInv
<1>7. CASE client # "closed" /\ hpc = "refuse"
  <2>1. hpc' = "closed" /\ down' = Append(down, outcome) /\ answers' = answers
    BY <1>1, <1>7
  <2>2. Len(Told) = E /\ outcome = Oversized /\ E + 1 <= Calls /\ ~Fits(E + 1)
    BY <1>4, <1>7 DEF OrderInv, StageInv
  <2>3. /\ Len(Told') = E + 1 /\ Told'[E + 1] = outcome
        /\ \A i \in 1..E : Told'[i] = Told[i]
    BY <2>1, <2>2, OneMoreTold
  <2>4. ASSUME NEW i \in 1..E + 1 PROVE Told'[i] = Due(i) /\ (Fits(i) <=> i <= E)
    <3>1. CASE i \in 1..E
      BY <1>4, <2>2, <2>3, <3>1 DEF OrderInv, ToldInv
    <3>2. CASE i = E + 1
      BY <2>2, <2>3, <3>2 DEF Due
    <3> QED BY <3>1, <3>2
  <2>5. ToldInv'
    <3>1. Len(Told') = E + 1 /\ E + 1 <= Calls'
      BY <1>1, <2>2, <2>3 DEF Calls
    <3> QED BY <1>1, <1>4, <2>4, <3>1 DEF ToldInv, Due, Fits
  <2>6. StageInv' /\ StreamInv'
    BY <1>3, <2>1 DEF StageInv, StreamInv, Live
  <2> QED BY <1>3, <2>5, <2>6 DEF OrderInv
<1> QED BY <1>1, <1>5, <1>6, <1>7

LEMMA OrderDie ==
    ASSUME TypeInv, OrderInv, Die
    PROVE  OrderInv'
<1>1. /\ hpc' = "dead"
      /\ UNCHANGED <<sizes, answers, client, down, executed, unsent, up, outcome, buf>>
  BY DEF Die, Handles, Goto, peer, sockets
<1>2. Told' = Told
  BY <1>1 DEF Told
<1> QED BY <1>1, <1>2 DEF OrderInv, DoneInv, ToldInv, StageInv, StreamInv, Live, Due, Fits, Calls

LEMMA OrderInductive == TypeInv /\ OrderInv /\ [Next]_vars => OrderInv'
<1> SUFFICES ASSUME TypeInv, OrderInv, [Next]_vars PROVE OrderInv'
  OBVIOUS
<1>1. CASE UNCHANGED vars
  BY <1>1 DEF vars, OrderInv, StreamInv, DoneInv, ToldInv, StageInv, AboutToRun, Due, Fits, Calls,
              Stream, Rest, Taken, Told, Live, One
<1>2. CASE CallFails \/ HangUp \/ ShutDown
  <2>1. /\ UNCHANGED <<sizes, answers, down, executed, hpc, buf, outcome, up, unsent>>
        /\ client # "closed" \/ client' = "closed"
    BY <1>2 DEF CallFails, HangUp, ShutDown, Free, sockets, handler
  <2>2. Rest' = Rest /\ Told' = Told
    BY <2>1 DEF Rest, Told
  <2> QED BY <2>1, <2>2, OrderStays
<1>3. CASE Write
  <2>1. /\ UNCHANGED <<sizes, answers, down, executed, hpc, buf, outcome>> /\ client # "closed"
    BY <1>3 DEF Write, handler
  <2>2. Rest' = Rest /\ Told' = Told
    BY <1>3, <2>1, RestNext DEF Told
  <2> QED BY <2>1, <2>2, OrderStays
<1>4. CASE ReadReply
  <2>1. /\ UNCHANGED <<sizes, executed, hpc, buf, outcome, up, unsent>> /\ client # "closed"
    BY <1>4 DEF ReadReply, handler
  <2>2. Rest' = Rest /\ Told' = Told
    BY <1>4, <2>1, ToldStays DEF Rest
  <2> QED BY <2>1, <2>2, OrderStays
<1>5. CASE \E n \in Sizes : Request(n)
  BY <1>5, OrderRequest
<1>6. CASE BlankLine
  BY <1>6, OrderBlankLine
<1>7. CASE Serve
  BY <1>7, OrderReadByte, OrderReadEnd, OrderNextLine, OrderDispatch, OrderReply DEF Serve
<1>8. CASE Die
  BY <1>8, OrderDie
<1> QED BY <1>1, <1>2, <1>3, <1>4, <1>5, <1>6, <1>7, <1>8 DEF Next, Call

\* A connection on which nothing has happened, to a daemon or to none.
Fresh ==
    /\ sizes = <<>> /\ unsent = <<>> /\ answers = <<>> /\ up = <<>> /\ down = <<>>
    /\ buf = <<>> /\ hpc \in {"read", "dead"} /\ executed = <<>>

LEMMA OrderFresh == Fresh => OrderInv
<1> SUFFICES ASSUME Fresh PROVE OrderInv
  OBVIOUS
<1>1. /\ sizes = <<>> /\ unsent = <<>> /\ answers = <<>> /\ up = <<>> /\ down = <<>>
      /\ buf = <<>> /\ hpc \in {"read", "dead"} /\ executed = <<>>
  BY DEF Fresh
<1>2. Len(sizes) = 0 /\ Len(buf) = 0 /\ Len(executed) = 0 /\ MAX_REQUEST_BYTES \in Nat
  BY <1>1, EmptySeq, Constants
<1>3. Told = <<>> /\ Stream = <<>>
  BY <1>1, ConcatEmptySeq, EmptySeq DEF Told, Stream, Rest
<1>4. Len(Told) = 0 /\ Len(Stream) = 0
  BY <1>3, EmptySeq
<1>5. Taken = 0
  BY <1>1, <1>2 DEF Taken, One
<1>6. StreamInv
  <2>1. Laid(Stream, Taken, sizes)
    BY <1>2, <1>4, <1>5 DEF Laid, Rising, Within, There
  <2> QED BY <1>1, <1>2, <2>1 DEF StreamInv, AllPositive
<1>7. DoneInv /\ ToldInv
  BY <1>2, <1>4 DEF DoneInv, ToldInv, Calls
<1>8. StageInv
  BY <1>1, <1>2, <1>4 DEF StageInv
<1> QED BY <1>6, <1>7, <1>8 DEF OrderInv

LEMMA OrderInitially == Init => OrderInv
BY OrderFresh DEF Init, Fresh

LEMMA OrderAlways == Spec => [](TypeInv /\ OrderInv)
BY OrderInitially, OrderInductive, TypeInitially, TypeInductive, PTL DEF Spec

(* "One request per line, one response per line" (server.rs 1): whatever   *)
(* the requests' lengths and the blank lines between them, and however     *)
(* much is written before a reply is read, the k-th reply is to the k-th   *)
(* request.                                                                *)
THEOREM RepliesAreInOrder == Spec => []RepliesInOrder
<1>1. TypeInv /\ OrderInv => RepliesInOrder
  BY DEF OrderInv, ToldInv, Told, Due, RepliesInOrder
<1> QED BY <1>1, OrderAlways, PTL

(* What the connection task dispatches is the requests made, in order,     *)
(* each once and whole, and what is answered has been carried out.         *)
THEOREM RequestsRunInOrder == Spec => []ExecutedInOrder
<1>1. ASSUME TypeInv, OrderInv PROVE ExecutedInOrder
  <2>1. ASSUME NEW i \in 1..Len(answers), answers[i].to > 0 PROVE answers[i].to <= Len(executed)
    <3>1. answers \in Seq(Replies) /\ down \in Seq(Replies) /\ Len(answers) \in Nat
          /\ Len(down) \in Nat /\ Len(Told) = Len(answers) + Len(down) /\ Told[i] = answers[i]
      <4>1. answers \in Seq(Replies) /\ down \in Seq(Replies)
        BY <1>1 DEF TypeInv
      <4> QED BY <4>1, InBoth DEF Told
    <3>2. i \in 1..Len(Told)
      BY <3>1
    <3>3. answers[i] = Due(i) /\ (Fits(i) <=> i <= Len(executed))
      BY <1>1, <3>1, <3>2 DEF OrderInv, ToldInv
    <3>4. Fits(i)
      BY <2>1, <3>3 DEF Due, Oversized
    <3>5. answers[i].to = i
      BY <3>3, <3>4 DEF Due
    <3> QED BY <3>3, <3>4, <3>5
  <2> QED BY <1>1, <2>1 DEF OrderInv, DoneInv, ExecutedInOrder
<1> QED BY <1>1, OrderAlways, PTL

-----------------------------------------------------------------------------
(* Why a connection ends.                                                  *)

\* The last thing the client was told is the refusal.
Refused == Told # <<>> /\ Told[Len(Told)] = Oversized

Reason == Refused \/ (shut /\ Len(Told) = Calls)

LEMMA ReasonIs == HangsUpWithReason <=> (hpc = "closed" /\ client # "closed" => Reason)
BY DEF HangsUpWithReason, Reason, Refused, Told

\* A connection that has ended for a reason goes on to have that reason.
LEMMA ReasonStays ==
    ASSUME HangsUpWithReason, Told' = Told, hpc' = hpc, client' = "closed" \/ client # "closed",
           shut => shut' /\ sizes' = sizes
    PROVE  HangsUpWithReason'
<1>1. Refused' <=> Refused
  BY DEF Refused
<1>2. hpc = "closed" /\ client # "closed" => Reason
  BY ReasonIs
<1>3. Reason => Reason'
  BY <1>1 DEF Reason, Calls
<1>4. (HangsUpWithReason <=> (hpc = "closed" /\ client # "closed" => Reason))'
  BY ReasonIs, PTL
<1> QED BY <1>2, <1>3, <1>4

\* Only three steps end a connection, and each has its reason.
LEMMA ReasonInductive == TypeInv /\ OrderInv /\ HangsUpWithReason /\ [Next]_vars => HangsUpWithReason'
<1> SUFFICES ASSUME TypeInv, OrderInv, HangsUpWithReason, [Next]_vars PROVE HangsUpWithReason'
  OBVIOUS
<1> USE DEF peer, sockets, handler
<1>0. (HangsUpWithReason <=> (hpc = "closed" /\ client # "closed" => Reason))'
  BY ReasonIs, PTL
<1>1. CASE UNCHANGED vars
  BY <1>1 DEF vars, HangsUpWithReason, Calls
<1>2. CASE (\E n \in Sizes : Request(n)) \/ BlankLine \/ ShutDown \/ Write \/ CallFails \/ HangUp
  <2>1. /\ UNCHANGED <<answers, down, hpc>> /\ (shut => shut' /\ sizes' = sizes)
        /\ client' = "closed" \/ client # "closed"
    BY <1>2 DEF Request, BlankLine, ShutDown, Free, Write, CallFails, HangUp
  <2>2. Told' = Told
    BY <2>1 DEF Told
  <2> QED BY <2>1, <2>2, ReasonStays
<1>3. CASE ReadReply
  <2>1. UNCHANGED <<hpc, client, shut, sizes>> /\ client # "closed" /\ Told' = Told
    BY <1>3, ToldStays DEF ReadReply
  <2> QED BY <2>1, ReasonStays
<1>4. CASE ReadByte
  <2> DEFINE line == Append(buf, Head(up))
  <2>1. line \in Seq(Nat) /\ line # <<>> /\ hpc = "read"
    BY <1>4, ReadsALine DEF ReadByte, Handles
  <2> HIDE DEF line
  <2>2. Consider(line) => hpc' # "closed"
    BY <2>1, Considered
  <2>3. hpc' # "closed"
    BY <1>4, <2>1, <2>2 DEF ReadByte, line
  <2> QED BY <1>0, <2>3
<1>5. CASE ReadEnd
  <2>1. CASE client = "closed"
    BY <1>0, <1>5, <2>1 DEF ReadEnd, Handles
  <2>2. CASE client # "closed"
    <3>1. hpc = "read" /\ shut /\ UNCHANGED <<answers, down, sizes, shut>>
      BY <1>5, <2>2 DEF ReadEnd, Handles
    <3>2. Len(executed) = Calls /\ Len(Told) = Len(executed)
      BY <1>5, <2>2, <3>1, EndOfStream DEF OrderInv, StageInv
    <3>3. Len(Told') = Calls' /\ shut'
      BY <3>1, <3>2 DEF Told, Calls
    <3> QED BY <1>0, <3>3 DEF Reason
  <2> QED BY <2>1, <2>2
<1>6. CASE NextLine \/ Dispatch \/ Die
  BY <1>0, <1>6 DEF NextLine, Dispatch, Die, Goto
<1>7. CASE Answer \/ Refuse
  <2>1. CASE client = "closed" \/ Answer
    BY <1>0, <1>7, <2>1 DEF Answer, Refuse, Reply, Handles, Goto
  <2>2. CASE client # "closed" /\ Refuse
    <3>1. /\ hpc = "refuse" /\ down' = Append(down, outcome) /\ answers' = answers
      BY <2>2 DEF Refuse, Reply, Handles
    <3>2. outcome = Oversized /\ Len(Told) \in Nat
      BY <3>1, OrderTypes DEF OrderInv, StageInv
    <3>3. Len(Told') = Len(Told) + 1 /\ Told'[Len(Told) + 1] = Oversized
      BY <3>1, <3>2, OneMoreTold
    <3>4. Told' # <<>>
      BY <3>2, <3>3, EmptySeq
    <3>5. Refused'
      BY <3>3, <3>4 DEF Refused
    <3> QED BY <1>0, <3>5 DEF Reason
  <2> QED BY <1>7, <2>1, <2>2
<1> QED BY <1>1, <1>2, <1>3, <1>4, <1>5, <1>6, <1>7 DEF Next, Call, Serve

(* A connection that ends under a client that is still there has told it   *)
(* why, or the client had finished and has a reply to each of its          *)
(* requests, or the daemon died (server.rs 155-170).                       *)
THEOREM EndsWithReason == Spec => []HangsUpWithReason
<1>1. Init => HangsUpWithReason
  BY DEF Init, HangsUpWithReason
<1> QED BY <1>1, ReasonInductive, OrderAlways, PTL DEF Spec

-----------------------------------------------------------------------------
(* What tickerctl's exit code says of a trade.                             *)

\* One run of a command makes one call.
OneCall == Calls <= 1

VerdictInv ==
    /\ verdict \in {None, "Error", "Ok"}
    /\ executed = <<>> <=> verdict = None

\* 0 and 1 are exit codes only of a run that has read its reply.
CodeInv ==
    /\ code \in {0, 1, 2, None}
    /\ code \in {0, 1} => Len(answers) >= 1
    /\ code = 0 => verdict = "Ok"
    /\ code = 1 => verdict # "Ok"

Those(codes) == {i \in 1..Len(past) : past[i] \in codes}

Before(codes) == Cardinality(Those(codes))

\* Trades inserted in this run.
Ran == One(verdict = "Ok")

CountInv ==
    /\ past \in Seq(Int \cup {None})
    /\ fills \in Seq(Numbers \cup {"cached"})
    /\ Before({0}) + Ran <= Len(fills) /\ Len(fills) <= Before({0, 2, None}) + Ran

PriceInv == cmd.price = "number" => \A i \in 1..Len(fills) : fills[i] = cmd.price

TradeInv == OneCall /\ VerdictInv /\ CodeInv /\ CountInv /\ PriceInv

Trading == Ours /\ IsTrade(cmd)

CliInv == cmd \in Commands \cup {None} /\ (Trading => TradeInv)

ConnInv == TypeInv /\ OrderInv

LEMMA CliSteps == [CliNext]_cvars => [Next]_vars \/ Again
BY DEF CliNext, cvars, Connect, Unreachable, Answered, Cancelled, Send, Write1, Reads, Fails,
       Gone, Dispatched, Serves, Others, Next, Call, Serve

LEMMA AgainIsFresh == Again => Fresh'
BY DEF Again, Fresh

LEMMA ConnInductive == ConnInv /\ [CliNext]_cvars => ConnInv'
<1>1. ConnInv /\ [Next]_vars => ConnInv'
  BY TypeInductive, OrderInductive DEF ConnInv
<1>2. ASSUME TypeInv, Again PROVE TypeInv'
  <2>1. waits' \in BOOLEAN /\ shut' \in BOOLEAN /\ (shut' => unsent' = <<>> /\ ~waits')
    BY <1>2 DEF Again, TypeInv
  <2> QED BY <1>2, <2>1, EmptySeq DEF Again, TypeInv, Replies, BadRequest
<1>3. Fresh' => OrderInv'
  BY OrderFresh, PTL
<1> QED BY <1>1, <1>2, <1>3, AgainIsFresh, CliSteps DEF ConnInv

LEMMA NoneIsNoCode ==
    None \notin {0, 1, 2, "Ok", "Error"} /\ None \notin Numbers
BY TickerctlAssumption DEF Kinds

LEMMA BeforeTypes ==
    ASSUME NEW codes, past \in Seq(Int \cup {None})
    PROVE  IsFiniteSet(Those(codes)) /\ Before(codes) \in Nat
<1>1. Those(codes) \in SUBSET (1..Len(past)) /\ Len(past) \in Nat
  BY LenProperties DEF Those
<1>2. IsFiniteSet(1..Len(past))
  BY <1>1, FS_Interval
<1> QED BY <1>1, <1>2, FS_Subset, FS_CardinalityType DEF Before

\* One run more.
LEMMA OneMoreRun ==
    ASSUME NEW codes, past \in Seq(Int \cup {None}), NEW v \in Int \cup {None},
           past' = Append(past, v)
    PROVE  Before(codes) \in Nat /\ Before(codes)' = Before(codes) + One(v \in codes)
<1>1. PICK n \in Nat : n = Len(past)
  BY LenProperties
<1>2. /\ Len(past') = n + 1 /\ past'[n + 1] = v
      /\ \A i \in 1..n : past'[i] = past[i]
  BY <1>1, AppendProperties
<1>3. IsFiniteSet(Those(codes)) /\ Before(codes) \in Nat
  BY BeforeTypes
<1>4. Those(codes)' = {i \in 1..n + 1 : past'[i] \in codes}
  BY <1>2 DEF Those
<1>5. CASE v \in codes
  <2>1. Those(codes)' = Those(codes) \cup {n + 1} /\ n + 1 \notin Those(codes)
    BY <1>1, <1>2, <1>4, <1>5 DEF Those
  <2> QED BY <1>3, <1>5, <2>1, FS_AddElement DEF Before, One
<1>6. CASE v \notin codes
  <2>1. Those(codes)' = Those(codes)
    BY <1>1, <1>2, <1>4, <1>6 DEF Those
  <2> QED BY <1>3, <1>6, <2>1 DEF Before, One
<1> QED BY <1>5, <1>6

LEMMA BeforeStays == ASSUME NEW codes, past' = past PROVE Before(codes)' = Before(codes)
BY DEF Before, Those

\* Steps that neither carry anything out nor answer, call or end the run.
LEMMA TradeStays ==
    ASSUME TradeInv, UNCHANGED <<sizes, executed, answers, cmd, verdict, fills, past>>,
           code' \in {code, 2}
    PROVE  TradeInv'
<1>1. OneCall' /\ VerdictInv'
  BY DEF TradeInv, OneCall, VerdictInv, Calls
<1>2. CodeInv'
  BY DEF TradeInv, CodeInv
<1>3. CountInv' /\ PriceInv'
  BY BeforeStays DEF TradeInv, CountInv, PriceInv, Ran
<1> QED BY <1>1, <1>2, <1>3 DEF TradeInv

LEMMA TradeSend ==
    ASSUME TypeInv, TradeInv, Send
    PROVE  TradeInv'
<1>1. PICK n \in Sizes : Request(n)
  BY DEF Send
<1>2. /\ Calls = 0 /\ sizes' = Append(sizes, n) /\ sizes \in Seq(Nat) /\ n \in Nat
      /\ UNCHANGED <<executed, answers, cmd, code, verdict, fills, past>>
  BY <1>1, Constants DEF Send, Request, handler, sockets, shell, TypeInv
<1>3. OneCall'
  BY <1>2, AppendProperties DEF OneCall, Calls
<1>4. VerdictInv' /\ CodeInv' /\ CountInv' /\ PriceInv'
  BY <1>2, BeforeStays DEF TradeInv, VerdictInv, CodeInv, CountInv, PriceInv, Ran
<1> QED BY <1>3, <1>4 DEF TradeInv

\* The one reply there is to read tells what became of the request.
LEMMA FirstReply ==
    ASSUME TypeInv, OrderInv, VerdictInv, OneCall, down # <<>>
    PROVE  Head(down).to > 0 <=> verdict # None
<1>1. /\ answers \in Seq(Replies) /\ down \in Seq(Replies) /\ Len(answers) \in Nat /\ Len(down) \in Nat
      /\ Len(Told) = Len(answers) + Len(down) /\ Len(Told) <= Calls /\ Calls <= 1 /\ Calls \in Nat
      /\ Len(executed) \in Nat
  <2>1. answers \in Seq(Replies) /\ down \in Seq(Replies)
    BY DEF TypeInv
  <2>2. Len(Told) = Len(answers) + Len(down) /\ Len(answers) \in Nat /\ Len(down) \in Nat
    BY <2>1, InBoth DEF Told
  <2>3. Len(Told) <= Calls /\ Calls <= 1
    BY DEF OneCall, OrderInv, ToldInv
  <2>4. Calls \in Nat /\ Len(executed) \in Nat
    BY OrderTypes
  <2> QED BY <2>1, <2>2, <2>3, <2>4
<1>2. Len(down) # 0
  BY <1>1, EmptySeq
<1>3. Len(answers) = 0 /\ Len(down) = 1 /\ Len(Told) = 1
  <2>1. PICK m \in Nat, n \in Nat, c \in Nat :
            m = Len(answers) /\ n = Len(down) /\ c = Calls /\ Len(Told) = m + n
    BY <1>1
  <2>2. m + n <= c /\ c <= 1 /\ n # 0
    BY <1>1, <1>2, <2>1
  <2>3. m = 0 /\ n = 1
    BY <2>2
  <2> QED BY <2>1, <2>3
<1>4. Head(down) = Told[1]
  <2>1. \A i \in 1..Len(down) : Told[Len(answers) + i] = down[i]
    BY <1>1, InBoth DEF Told
  <2>2. Head(down) = down[1]
    BY <1>1, HeadTailProperties
  <2> QED BY <1>3, <2>1, <2>2
<1>5. Told[1] = Due(1) /\ (Fits(1) <=> 1 <= Len(executed))
  BY <1>3 DEF OrderInv, ToldInv
<1>6. Head(down).to > 0 <=> 1 <= Len(executed)
  BY <1>4, <1>5 DEF Due, Oversized
<1>7. 1 <= Len(executed) <=> executed # <<>>
  BY <1>1, EmptySeq DEF TypeInv
<1> QED BY <1>6, <1>7 DEF VerdictInv

LEMMA TradeReads ==
    ASSUME TypeInv, OrderInv, Trading, TradeInv, Reads
    PROVE  TradeInv'
<1>1. /\ down # <<>> /\ answers' = Append(answers, Head(down))
      /\ code' = ExitCode(cmd, IF Head(down).to > 0 THEN verdict ELSE "Error")
      /\ UNCHANGED <<sizes, executed, cmd, verdict, fills, past>>
  BY DEF Reads, ReadReply, Exit, handler
<1>2. Head(down).to > 0 <=> verdict # None
  BY <1>1, FirstReply DEF TradeInv
<1>3. verdict \in {None, "Error", "Ok"} /\ Expected[cmd.op] = "Ok"
  BY DEF TradeInv, VerdictInv, Trading, IsTrade, Expected
<1>4. code' = IF verdict = "Ok" THEN 0 ELSE 1
  BY <1>1, <1>2, <1>3, NoneIsNoCode DEF ExitCode
<1>5. Len(answers') >= 1
  <2>1. answers \in Seq(Replies) /\ down \in Seq(Replies) /\ Head(down) \in Replies
    BY <1>1, HeadTailProperties DEF TypeInv
  <2>2. Len(answers') = Len(answers) + 1 /\ Len(answers) \in Nat
    BY <1>1, <2>1, AppendProperties, LenProperties
  <2> QED BY <2>2
<1>6. CodeInv'
  BY <1>1, <1>4, <1>5 DEF CodeInv
<1>7. OneCall' /\ VerdictInv' /\ CountInv' /\ PriceInv'
  BY <1>1, BeforeStays DEF TradeInv, OneCall, VerdictInv, CountInv, PriceInv, Ran, Calls
<1> QED BY <1>6, <1>7 DEF TradeInv

LEMMA TradeDispatched ==
    ASSUME TypeInv, OrderInv, Trading, TradeInv, Dispatched, cmd \in Commands
    PROVE  TradeInv'
<1>1. /\ hpc = "dispatch"
      /\ UNCHANGED <<sizes, answers, down, cmd, code, past>>
      /\ executed' = IF outcome = BadRequest THEN executed ELSE Append(executed, outcome.to)
  BY DEF Dispatched, Dispatch, Handles, Goto, peer, sockets
<1>2. CASE outcome = BadRequest
  <2>1. UNCHANGED <<executed, verdict, fills>>
    BY <1>1, <1>2 DEF Dispatched
  <2> QED BY <1>1, <2>1, TradeStays
<1>3. CASE outcome # BadRequest
  <2>1. PICK E \in Nat : E = Len(executed) /\ Len(Told) = E /\ E + 1 <= Calls /\ Calls <= 1
    <3>1. Len(executed) + 1 <= Calls
      BY <1>1, <1>3 DEF OrderInv, StageInv, AboutToRun
    <3> QED BY <1>1, <3>1, OrderTypes DEF OrderInv, StageInv, TradeInv, OneCall
  <2>2. E = 0
    BY <2>1, OrderTypes
  <2>3. executed = <<>> /\ verdict = None
    <3>1. executed = <<>>
      BY <2>1, <2>2, EmptySeq DEF TypeInv
    <3> QED BY <3>1 DEF TradeInv, VerdictInv
  <2>4. code \in {2, None}
    <3>1. Len(answers) = 0
      <4>1. Len(Told) = Len(answers) + Len(down) /\ Len(answers) \in Nat /\ Len(down) \in Nat
        BY InBoth DEF TypeInv, Told
      <4> QED BY <2>1, <2>2, <4>1
    <3> QED BY <3>1 DEF TradeInv, CodeInv
  <2>5. executed' # <<>>
    <3>1. executed \in Seq(Int) /\ outcome.to \in Int
      BY DEF TypeInv, Replies
    <3> QED BY <1>1, <1>3, <3>1, AppendProperties
  <2>6. /\ verdict' \in {"Error", "Ok"}
        /\ fills' = IF verdict' = "Ok" THEN Append(fills, FillOf(cmd)) ELSE fills
    <3>1. Kind(cmd.op) = "Ok"
      BY DEF Trading, IsTrade, Kind
    <3> QED BY <1>3, <3>1 DEF Dispatched, Trading
  <2>7. OneCall' /\ VerdictInv' /\ CodeInv'
    <3>1. OneCall'
      BY <1>1 DEF TradeInv, OneCall, Calls
    <3>2. VerdictInv'
      BY <2>5, <2>6, NoneIsNoCode DEF VerdictInv
    <3>3. CodeInv'
      BY <1>1, <2>4, NoneIsNoCode DEF CodeInv
    <3> QED BY <3>1, <3>2, <3>3
  <2>8. /\ FillOf(cmd) \in Numbers \cup {"cached"}
        /\ cmd.price = "number" => FillOf(cmd) = cmd.price
    <3>1. cmd.price \in Numbers \cup {None}
      BY TickerctlAssumption DEF Typings
    <3> QED BY <3>1, NoneIsNoCode DEF FillOf, OverTheWire, Numbers
  <2>9. PICK F \in Nat : F = Len(fills)
    BY LenProperties DEF TradeInv, CountInv
  <2>10. fills \in Seq(Numbers \cup {"cached"}) /\ past' = past /\ past \in Seq(Int \cup {None})
    BY <1>1 DEF TradeInv, CountInv
  <2>11. Ran = 0 /\ Before({0}) <= F /\ F <= Before({0, 2, None})
         /\ Before({0}) \in Nat /\ Before({0, 2, None}) \in Nat
    <3>1. Ran = 0
      BY <2>3, NoneIsNoCode DEF Ran, One
    <3>2. Before({0}) \in Nat /\ Before({0, 2, None}) \in Nat
      BY <2>10, BeforeTypes
    <3> QED BY <2>9, <3>1, <3>2 DEF TradeInv, CountInv
  <2>12. CASE verdict' = "Ok"
    <3>1. /\ fills' \in Seq(Numbers \cup {"cached"}) /\ Len(fills') = F + 1
          /\ fills'[F + 1] = FillOf(cmd) /\ \A i \in 1..F : fills'[i] = fills[i]
      BY <2>6, <2>8, <2>9, <2>10, <2>12, AppendProperties
    <3>2. Ran' = 1
      BY <2>12 DEF Ran, One
    <3>3. CountInv'
      BY <2>10, <2>11, <3>1, <3>2, BeforeStays DEF CountInv
    <3>4. PriceInv'
      <4> SUFFICES ASSUME cmd.price = "number", NEW i \in 1..F + 1 PROVE fills'[i] = cmd.price
        BY <1>1, <3>1 DEF PriceInv
      <4>1. CASE i \in 1..F
        BY <2>9, <3>1, <4>1 DEF TradeInv, PriceInv
      <4>2. CASE i = F + 1
        BY <2>8, <3>1, <4>2
      <4> QED BY <4>1, <4>2
    <3> QED BY <2>7, <3>3, <3>4 DEF TradeInv
  <2>13. CASE verdict' = "Error"
    <3>1. fills' = fills /\ Ran' = 0
      BY <2>6, <2>13 DEF Ran, One
    <3>2. CountInv'
      BY <2>9, <2>10, <2>11, <3>1, BeforeStays DEF CountInv
    <3>3. PriceInv'
      BY <1>1, <3>1 DEF TradeInv, PriceInv
    <3> QED BY <2>7, <3>2, <3>3 DEF TradeInv
  <2> QED BY <2>6, <2>12, <2>13
<1> QED BY <1>2, <1>3

\* What a run came to, and whether it inserted its trade.
LEMMA OutcomeTells ==
    ASSUME TypeInv, OrderInv, TradeInv
    PROVE  /\ Outcome \in Int \cup {None}
           /\ Outcome = 0 => Ran = 1
           /\ Ran = 1 => Outcome \in {0, 2, None}
           /\ Ran \in {0, 1}
<1>1. Outcome = 0 => verdict = "Ok"
  BY DEF Outcome, Unsent, TradeInv, CodeInv
<1>2. verdict = "Ok" => Outcome \in {0, 2, None}
  <2> SUFFICES ASSUME verdict = "Ok" PROVE Outcome \in {0, 2, None}
    OBVIOUS
  <2>1. executed # <<>>
    BY NoneIsNoCode DEF TradeInv, VerdictInv
  <2>2. Calls # 0
    BY <2>1, EmptySeq, OrderTypes DEF TypeInv, OrderInv, DoneInv
  <2> QED BY <2>2 DEF Outcome, TradeInv, CodeInv
<1>3. Outcome \in Int \cup {None}
  BY DEF Outcome, Unsent, TradeInv, CodeInv
<1> QED BY <1>1, <1>2, <1>3 DEF Ran, One

LEMMA TradeAgain ==
    ASSUME TypeInv, OrderInv, TradeInv, Again
    PROVE  TradeInv'
<1>1. /\ past' = Append(past, Outcome) /\ code' = None /\ verdict' = None
      /\ sizes' = <<>> /\ executed' = <<>> /\ UNCHANGED <<cmd, fills>>
  BY DEF Again
<1>2. OneCall' /\ VerdictInv' /\ CodeInv'
  <2>1. OneCall'
    BY <1>1, EmptySeq DEF OneCall, Calls
  <2>2. VerdictInv' /\ CodeInv'
    BY <1>1, NoneIsNoCode DEF VerdictInv, CodeInv
  <2> QED BY <2>1, <2>2
<1>3. past \in Seq(Int \cup {None}) /\ past' \in Seq(Int \cup {None})
  BY <1>1, OutcomeTells, AppendProperties DEF TradeInv, CountInv
<1>4. Ran' = 0
  BY <1>1, NoneIsNoCode DEF Ran, One
<1>5. /\ Before({0}) \in Nat /\ Before({0})' = Before({0}) + One(Outcome \in {0})
      /\ Before({0, 2, None}) \in Nat
      /\ Before({0, 2, None})' = Before({0, 2, None}) + One(Outcome \in {0, 2, None})
  BY <1>1, <1>3, OutcomeTells, OneMoreRun
<1>6. PICK F \in Nat : F = Len(fills) /\ F = Len(fills')
  BY <1>1, LenProperties DEF TradeInv, CountInv
<1>7. Before({0}) + Ran <= F /\ F <= Before({0, 2, None}) + Ran
  BY <1>6 DEF TradeInv, CountInv
<1>8. One(Outcome \in {0}) <= Ran /\ Ran <= One(Outcome \in {0, 2, None})
      /\ One(Outcome \in {0}) \in Nat /\ One(Outcome \in {0, 2, None}) \in Nat /\ Ran \in Nat
  BY OutcomeTells DEF One
<1>9. CountInv'
  <2>1. Before({0})' <= F /\ F <= Before({0, 2, None})'
    BY <1>5, <1>7, <1>8
  <2>2. fills' \in Seq(Numbers \cup {"cached"})
    BY <1>1 DEF TradeInv, CountInv
  <2>3. Before({0})' \in Nat /\ Before({0, 2, None})' \in Nat
    BY <1>5, <1>8
  <2> QED BY <1>3, <1>4, <1>6, <2>1, <2>2, <2>3 DEF CountInv
<1>10. PriceInv'
  BY <1>1 DEF TradeInv, PriceInv
<1> QED BY <1>2, <1>9, <1>10 DEF TradeInv

LEMMA CliInductive == ConnInv /\ CliInv /\ [CliNext]_cvars => CliInv'
<1> SUFFICES ASSUME TypeInv, OrderInv, CliInv, [CliNext]_cvars PROVE CliInv'
  BY DEF ConnInv
<1>1. cmd' = cmd
  BY DEF CliNext, cvars, shell, Connect, Unreachable, Answered, Cancelled, Send, Write1, Reads,
         Fails, Gone, Again, Dispatched, Serves, Others
<1> SUFFICES ASSUME Trading, TradeInv PROVE TradeInv'
  BY <1>1 DEF CliInv, Trading, Ours
<1>2. CASE UNCHANGED cvars \/ Connect \/ Unreachable \/ Answered \/ Cancelled
  <2>1. /\ UNCHANGED <<sizes, executed, answers, cmd, verdict, fills, past>>
        /\ code' \in {code, 2}
    BY <1>2 DEF cvars, vars, shell, Connect, Unreachable, Answered, Cancelled, Exit
  <2> QED BY <2>1, TradeStays
<1>3. CASE Write1 \/ Fails \/ Gone \/ Serves
  <2>1. /\ UNCHANGED <<sizes, executed, answers, cmd, verdict, fills, past>>
        /\ code' \in {code, 2}
    BY <1>3 DEF shell, Write1, Write, Fails, CallFails, Gone, HangUp, Exit, Serves, ReadByte, ReadEnd,
                NextLine, Answer, Refuse, Reply, Die, Handles, peer, handler, sockets
  <2> QED BY <2>1, TradeStays
<1>4. CASE Send
  BY <1>4, TradeSend
<1>5. CASE Reads
  BY <1>5, TradeReads
<1>6. CASE Again
  BY <1>6, TradeAgain
<1>7. CASE Dispatched
  <2>1. cmd \in Commands
    BY DEF CliInv, Trading, Ours
  <2> QED BY <1>7, <2>1, TradeDispatched
<1>8. ~Others
  BY DEF Others, Trading
<1> QED BY <1>2, <1>3, <1>4, <1>5, <1>6, <1>7, <1>8 DEF CliNext

LEMMA CliInitially == CliInit => CliInv
<1> SUFFICES ASSUME CliInit PROVE CliInv
  OBVIOUS
<1>1. /\ code = None /\ verdict = None /\ fills = <<>> /\ past = <<>> /\ sizes = <<>>
      /\ executed = <<>> /\ cmd \in Commands \cup {None}
  BY DEF CliInit, Init
<1>2. Len(fills) = 0 /\ Len(past) = 0 /\ Len(sizes) = 0
  BY <1>1, EmptySeq
<1>3. OneCall /\ VerdictInv /\ CodeInv /\ PriceInv
  BY <1>1, <1>2, NoneIsNoCode DEF OneCall, Calls, VerdictInv, CodeInv, PriceInv
<1>4. \A codes : Before(codes) = 0
  <2>1. \A codes : Those(codes) = {}
    BY <1>2 DEF Those
  <2> QED BY <2>1, FS_EmptySet DEF Before
<1>5. Ran = 0
  BY <1>1, NoneIsNoCode DEF Ran, One
<1>6. past \in Seq(Int \cup {None}) /\ fills \in Seq(Numbers \cup {"cached"})
  BY <1>1, EmptySeq
<1> QED BY <1>1, <1>2, <1>3, <1>4, <1>5, <1>6 DEF CliInv, TradeInv, CountInv

(* A script that runs `tickerctl buy` or `sell` again and again can tell   *)
(* from the exit codes how many trades it made, within the runs that ended *)
(* with 2 or were killed, and each is at the price it asked for (main.rs   *)
(* 106-161): for any number of runs, whatever the daemon does and wherever *)
(* the connection breaks.                                                  *)
THEOREM ExitCodesTellTrades == CliSpec => []ExitTellsTrade
<1>1. CliInit => ConnInv /\ CliInv
  BY CliInitially, TypeInitially, OrderInitially DEF CliInit, ConnInv
<1>2. ConnInv /\ CliInv => ExitTellsTrade
  <2> SUFFICES ASSUME TypeInv, OrderInv, Trading, TradeInv PROVE ExitTellsTrade
    BY DEF ConnInv, CliInv, Trading, ExitTellsTrade
  <2>1. /\ Before({0}) \in Nat /\ Before({0, 2, None}) \in Nat
        /\ Before({0}) + Ran <= Len(fills) /\ Len(fills) <= Before({0, 2, None}) + Ran
        /\ Len(fills) \in Nat
    BY BeforeTypes, LenProperties DEF TradeInv, CountInv
  <2>2. Times({0}) = Before({0}) + One(Outcome = 0)
        /\ Times({0, 2, None}) = Before({0, 2, None}) + One(Outcome \in {0, 2, None})
    BY DEF Times, Before, Those, One
  <2>3. One(Outcome = 0) <= Ran /\ Ran <= One(Outcome \in {0, 2, None})
        /\ One(Outcome = 0) \in Nat /\ One(Outcome \in {0, 2, None}) \in Nat /\ Ran \in Nat
    BY OutcomeTells DEF One
  <2>4. Times({0}) <= Len(fills) /\ Len(fills) <= Times({0, 2, None})
    BY <2>1, <2>2, <2>3
  <2> QED BY <2>4 DEF ExitTellsTrade, TradeInv, PriceInv
<1> QED BY <1>1, <1>2, ConnInductive, CliInductive, PTL DEF CliSpec
=============================================================================
