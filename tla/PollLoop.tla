------------------------------ MODULE PollLoop ------------------------------
(***************************************************************************)
(* The poll loop of perps-funding in time, from the launch of the process  *)
(* to its end: a ticker, a fetch per asset that answers or times out, and  *)
(* ctrl-c, which the loop listens to in the same select! as the ticker.    *)
(* TradingDaemon refines what happens to one snapshot; here it is a step.  *)
(*                                                                         *)
(* Of tokio the model keeps: the two futures of select! are created anew   *)
(* in each iteration and dropped before a branch runs; they are polled in  *)
(* random order until one is ready; polling ctrl_c() for the first time    *)
(* installs the process's SIGINT handler for good (before that SIGINT      *)
(* kills) and subscribes to signals from then on.  Work on the processor   *)
(* takes no time; only the ticker and the network do.                      *)
(***************************************************************************)
EXTENDS VenueReply, Launch

CONSTANTS
    AssetList,      \* settings.strategy.assets
    Period,         \* settings.strategy.decision_interval_seconds
    Timeout         \* of the HTTP client, in the same unit

ASSUME LoopAssumption ==
    /\ AssetList \in Seq(Assets)
    /\ Period \in Nat \ {0} /\ Timeout \in Nat

VARIABLES
    pc,             \* where the process is
    layers,         \* its settings, as the sources give them
    allow_live,     \* its --allow-live flag
    client,         \* the client the gate chose
    queue,          \* assets this poll has still to visit, current one first
    snapshot,       \* what the callback is given
    due,            \* time until the ticker's deadline; negative when missed
    hang,           \* how long the current request has been out
    listener,       \* the ctrl_c() future: none, armed, or rung by a signal
    handler,        \* whether the process handles SIGINT
    since,          \* history: time since the last tick of this process
    asked           \* history: whether this process was sent a SIGINT

loopVars == <<pc, layers, allow_live, client, queue, snapshot, due, hang,
              listener, handler, since, asked>>

launched == <<layers, allow_live, client>>
timer == <<due, since>>
signals == <<listener, handler, asked>>

-----------------------------------------------------------------------------
\* No process.  A new one starts with a ticker whose first tick is due at once
\* and with SIGINT at its default.
LoopInit ==
    /\ pc = "down"
    /\ layers = <<>> /\ allow_live = FALSE /\ client = "refused"
    /\ queue = <<>> /\ snapshot = Failed
    /\ due = 0 /\ since = Period /\ hang = 0
    /\ listener = "none" /\ handler = FALSE /\ asked = FALSE

\* run up to the loop: load the settings, pass the gate, build the client.  A
\* launch that is refused, or fails in a read or in the signer's set-up, leaves
\* no trace.
Start ==
    /\ pc = "down"
    /\ \E sources \in [1 .. 3 -> Source], flag \in BOOLEAN :
           /\ layers' = sources /\ allow_live' = flag
           /\ client' = ClientFor(sources, flag)
           /\ client' # "refused"
    /\ pc' = "select"
    /\ UNCHANGED <<queue, snapshot, timer, hang, signals>>

\* select! with the deadline ahead: both futures are polled and both wait.
Await ==
    /\ pc = "select" /\ due > 0
    /\ pc' = "wait"
    /\ listener' = "armed" /\ handler' = TRUE
    /\ UNCHANGED <<launched, queue, snapshot, timer, hang, asked>>

\* Variant with a bug: MissedTickBehavior::Burst, tokio's default.
BurstDue == due + Period

\* MissedTickBehavior::Delay: a whole period from the tick, however late.
NextDue == Period

\* ticker.tick() is ready.  In the first pass ctrl_c() may have been polled
\* before it; either way its future is dropped, and with it a signal it has
\* just received, before poll_once starts.
Tick ==
    /\ pc \in {"select", "wait"} /\ due <= 0
    /\ pc' = "fetch"
    /\ queue' = AssetList
    /\ due' = NextDue /\ since' = 0
    /\ hang' = 0
    /\ listener' = "none"
    /\ handler' \in {handler, TRUE}
    /\ UNCHANGED <<launched, snapshot, asked>>

\* Variant with a bug: the loop goes on after ctrl-c.
HeedAndGoOn ==
    /\ pc = "wait" /\ listener = "rung"
    /\ pc' = "select" /\ listener' = "none"
    /\ UNCHANGED <<launched, queue, snapshot, timer, hang, handler, asked>>

\* The process ends; everything it held is gone.
End ==
    /\ pc' = "down"
    /\ layers' = <<>> /\ allow_live' = FALSE /\ client' = "refused"
    /\ queue' = <<>> /\ snapshot' = Failed
    /\ due' = 0 /\ since' = Period /\ hang' = 0
    /\ listener' = "none" /\ handler' = FALSE /\ asked' = FALSE

\* ctrl_c() is ready: poll_loop returns Ok and so does main.
Heed == pc = "wait" /\ listener = "rung" /\ End

-----------------------------------------------------------------------------
(* poll_once *)

\* The venue answers: a snapshot for the callback, or a reason to move on.
Answer ==
    /\ pc = "fetch" /\ queue # <<>>
    /\ \E reply \in Replies \cup {Failed} :
           snapshot' = IF reply = Failed THEN Failed
                       ELSE MarketSnapshot(reply, Head(queue))
    /\ IF snapshot' = Failed
       THEN queue' = Tail(queue) /\ pc' = "fetch"
       ELSE UNCHANGED queue /\ pc' = "callback"
    /\ hang' = 0
    /\ UNCHANGED <<launched, timer, signals>>

\* Variant with a bug: nobody gives up, the loop waits for an answer.
HangOn ==
    /\ pc = "fetch" /\ queue # <<>> /\ hang >= Timeout
    /\ UNCHANGED loopVars

\* reqwest gives up; the asset is skipped.
FetchTimesOut ==
    /\ pc = "fetch" /\ queue # <<>> /\ hang >= Timeout
    /\ queue' = Tail(queue) /\ hang' = 0
    /\ UNCHANGED <<launched, pc, snapshot, timer, signals>>

\* on_snapshot returns.
Return ==
    /\ pc = "callback"
    /\ pc' = "fetch"
    /\ queue' = Tail(queue) /\ snapshot' = Failed
    /\ UNCHANGED <<launched, hang, timer, signals>>

\* Every asset was visited: the next iteration of the loop.
RoundDone ==
    /\ pc = "fetch" /\ queue = <<>>
    /\ pc' = "select"
    /\ UNCHANGED <<launched, queue, snapshot, hang, timer, signals>>

-----------------------------------------------------------------------------
(* Time, the user and the supervisor *)

\* Variant with a bug: a client without a timeout.
Patient == TRUE

\* Variant with a bug: one unit too many.
InTimeInclusive == hang <= Timeout

\* Whether the request may stay out for another unit.
InTime == hang < Timeout

\* One unit of time, while the process has nothing ready to run.
Pass ==
    /\ \/ pc = "wait" /\ due > 0 /\ listener = "armed" /\ UNCHANGED hang
       \/ pc = "fetch" /\ queue # <<>> /\ InTime /\ hang' = hang + 1
    /\ due' = due - 1 /\ since' = since + 1
    /\ UNCHANGED <<launched, pc, queue, snapshot, signals>>

\* A SIGINT.  One that no future listens for is swallowed by the handler.
\* (One that arrives when poll_once is about to return may be broadcast only
\* after the next select! began: the same as arriving then.)
SigInt ==
    /\ pc # "down" /\ handler
    /\ asked' = TRUE
    /\ listener' = IF listener = "armed" THEN "rung" ELSE listener
    /\ UNCHANGED <<launched, pc, queue, snapshot, timer, hang, handler>>

\* A SIGINT before there is a handler, a SIGTERM, a crash.
Kill == pc # "down" /\ End

-----------------------------------------------------------------------------
\* What the runtime does by itself.
Runtime ==
    Await \/ Tick \/ Heed \/ FetchTimesOut \/ Return \/ RoundDone \/ Pass

LoopNext == Runtime \/ Answer \/ Start \/ SigInt \/ Kill

LoopSpec == LoopInit /\ [][LoopNext]_loopVars

\* The scheduler, the clock and the HTTP client's timer do not stop.  Nobody
\* has to answer, signal, start or kill.
FairLoopSpec == LoopSpec /\ WF_loopVars(Runtime)

-----------------------------------------------------------------------------
(* Properties *)

Larger(m, n) == IF m < n THEN n ELSE m

\* Every variable has its type; a request is out only inside a poll, and a
\* listener exists only in select!.
LoopTypeOK ==
    /\ pc \in {"down", "select", "wait", "fetch", "callback"}
    /\ layers \in [1 .. 3 -> Source] \cup {<<>>}
    /\ allow_live \in BOOLEAN
    /\ client \in {"reader", "signer", "refused"}
    /\ queue \in Seq(Assets)
    /\ due \in Int /\ since \in Nat /\ hang \in 0 .. Timeout
    /\ listener \in {"none", "armed", "rung"}
    /\ handler \in BOOLEAN /\ asked \in BOOLEAN
    /\ listener # "none" => pc = "wait" /\ handler

\* However long the polls take, two ticks of one process are at least a period
\* apart: missed ticks are not made up for.
NoBurst == [][pc' = "fetch" /\ queue = <<>> /\ queue' # <<>> => since >= Period]_loopVars

\* "Without [the timeout] a hung API would stall the poll loop indefinitely":
\* with it, an asset is reached at most one timeout late per asset before it,
\* and between two ticks no more passes than a period or a round of timeouts.
RoundBounded ==
    /\ pc \in {"fetch", "callback"} =>
           since <= (Len(AssetList) - Len(queue)) * Timeout
                        + (IF pc = "callback" THEN Timeout ELSE hang)
    /\ since <= Larger(Period, Len(AssetList) * Timeout)

\* The callback is given the market's own rate and mid of the asset that was
\* asked for, under the name it was asked by, whatever the answer looks like:
\* arrays of unequal length, in any order, assets not listed, mids missing.
QuoteIsOfAsset ==
    pc = "callback" =>
        /\ snapshot.asset = Head(queue)
        /\ Upper[snapshot.asset] \in DOMAIN Market
        /\ snapshot.rate = Market[Upper[snapshot.asset]].rate
        /\ snapshot.mid = Market[Upper[snapshot.asset]].mid

\* "Both config AND the flag must be present to enable signed orders": a loop
\* runs with a signing client only if it was started with --allow-live, some
\* source turns dry_run off, no later source turns it on again, and the last
\* key given is usable.
SigningIsExplicit ==
    client = "signer" =>
        /\ allow_live
        /\ \E i \in 1 .. 3 : /\ layers[i].dry_run = FALSE
                             /\ \A j \in i .. 3 : layers[j].dry_run # TRUE
        /\ \E i \in 1 .. 3 : /\ layers[i].secret_key = "valid"
                             /\ \A j \in i .. 3 : layers[j].secret_key # "garbage"

\* A ctrl-c that finds the loop waiting, and the next tick not due, ends it.
HeededWhenWaiting == (listener = "rung" /\ due > 0) ~> (pc = "down")

\* "Run the poll loop until ctrl-c": a ctrl-c ends the process.
CtrlCStops == asked ~> (pc = "down")

\* The loop goes through the assets again and again until it is ended.
Rounds == INSTANCE PollRounds WITH alive <- pc # "down", pending <- queue
ImplementsRounds == Rounds!FairRoundsSpec

-----------------------------------------------------------------------------
(* The inductive invariant behind the safety theorems *)

\* The ticker's deadline is a period after the last tick; a request is out
\* only inside a poll; what is left of a poll is never longer than the list.
Timed ==
    /\ due = Period - since
    /\ pc = "callback" => hang = 0
    /\ pc \in {"down", "select", "wait"} => queue = <<>>
    /\ pc = "callback" => queue # <<>>
    /\ Len(queue) <= Len(AssetList)

LoopInv ==
    /\ LoopTypeOK /\ Timed /\ RoundBounded /\ QuoteIsOfAsset /\ SigningIsExplicit

=============================================================================
