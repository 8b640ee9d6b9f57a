--------------------------- MODULE PollLoopProofs ---------------------------
(***************************************************************************)
(* Proofs about PollLoop, for every list of assets, period, timeout and    *)
(* market.  The argument: the deadline is always one period after the last *)
(* tick, so a tick that is due comes a period later; and each asset of a   *)
(* round adds at most one timeout to the time since that tick.             *)
(***************************************************************************)
EXTENDS PollLoop, SequenceTheorems, TLAPS

-----------------------------------------------------------------------------
(* The gate *)

\* The last source that mentions a key, and what it is set to.
LEMMA LastMention ==
  ASSUME NEW sources \in [1 .. 3 -> Source], NEW key, NEW default,
         Mentions(sources, key) # {}
  PROVE  \E i \in 1 .. 3 :
             /\ Setting(sources, default, key) = sources[i][key]
             /\ \A j \in 1 .. 3 : j > i => sources[j][key] = Unset
<1> DEFINE S == Mentions(sources, key)
<1>1. S \subseteq 1 .. 3 /\ S # {}
  BY DEF Mentions
<1>2. \E x \in S : \A y \in S : x >= y
  BY <1>1
<1>3. Max(S) \in S /\ \A y \in S : Max(S) >= y
  BY <1>2 DEF Max
<1>4. \A j \in 1 .. 3 : j > Max(S) => j \notin S
  BY <1>1, <1>3
<1>5. \A j \in 1 .. 3 : j \notin S => sources[j][key] = Unset
  BY DEF Mentions
<1> QED
  BY <1>1, <1>3, <1>4, <1>5 DEF Setting

\* ClientFor returns one of the three outcomes, and a signer only with the flag and
\* with settings that ask for one.
LEMMA SignerIsExplicit ==
  ASSUME NEW sources \in [1 .. 3 -> Source], NEW flag \in BOOLEAN,
         ClientFor(sources, flag) = "signer"
  PROVE  /\ flag
         /\ \E i \in 1 .. 3 : /\ sources[i].dry_run = FALSE
                              /\ \A j \in i .. 3 : sources[j].dry_run # TRUE
         /\ \E i \in 1 .. 3 : /\ sources[i].secret_key = "valid"
                              /\ \A j \in i .. 3 : sources[j].secret_key # "garbage"
<1>1. /\ DryRun(sources) = FALSE /\ SecretKey(sources) = "valid" /\ flag
  BY DEF ClientFor
<1>2. \A i \in 1 .. 3 : /\ sources[i].dry_run = sources[i]["dry_run"]
                        /\ sources[i].secret_key = sources[i]["secret_key"]
  OBVIOUS
<1>3. Mentions(sources, "dry_run") # {}
  BY <1>1 DEF DryRun, Setting
<1>4. Mentions(sources, "secret_key") # {}
  BY <1>1, UnsetAssumption DEF SecretKey, Setting
<1>m. \A key, default : Mentions(sources, key) # {} =>
          \E i \in 1 .. 3 :
              /\ Setting(sources, default, key) = sources[i][key]
              /\ \A j \in 1 .. 3 : j > i => sources[j][key] = Unset
  BY LastMention, Zenon
<1>5. PICK i \in 1 .. 3 :
          /\ Setting(sources, TRUE, "dry_run") = sources[i]["dry_run"]
          /\ \A j \in 1 .. 3 : j > i => sources[j]["dry_run"] = Unset
  BY <1>3, <1>m, Zenon
<1>6. PICK k \in 1 .. 3 :
          /\ Setting(sources, Unset, "secret_key") = sources[k]["secret_key"]
          /\ \A j \in 1 .. 3 : j > k => sources[j]["secret_key"] = Unset
  BY <1>4, <1>m, Zenon
<1>7. sources[i].dry_run = FALSE /\ \A j \in i .. 3 : sources[j].dry_run # TRUE
  <2>1. \A j \in i .. 3 : j = i \/ (j \in 1 .. 3 /\ j > i)
    OBVIOUS
  <2>2. sources[i].dry_run = FALSE /\ Unset # TRUE
    BY <1>1, <1>2, <1>5, UnsetAssumption, Zenon DEF DryRun
  <2>3. \A j \in 1 .. 3 : j > i => sources[j].dry_run = Unset
    BY <1>2, <1>5, Zenon
  <2> QED
    BY <2>1, <2>2, <2>3, Zenon
<1>8. sources[k].secret_key = "valid" /\ \A j \in k .. 3 : sources[j].secret_key # "garbage"
  <2>1. \A j \in k .. 3 : j = k \/ (j \in 1 .. 3 /\ j > k)
    OBVIOUS
  <2> QED
    BY <1>1, <1>2, <1>6, <2>1, UnsetAssumption DEF SecretKey
<1> QED
  BY <1>1, <1>7, <1>8

-----------------------------------------------------------------------------
(* The reply *)

\* Whatever the reply, a snapshot is the market's of the asset asked for.
LEMMA SnapshotOfAsset ==
  ASSUME NEW reply \in Replies, NEW asset \in Assets,
         MarketSnapshot(reply, asset) # Failed
  PROVE  LET quote == MarketSnapshot(reply, asset)
         IN /\ quote.asset = asset
            /\ Upper[asset] \in DOMAIN Market
            /\ quote.rate = Market[Upper[asset]].rate
            /\ quote.mid = Market[Upper[asset]].mid
<1>1. PICK names \in Orders : reply \in RepliesNaming(names)
  BY DEF Replies
<1>2. PICK n \in 0 .. Len(names), unpriced \in SUBSET Range(names) :
          reply = Reply(names, n, unpriced)
  BY <1>1 DEF RepliesNaming
<1>3. \A i \in DOMAIN names : names[i] \in DOMAIN Market
  BY DEF Orders, SetToSeqs
<1>4. CtxFor(reply, asset) # Failed
  BY DEF MarketSnapshot
<1>5. PICK i \in DOMAIN names :
          /\ i \in 1 .. n /\ SameAsset(names[i], asset)
          /\ CtxFor(reply, asset) = Context(names[i], unpriced)
  <2> DEFINE found == FirstMatch(reply.universe, asset) \cap DOMAIN reply.ctxs
  <2>1. found # {} /\ CtxFor(reply, asset) = reply.ctxs[CHOOSE i \in found : TRUE]
    BY <1>4 DEF CtxFor, ContextAt
  <2>2. PICK i \in found : CtxFor(reply, asset) = reply.ctxs[i]
    BY <2>1
  <2>3. i \in DOMAIN names /\ SameAsset(names[i], asset) /\ i \in 1 .. n
    BY <1>2 DEF FirstMatch, Reply
  <2>4. reply.ctxs[i] = Context(names[i], unpriced)
    BY <1>2, <2>3 DEF Reply
  <2> QED
    BY <2>2, <2>3, <2>4
<1>6. names[i] \in DOMAIN Market /\ Upper[asset] = names[i]
  BY <1>3, <1>5, MarketAssumption DEF SameAsset
<1>7. CtxFor(reply, asset).midPx # NoMid
  BY <1>4 DEF MarketSnapshot
<1>8. MarketSnapshot(reply, asset) =
          [asset |-> asset, rate |-> CtxFor(reply, asset).funding,
           mid |-> CtxFor(reply, asset).midPx]
  BY <1>4, <1>7 DEF MarketSnapshot
<1> QED
  BY <1>5, <1>6, <1>7, <1>8 DEF Context

-----------------------------------------------------------------------------
(* The loop *)

\* A launch has passed the gate.
LEMMA ClientType ==
  ASSUME NEW sources \in [1 .. 3 -> Source], NEW flag \in BOOLEAN
  PROVE  ClientFor(sources, flag) \in {"reader", "signer", "refused"}
  BY DEF ClientFor

\* One more asset visited is one more timeout allowed for.
LEMMA OneMore ==
  ASSUME NEW n \in Int, NEW t \in Int
  PROVE  (n + 1) * t = n * t + t
  OBVIOUS

\* Fewer assets than the list has, a shorter time than the list takes.
LEMMA NoMoreThanAll ==
  ASSUME NEW m \in Nat, NEW n \in 0 .. m, NEW t \in Nat
  PROVE  n * t \in Nat /\ m * t \in Nat /\ n * t <= m * t
  OBVIOUS

\* What is left of the queue after its head.
LEMMA TailOfQueue ==
  ASSUME NEW q \in Seq(Assets), q # <<>>
  PROVE  Tail(q) \in Seq(Assets) /\ Len(Tail(q)) = Len(q) - 1 /\ Head(q) \in Assets
  OBVIOUS

\* Without a process there is nothing to be wrong about.
LEMMA DownInvariant ==
  ASSUME pc = "down", layers = <<>>, allow_live = FALSE, client = "refused", queue = <<>>,
         due = 0, since = Period, hang = 0,
         listener = "none", handler = FALSE, asked = FALSE
  PROVE  LoopInv
<1> USE LoopAssumption
<1>1. LoopTypeOK
  <2>1. layers \in [1 .. 3 -> Source] \cup {<<>>}
    BY Zenon
  <2>2. queue \in Seq(Assets)
    OBVIOUS
  <2>3. due \in Int /\ since \in Nat /\ hang \in 0 .. Timeout
    OBVIOUS
  <2> QED
    BY <2>1, <2>2, <2>3, Zenon DEF LoopTypeOK
<1>2. Timed
  BY DEF Timed
<1>3. RoundBounded
  <2>1. Len(AssetList) * Timeout \in Int
    OBVIOUS
  <2> QED
    BY <2>1 DEF RoundBounded, Larger
<1> QED
  BY <1>1, <1>2, <1>3 DEF LoopInv, QuoteIsOfAsset, SigningIsExplicit

\* The invariant holds before the first start.
LEMMA LoopInitInvariant == LoopInit => LoopInv
  BY DownInvariant DEF LoopInit

\* The end of a process brings that state back.
LEMMA EndInvariant == End => LoopInv'
<1> SUFFICES ASSUME End PROVE LoopInv'
  OBVIOUS
<1> USE LoopAssumption DEF End
<1>1. LoopTypeOK'
  <2>1. layers' \in [1 .. 3 -> Source] \cup {<<>>}
    BY Zenon
  <2>2. queue' \in Seq(Assets)
    OBVIOUS
  <2>3. due' \in Int /\ since' \in Nat /\ hang' \in 0 .. Timeout
    OBVIOUS
  <2> QED
    BY <2>1, <2>2, <2>3, Zenon DEF LoopTypeOK
<1>2. Timed'
  BY DEF Timed
<1>3. RoundBounded'
  <2>1. Len(AssetList) * Timeout \in Int
    OBVIOUS
  <2> QED
    BY <2>1 DEF RoundBounded, Larger
<1> QED
  BY <1>1, <1>2, <1>3 DEF LoopInv, QuoteIsOfAsset, SigningIsExplicit

\* Every step keeps the invariant.
LEMMA LoopNextInvariant == LoopInv /\ [LoopNext]_loopVars => LoopInv'
<1> SUFFICES ASSUME LoopInv, [LoopNext]_loopVars PROVE LoopInv'
  OBVIOUS
<1> USE LoopAssumption DEF launched, timer, signals
<1> DEFINE full == Len(AssetList) * Timeout
           visited == (Len(AssetList) - Len(queue)) * Timeout
           limit == Larger(Period, full)
<1>a. /\ LoopTypeOK /\ Timed /\ RoundBounded /\ QuoteIsOfAsset /\ SigningIsExplicit
      /\ Len(queue) \in Nat /\ Len(AssetList) \in Nat
  BY DEF LoopInv, LoopTypeOK
<1>b. full \in Nat /\ visited \in Nat /\ visited <= full
  <2>1. Len(AssetList) - Len(queue) \in 0 .. Len(AssetList)
    BY <1>a DEF Timed
  <2> QED
    BY <1>a, <2>1, NoMoreThanAll
<1>c. limit \in Nat /\ Period <= limit /\ full <= limit
  BY <1>b DEF Larger
<1>d. /\ pc \in {"fetch", "callback"} =>
             since <= visited + (IF pc = "callback" THEN Timeout ELSE hang)
      /\ since <= limit
  BY <1>a DEF RoundBounded
<1>e. ASSUME queue # <<>>, queue' = Tail(queue)
      PROVE  /\ queue' \in Seq(Assets) /\ Len(queue') = Len(queue) - 1
             /\ visited' = visited + Timeout
  <2>1. queue' \in Seq(Assets) /\ Len(queue') = Len(queue) - 1
    BY <1>a, <1>e, TailOfQueue DEF LoopTypeOK
  <2>2. Len(AssetList) - Len(queue') = (Len(AssetList) - Len(queue)) + 1
    BY <1>a, <2>1
  <2>3. visited' = ((Len(AssetList) - Len(queue)) + 1) * Timeout
    BY <2>2
  <2>4. Len(AssetList) - Len(queue) \in Int
    BY <1>a
  <2> QED
    BY <2>1, <2>3, <2>4, OneMore
<1>f. ASSUME queue # <<>> PROVE visited + Timeout <= full
  <2>1. Len(queue) >= 1
    BY <1>a, <1>f DEF LoopTypeOK
  <2>2. (Len(AssetList) - Len(queue)) + 1 \in 0 .. Len(AssetList)
    BY <1>a, <2>1 DEF Timed
  <2>3. ((Len(AssetList) - Len(queue)) + 1) * Timeout <= full
    BY <1>a, <2>2, NoMoreThanAll
  <2> QED
    BY <1>a, <2>3, OneMore
<1> HIDE DEF full, visited, limit
\* What is left to show of RoundBounded, with the products named.
<1>g. ASSUME /\ pc' \in {"fetch", "callback"} =>
                    since' <= visited' + (IF pc' = "callback" THEN Timeout ELSE hang')
             /\ since' <= limit
      PROVE  RoundBounded'
  BY <1>g DEF RoundBounded, full, visited, limit
<1>1. CASE Start
  <2>1. PICK sources \in [1 .. 3 -> Source], flag \in BOOLEAN :
            /\ layers' = sources /\ allow_live' = flag
            /\ client' = ClientFor(sources, flag)
            /\ client' # "refused"
    BY <1>1 DEF Start
  <2>2. client' \in {"reader", "signer", "refused"}
    BY <2>1, ClientType
  <2>3. LoopTypeOK'
    BY <1>1, <1>a, <2>1, <2>2 DEF Start, LoopTypeOK
  <2>4. Timed'
    BY <1>1, <1>a DEF Start, Timed
  <2>5. RoundBounded'
    BY <1>1, <1>d, <1>g DEF Start
  <2>6. QuoteIsOfAsset'
    BY <1>1 DEF Start, QuoteIsOfAsset
  <2>7. SigningIsExplicit'
    BY <2>1, SignerIsExplicit, Zenon DEF SigningIsExplicit
  <2> QED
    BY <2>3, <2>4, <2>5, <2>6, <2>7 DEF LoopInv
<1>2. CASE Await
  BY <1>2, <1>a DEF Await, LoopInv, LoopTypeOK, Timed, RoundBounded,
     QuoteIsOfAsset, SigningIsExplicit
<1>3. CASE Tick
  <2>1. LoopTypeOK'
    <3>1. /\ UNCHANGED <<layers, allow_live, client, asked>> /\ pc' = "fetch" /\ queue' = AssetList
          /\ due' = Period /\ since' = 0 /\ hang' = 0 /\ listener' = "none"
          /\ handler' \in {handler, TRUE}
      BY <1>3 DEF Tick, NextDue
    <3>2. /\ layers \in [1 .. 3 -> Source] \cup {<<>>}
          /\ client \in {"reader", "signer", "refused"} /\ allow_live \in BOOLEAN
          /\ handler \in BOOLEAN /\ asked \in BOOLEAN
      BY <1>a DEF LoopTypeOK
    <3>3. /\ queue' \in Seq(Assets) /\ due' \in Int /\ since' \in Nat
          /\ hang' \in 0 .. Timeout
      BY <3>1
    <3>4. handler' \in BOOLEAN
      BY <3>1, <3>2
    <3> QED
      BY <3>1, <3>2, <3>3, <3>4, Zenon DEF LoopTypeOK
  <2>2. Timed'
    BY <1>3, <1>a DEF Tick, NextDue, Timed
  <2>3. RoundBounded'
    <3>1. visited' = 0
      BY <1>3, <1>a DEF Tick, visited
    <3> QED
      BY <1>3, <1>c, <1>g, <3>1 DEF Tick
  <2>4. QuoteIsOfAsset' /\ SigningIsExplicit'
    BY <1>3, <1>a DEF Tick, QuoteIsOfAsset, SigningIsExplicit
  <2> QED
    BY <2>1, <2>2, <2>3, <2>4 DEF LoopInv
<1>4. CASE Heed \/ Kill
  BY <1>4, EndInvariant DEF Heed, Kill
<1>5. CASE Answer
  <2>1. /\ pc = "fetch" /\ queue # <<>> /\ hang' = 0
        /\ UNCHANGED <<layers, allow_live, client, due, since, listener, handler, asked>>
    BY <1>5 DEF Answer
  <2>2. Head(queue) \in Assets
    BY <1>a, <2>1, TailOfQueue DEF LoopTypeOK
  <2>3. SigningIsExplicit'
    BY <1>a, <2>1 DEF SigningIsExplicit
  <2>4. CASE snapshot' = Failed
    <3>1. queue' = Tail(queue) /\ pc' = "fetch"
      BY <1>5, <2>4 DEF Answer
    <3>2. LoopTypeOK' /\ Timed'
      BY <1>a, <1>e, <2>1, <3>1 DEF LoopTypeOK, Timed
    <3>3. RoundBounded'
      <4>1. since <= visited + Timeout
        BY <1>a, <1>b, <1>d, <2>1 DEF LoopTypeOK
      <4>2. visited' = visited + Timeout
        BY <1>e, <2>1, <3>1
      <4> QED
        BY <1>b, <1>d, <1>g, <2>1, <3>1, <4>1, <4>2
    <3> QED
      BY <2>3, <3>1, <3>2, <3>3 DEF LoopInv, QuoteIsOfAsset
  <2>5. CASE snapshot' # Failed
    <3>1. queue' = queue /\ pc' = "callback"
      BY <1>5, <2>5 DEF Answer
    <3>2. PICK reply \in Replies : snapshot' = MarketSnapshot(reply, Head(queue))
      BY <1>5, <2>5 DEF Answer
    <3>3. QuoteIsOfAsset'
      BY <2>2, <2>5, <3>1, <3>2, SnapshotOfAsset DEF QuoteIsOfAsset
    <3>4. LoopTypeOK' /\ Timed'
      BY <1>a, <2>1, <3>1 DEF LoopTypeOK, Timed
    <3>5. RoundBounded'
      <4>1. since <= visited + Timeout /\ visited' = visited
        BY <1>a, <1>b, <1>d, <2>1, <3>1 DEF LoopTypeOK, visited
      <4> QED
        BY <1>d, <1>g, <2>1, <3>1, <4>1
    <3> QED
      BY <2>3, <3>3, <3>4, <3>5 DEF LoopInv
  <2> QED
    BY <2>4, <2>5
<1>6. CASE FetchTimesOut
  <2>1. /\ pc = "fetch" /\ pc' = "fetch" /\ queue # <<>> /\ queue' = Tail(queue)
        /\ hang' = 0 /\ UNCHANGED <<layers, allow_live, client, due, since, listener, handler, asked>>
    BY <1>6 DEF FetchTimesOut
  <2>2. LoopTypeOK' /\ Timed'
    BY <1>a, <1>e, <2>1 DEF LoopTypeOK, Timed
  <2>3. RoundBounded'
    <3>1. since <= visited + Timeout
      BY <1>a, <1>b, <1>d, <2>1 DEF LoopTypeOK
    <3> QED
      BY <1>b, <1>d, <1>e, <1>g, <2>1, <3>1
  <2> QED
    BY <1>a, <2>1, <2>2, <2>3 DEF LoopInv, QuoteIsOfAsset, SigningIsExplicit
<1>7. CASE Return
  <2>1. /\ pc = "callback" /\ pc' = "fetch" /\ queue # <<>> /\ queue' = Tail(queue)
        /\ hang = 0
        /\ UNCHANGED <<layers, allow_live, client, due, since, hang, listener, handler, asked>>
    BY <1>7, <1>a DEF Return, Timed
  <2>2. LoopTypeOK' /\ Timed'
    BY <1>a, <1>e, <2>1 DEF LoopTypeOK, Timed
  <2>3. RoundBounded'
    BY <1>b, <1>d, <1>e, <1>g, <2>1
  <2> QED
    BY <1>a, <2>1, <2>2, <2>3 DEF LoopInv, QuoteIsOfAsset, SigningIsExplicit
<1>8. CASE RoundDone
  BY <1>8, <1>a DEF RoundDone, LoopInv, LoopTypeOK, Timed, RoundBounded,
     QuoteIsOfAsset, SigningIsExplicit
<1>9. CASE Pass
  <2>1. /\ UNCHANGED <<layers, allow_live, client, pc, queue, snapshot, listener, handler, asked>>
        /\ due' = due - 1 /\ since' = since + 1
    BY <1>9 DEF Pass
  <2>2. visited' = visited
    BY <2>1 DEF visited
  <2>3. QuoteIsOfAsset' /\ SigningIsExplicit'
    BY <1>a, <2>1 DEF QuoteIsOfAsset, SigningIsExplicit
  <2>4. CASE pc = "wait" /\ due > 0 /\ UNCHANGED hang
    <3>1. since + 1 <= Period
      BY <1>a, <2>4 DEF LoopTypeOK, Timed
    <3>2. RoundBounded'
      BY <1>a, <1>c, <1>g, <2>1, <2>4, <3>1 DEF LoopTypeOK
    <3> QED
      BY <1>a, <2>1, <2>3, <2>4, <3>2 DEF LoopInv, LoopTypeOK, Timed
  <2>5. CASE pc = "fetch" /\ queue # <<>> /\ InTime /\ hang' = hang + 1
    <3>1. hang + 1 \in 0 .. Timeout
      BY <1>a, <2>5 DEF InTime, LoopTypeOK
    <3>2. since + 1 <= visited + (hang + 1) /\ since + 1 <= full
      BY <1>a, <1>b, <1>d, <1>f, <2>5, <3>1 DEF LoopTypeOK
    <3>3. RoundBounded'
      BY <1>a, <1>b, <1>c, <1>g, <2>1, <2>2, <2>5, <3>2 DEF LoopTypeOK
    <3> QED
      BY <1>a, <2>1, <2>3, <2>5, <3>1, <3>3 DEF LoopInv, LoopTypeOK, Timed
  <2> QED
    BY <1>9, <2>4, <2>5 DEF Pass
<1>10. CASE SigInt
  BY <1>10, <1>a DEF SigInt, LoopInv, LoopTypeOK, Timed, RoundBounded,
     QuoteIsOfAsset, SigningIsExplicit
<1>11. CASE UNCHANGED loopVars
  BY <1>11, <1>a DEF loopVars, LoopInv, LoopTypeOK, Timed, RoundBounded,
     QuoteIsOfAsset, SigningIsExplicit
<1> QED
  BY <1>1, <1>2, <1>3, <1>4, <1>5, <1>6, <1>7, <1>8, <1>9, <1>10, <1>11
     DEF LoopNext, Runtime

-----------------------------------------------------------------------------
(* Theorems *)

\* The invariant holds for every list of assets, period, timeout and market.
LEMMA LoopInvariance == LoopSpec => []LoopInv
  BY LoopInitInvariant, LoopNextInvariant, PTL DEF LoopSpec

\* Every variable of the loop has its type; a request is out only inside a
\* poll and a ctrl_c() future lives only while select! waits.
THEOREM LoopTypeCorrect == LoopSpec => []LoopTypeOK
<1>1. LoopInv => LoopTypeOK
  BY DEF LoopInv
<1> QED
  BY <1>1, LoopInvariance, PTL

\* An asset is reached at most one timeout late per asset before it, and no
\* more than a period, or a timeout per asset, passes between two ticks.
THEOREM RoundsAreBounded == LoopSpec => []RoundBounded
<1>1. LoopInv => RoundBounded
  BY DEF LoopInv
<1> QED
  BY <1>1, LoopInvariance, PTL

\* The callback is only ever given the market's rate and mid of the asset that
\* was asked for, whatever the venue's answer leaves out or reorders.
THEOREM QuotesAreOfAsset == LoopSpec => []QuoteIsOfAsset
<1>1. LoopInv => QuoteIsOfAsset
  BY DEF LoopInv
<1> QED
  BY <1>1, LoopInvariance, PTL

\* A loop with a signing client was launched with --allow-live, with dry_run
\* turned off by a source and not turned on again, and with a usable key.
THEOREM SigningNeedsSettings == LoopSpec => []SigningIsExplicit
<1>1. LoopInv => SigningIsExplicit
  BY DEF LoopInv
<1> QED
  BY <1>1, LoopInvariance, PTL

\* Two ticks of a process are a period apart, however long polls take.
THEOREM TicksNeverBurst == LoopSpec => NoBurst
<1> DEFINE Apart == pc' = "fetch" /\ queue = <<>> /\ queue' # <<>> => since >= Period
<1>1. LoopInv /\ [LoopNext]_loopVars => [Apart]_loopVars
  <2> SUFFICES ASSUME LoopInv, LoopNext, pc' = "fetch", queue = <<>>, queue' # <<>>
               PROVE  since >= Period
    OBVIOUS
  <2>1. Tick
    BY DEF LoopNext, Runtime, Start, Await, Heed, Kill, End, Answer, FetchTimesOut,
       Return, RoundDone, Pass, SigInt, LoopInv, Timed
  <2> QED
    BY <2>1, LoopAssumption DEF Tick, LoopInv, LoopTypeOK, Timed
<1>2. LoopSpec => [][Apart]_loopVars
  BY <1>1, LoopInvariance, PTL DEF LoopSpec
<1> QED
  BY <1>2 DEF NoBurst

\* Every step of the loop is a step of the rounds or leaves them unchanged:
\* no asset is skipped, repeated or put out of its turn within a round.
THEOREM LoopImplementsRounds == LoopSpec => Rounds!RoundsSpec
<1>1. LoopInit => Rounds!RoundsInit
  BY DEF LoopInit, Rounds!RoundsInit
<1>2. LoopInv /\ [LoopNext]_loopVars => [Rounds!RoundsNext]_Rounds!roundVars
  <2> SUFFICES ASSUME LoopInv, [LoopNext]_loopVars
               PROVE  [Rounds!RoundsNext]_Rounds!roundVars
    OBVIOUS
  <2> USE DEF Rounds!RoundsNext, Rounds!roundVars, launched, timer, signals
  <2>1. CASE Start
    BY <2>1 DEF Start, Rounds!Appear, LoopInv, Timed
  <2>2. CASE Tick
    BY <2>2 DEF Tick, Rounds!BeginRound, LoopInv, Timed
  <2>3. CASE Heed \/ Kill
    BY <2>3 DEF Heed, Kill, End, Rounds!Disappear
  <2>4. CASE Answer \/ FetchTimesOut \/ Return
    BY <2>4 DEF Answer, FetchTimesOut, Return, Rounds!Visit, LoopInv, Timed
  <2>5. CASE Await \/ RoundDone \/ Pass \/ SigInt \/ UNCHANGED loopVars
    BY <2>5 DEF Await, RoundDone, Pass, SigInt, loopVars
  <2> QED
    BY <2>1, <2>2, <2>3, <2>4, <2>5 DEF LoopNext, Runtime
<1> QED
  BY <1>1, <1>2, LoopInvariance, PTL DEF LoopSpec, Rounds!RoundsSpec

=============================================================================
