----------------------------- MODULE VenueReply -----------------------------
(***************************************************************************)
(* HyperliquidClient::market_snapshot: how one funding rate and mid are    *)
(* found in the answer to metaAndAssetCtxs, which holds two arrays side by *)
(* side: the names of the universe and, at the same index, their contexts. *)
(***************************************************************************)
EXTENDS PerpsTypes, SequencesExt

CONSTANTS
    Market,     \* the venue's truth: [rate, mid] of each asset it lists
    NoMid,      \* midPx is null or absent
    Failed      \* Err(VenueError)

\* The venue lists each asset once, in upper case.
ASSUME MarketAssumption ==
    \A name \in DOMAIN Market : name \in Assets /\ Upper[name] = name

\* Answers that reach the parser: the listed assets the venue chooses to name,
\* in any order, a context for as many of them as it pleases, some without mid.
Context(name, unpriced) ==
    [funding |-> Market[name].rate,
     midPx |-> IF name \in unpriced THEN NoMid ELSE Market[name].mid]

Reply(names, n, unpriced) ==
    [universe |-> names, ctxs |-> [i \in 1 .. n |-> Context(names[i], unpriced)]]

RepliesNaming(names) ==
    {Reply(names, n, unpriced) : n \in 0 .. Len(names), unpriced \in SUBSET Range(names)}

Orders == UNION {SetToSeqs(S) : S \in SUBSET DOMAIN Market}

Replies == UNION {RepliesNaming(names) : names \in Orders}

\* The index of the first name that matches, as a set: none or one.
FirstMatch(universe, asset) ==
    {i \in DOMAIN universe : /\ SameAsset(universe[i], asset)
                             /\ \A j \in 1 .. i - 1 : ~ SameAsset(universe[j], asset)}

ContextAt(ctxs, indices) ==
    LET found == indices \cap DOMAIN ctxs
    IN IF found = {} THEN Failed ELSE ctxs[CHOOSE i \in found : TRUE]

\* Variant with a bug: contexts without a mid are skipped before indexing.
CtxAmongPriced(reply, asset) ==
    ContextAt(SelectSeq(reply.ctxs, LAMBDA c : c.midPx # NoMid),
        FirstMatch(reply.universe, asset))

\* ctx_for: the context at that index, if there are so many.
CtxFor(reply, asset) == ContextAt(reply.ctxs, FirstMatch(reply.universe, asset))

\* extract_funding, extract_mid_price, and the snapshot under the asked name.
\* (A context without a funding string fails the whole answer, as does one
\* that is no success or no JSON; market_snapshot's caller treats all alike.)
MarketSnapshot(reply, asset) ==
    LET ctx == CtxFor(reply, asset)
    IN IF ctx = Failed THEN Failed
       ELSE IF ctx.midPx = NoMid THEN Failed
       ELSE [asset |-> asset, rate |-> ctx.funding, mid |-> ctx.midPx]

=============================================================================
