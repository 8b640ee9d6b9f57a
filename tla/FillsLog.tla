------------------------------ MODULE FillsLog ------------------------------
(***************************************************************************)
(* fills.jsonl, the only durable state a respawned bot reads: what one     *)
(* append can leave in the file (perps-executor) and which positions a     *)
(* reader finds in it (perps-bot/src/pnl.rs).                              *)
(*                                                                         *)
(* The file is a sequence of lines plus one bit, `sealed`: whether the     *)
(* last line ends in its newline.  A line is a fill that parses, or Torn.  *)
(* writeln! on an unbuffered File issues the line and its newline as two   *)
(* write calls, so an append that fails half-way can leave a prefix of the *)
(* line, or the whole line without its newline; the next append then       *)
(* continues that same line.                                               *)
(***************************************************************************)
EXTENDS PerpsTypes, Sequences

CONSTANT Torn       \* a line serde_json cannot parse as a Fill

ASSUME TornAssumption == Torn \notin Fill

Line == Fill \cup {Torn}

-----------------------------------------------------------------------------
(* Writing *)

\* ok: Ok(()).  refused: Err, nothing written.  short: Err or a crash after
\* part of the line.  noeol: Err or a crash after the line, before "\n".
Outcomes == {"ok", "refused", "short", "noeol"}

\* Variant with a bug: the file is opened for writing, not for appending.
OverwriteText(lines, sealed, text) ==
    IF lines = <<>> THEN <<text>> ELSE [lines EXCEPT ![1] = text]

\* New text starts a line of its own only after a newline.  Glued to an
\* unfinished line it makes one line that no longer parses.
AddText(lines, sealed, text) ==
    IF sealed THEN Append(lines, text)
    ELSE [lines EXCEPT ![Len(lines)] = Torn]

\* perps_executor::append
LinesAfter(lines, sealed, fill, outcome) ==
    IF outcome = "refused" THEN lines
    ELSE AddText(lines, sealed, IF outcome = "short" THEN Torn ELSE fill)

SealedAfter(sealed, outcome) ==
    \/ outcome = "ok"
    \/ outcome = "refused" /\ sealed

-----------------------------------------------------------------------------
(* Reading *)

\* The lines read_fills keeps; it skips what does not parse.
Whole(lines) == {i \in DOMAIN lines : lines[i] # Torn}

\* Variant with a bug: fills with equal stamps are swapped.
BeforeUnstable(lines, i, j) ==
    \/ lines[i].filled_at < lines[j].filled_at
    \/ lines[i].filled_at = lines[j].filled_at /\ j < i

\* The order after sort_by_key(filled_at), which is stable.
Before(lines, i, j) ==
    \/ lines[i].filled_at < lines[j].filled_at
    \/ lines[i].filled_at = lines[j].filled_at /\ i < j

\* Variant with a bug: a Close does not end the Open before it.
LatestOpenOfAsset(lines, i) ==
    \A j \in Whole(lines) \ {i} :
        SameAsset(lines[j].asset, lines[i].asset) /\ lines[j].intent = "open"
            => Before(lines, j, i)

\* No fill of the same asset comes after line i.
LatestOfAsset(lines, i) ==
    \A j \in Whole(lines) \ {i} :
        SameAsset(lines[j].asset, lines[i].asset) => Before(lines, j, i)

\* The position an open fill stands for.
PositionOf(fill) == [asset |-> fill.asset, side |-> fill.side,
                     size |-> fill.size, entry_price |-> fill.price]

\* Variant with a bug: one Close hides every Open of its asset.
RestoreNeverClosed(lines) ==
    {PositionOf(lines[i]) :
        i \in {j \in Whole(lines) :
                  \A m \in Whole(lines) :
                      SameAsset(lines[m].asset, lines[j].asset)
                          => lines[m].intent = "open"}}

\* restore_portfolio: pair_fills leaves open exactly the assets whose last
\* fill is an Open (FillPairing checks this against the code's fold).
Restore(lines) ==
    {PositionOf(lines[i]) :
        i \in {j \in Whole(lines) : lines[j].intent = "open" /\ LatestOfAsset(lines, j)}}

=============================================================================
