-------------------------- MODULE MCSitePublisher --------------------------
(***************************************************************************)
(* A small instance of SitePublisher for TLC.  The summaries are computed  *)
(* from measurements with the collator's own operators.                    *)
(***************************************************************************)
EXTENDS SitePublisher

MCNameOrder == <<"go-receiver", "rust-receiver">>

(* The oldest is the legacy one, whose clock was so far ahead that it sorts *)
(* as the newest; the others are listed out of the order of their times.   *)
MCTimeOf == <<10, 30, 20>>
MCOffsetOf == <<25, 0, 0>>
MCStampOf == <<35, 30, 20>>

Sample(pct) == [whole |-> TRUE, cpu |-> pct, mem |-> 10]

(* Go answers more, Rust needs less of the stack for each request. *)
Go == [rate |-> 120, latency |-> 1, receiver |-> <<Sample(200)>>, kafka |-> <<>>]
Rust == [rate |-> 100, latency |-> 1, receiver |-> <<Sample(100)>>, kafka |-> <<>>]
Both == [s \in {"go-receiver", "rust-receiver"} |-> <<IF s = "go-receiver" THEN Go ELSE Rust>>]

(* The fields of a summary.json the builder reads. *)
Summary(mode, dirty, measured, comparison) ==
    [parses |-> TRUE, meta |-> [mode |-> mode, dirty |-> dirty],
     summary |-> AggregateRows(measured, 2), comparison |-> comparison]

(* A comparison whose http-only side answered nothing has no ratio. *)
NoRatio == {[rows |-> [s \in {"go-receiver"} |-> [retained |-> SafeRatio(100 * 120, 0)]]]}

(* An old run that does not say whether it was clean; a run that is clean, *)
(* or does not say; one that is dirty, or has a comparison with nothing,   *)
(* or a summary that was cut short.                                        *)
MCCaptures ==
    <<{Summary("confirm", "absent", Both, {})},
      {Summary("confirm", "false", Both, {}), Summary("confirm", "absent", Both, {})},
      {Summary("http-only", "true", Both, {}), Summary("http-only", "false", Both, NoRatio),
       [Summary("http-only", "false", Both, {}) EXCEPT !.parses = FALSE]}>>

(* Committed: a legacy snapshot that names the wrong service, and one that *)
(* is not published.                                                       *)
MCCommitted ==
    <<[BuildSnapshot(1, Summary("confirm", "absent", Both, {})) EXCEPT
          !.source = "committed-site-data", !.primary = "", !.best = "go-receiver",
          !.rows["go-receiver"].per_core = Missing, !.rows["go-receiver"].per_cpu_limit = 5,
          !.rows["rust-receiver"].per_core = Missing],
      [BuildSnapshot(3, Summary("http-only", "false", Both, {})) EXCEPT !.state = "preview"]>>

(* No ID, the legacy one between new ones, and one listed twice. *)
MCManifests == {<<>>, <<3, 1, 2>>, <<2, 2>>}
MCOverrides == {<<>>, <<1, 3>>}
=============================================================================
