----------------------------- MODULE MCCollator -----------------------------
(***************************************************************************)
(* A small instance of Collator for TLC.                                   *)
(***************************************************************************)
EXTENDS Collator

MCAllServices == <<"go-receiver", "rust-receiver">>
MCServiceLists == {}

Called(mode) ==
    [preset |-> "custom", mode |-> mode, profile |-> Unset, acks |-> Unset,
     partitions |-> 0, knobs |-> Unset, services |-> <<>>, parity |-> FALSE]

Default == [Called(Unset) EXCEPT !.preset = Unset]

(* The default run is strict-1; the others are custom. *)
MCCallers == {Default, Called("confirm"), Called("enqueue"), Called("http-only")}

Clean(env) == MetaOf(Effective(env), "false", TRUE, "c1")
Unzoned(env) == MetaOf(Effective(env), "false", FALSE, "c1")
Dirty(env) == MetaOf(Effective(env), "true", TRUE, "c1")

(* Every mode, two candidates for the first and for the third run, a dirty *)
(* one, one whose time has no offset, and a strict one.                    *)
MCRecorded ==
    <<{Clean(Called("http-only")), Clean(Default)},
      {Clean(Called("http-only")), Dirty(Called("http-only")), Clean(Called("enqueue"))},
      {Clean(Called("confirm")), Unzoned(Called("confirm")), Clean(Called("http-only"))}>>

(* Three runs at unequal distances. *)
MCStampOf == <<10, 20, 26>>

(* docker run --cpus=2 --cpuset-cpus=0-2,4 *)
MCHost == [nano |-> 2, quota |-> 0, period |-> 0, cpuset |-> <<<<0, 2>>, <<4, 4>>>>]

Sample(pct) == [whole |-> TRUE, cpu |-> pct, mem |-> 10]
Cut == [whole |-> FALSE, cpu |-> 0, mem |-> 0]

Run(rate, receiver, kafka) == [rate |-> rate, latency |-> 1, receiver |-> receiver, kafka |-> kafka]

(* Go answers more requests, Rust needs less of the stack for each; the    *)
(* stats of a run of Rust may be cut short, and those of its broker lost.  *)
MCOutcomes ==
    [x \in DeliveryModes \X {"go-receiver", "rust-receiver"} |->
        CASE x = <<"http-only", "go-receiver">>   -> {Run(120, <<Sample(200)>>, <<>>)}
          [] x = <<"http-only", "rust-receiver">> -> {Run(100, <<Sample(100), Cut>>, <<>>)}
          [] x[2] = "go-receiver"                 -> {Run(60, <<Sample(100)>>, <<Sample(100)>>)}
          [] OTHER -> {Run(40, <<Sample(80)>>, <<Sample(10), Sample(30)>>),
                       Run(40, <<Sample(100)>>, <<>>)}]

=============================================================================
