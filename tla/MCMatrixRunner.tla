--------------------------- MODULE MCMatrixRunner ---------------------------
(***************************************************************************)
(* Small instances of MatrixRunner for TLC: three of the eight lanes.      *)
(***************************************************************************)
EXTENDS MatrixRunner

MCAllServices == <<"rust-receiver", "python-receiver", "spring-virtual-receiver">>
MCStrictServices == <<"rust-receiver", "python-receiver">>
MCServiceLists ==
    {<<"rust-receiver", "rust-receiver">>, <<"python-receiver">>,
     <<"rust-receiver", "spring-virtual-receiver">>}
=============================================================================
