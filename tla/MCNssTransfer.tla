---------------------------- MODULE MCNssTransfer ----------------------------
(***************************************************************************)
(* Values for NssTransfer: a file and a directory that are in both folders.*)
(***************************************************************************)
EXTENDS NssTransfer

MCInside == [d \in {"t"} |-> {"x"}]
MCOriginal == {<<"f", "a">>, <<"f", "t">>, <<"g", "a">>, <<"g", "t">>}

=============================================================================
