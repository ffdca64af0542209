---------------------------- MODULE MCFormatProbe ----------------------------
(* FormatProbe with one file that two calls probe.                          *)
EXTENDS FormatProbe, TLC

MCBatch == {<<"a">>}
MCContent == [v \in Version |-> [magic |-> <<"signature", "nested", "header">>[v],
                                valid |-> v # 3]]

Symmetry == Permutations(Call)
=============================================================================
