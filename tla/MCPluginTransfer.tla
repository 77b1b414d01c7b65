-------------------------- MODULE MCPluginTransfer --------------------------
(* Values for TLC: two offers of two versions; the last chunk of one is lost. *)
EXTENDS PluginTransfer, TLC

CONSTANTS o1, o2, v1, v2

OneLost == {o1} \X {0, 1, 2} \union {o2} \X {0, 1}
TwoVersions == o1 :> v1 @@ o2 :> v2
=============================================================================
