-------------------------- MODULE MCServiceExecutor --------------------------
(* Values for TLC: one slot, two requests with one hash, one of them with a    *)
(* tip, a third with another, which may be the same transaction in other case. *)
EXTENDS ServiceExecutor, TLC

CONSTANTS r1, r2, r3, r4, h1, h2, k1

PayAll == r1 :> h1 @@ r2 :> h1 @@ r3 :> h2 @@ r4 :> Free
Tips == r1 :> 0 @@ r2 :> 1 @@ r3 :> 0 @@ r4 :> 0
OnePeer == [r \in Request |-> k1]
=============================================================================
