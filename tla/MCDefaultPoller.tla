--------------------------- MODULE MCDefaultPoller ----------------------------
(* The pollers for TLC: three descriptors, two Channel objects for one of   *)
(* them, which may be exchanged.                                           *)
EXTENDS DefaultPoller, TLC

CONSTANTS c1, c2, c3, c4
MCfdOf == c1 :> 0 @@ c2 :> 0 @@ c3 :> 1 @@ c4 :> 2
MCSymmetry == Permutations({c1, c2})
=============================================================================
