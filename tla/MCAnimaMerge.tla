----------------------------- MODULE MCAnimaMerge -----------------------------
(* One recovered journal, which the merge turns into an episode, and two    *)
(* episodes of one day that cite each other.  The target holds none of    *)
(* them, but may write files of its own under their names.                  *)
EXTENDS AnimaMerge, TLC

CONSTANTS g, a, b, d

MCFileSeq == <<g, a, b>>
MCDate == (g :> NoDate) @@ (a :> d) @@ (b :> d)
MCRef == (g :> g) @@ (a :> b) @@ (b :> a)
MCHoldings == {[f \in Files |-> "none"]}
=============================================================================
