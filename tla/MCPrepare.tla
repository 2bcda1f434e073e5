------------------------------ MODULE MCPrepare -----------------------------
(***************************************************************************)
(* Two data sources with the same static feed: the first has a feed of     *)
(* vehicle positions too, the second trip updates and alerts.              *)
(***************************************************************************)
EXTENDS Prepare

CONSTANTS s1, s2, u

TwoSources == <<s1, s1, s2, s2, s2>>
OneStaticUrl == <<u, NoUrl, u, NoUrl, NoUrl>>
AnyConcurrency == {-1, 0, 1, 2}
=============================================================================
