----------------------------- MODULE MCNavigation -----------------------------
(* Navigation for TLC: a channel in the sidebar with a thread of one reply,   *)
(* another in it, and a channel with a post that has to be found and joined.  *)
EXTENDS Navigation, TLC

CONSTANTS near, side, far, root, reply, away

MCHome == root :> near @@ reply :> near @@ away :> far
MCRootOf == root :> None @@ reply :> root @@ away :> None
===============================================================================
