-------------------------- MODULE MCCreatorIdentity --------------------------
(***************************************************************************)
(* Instances of CreatorIdentity for TLC.  A unit of time is a day; the lock *)
(* and the month in which a wallet cancels once are shortened, their order  *)
(* kept.  Every manifest names a wallet of its own, but m4, which takes the  *)
(* first one back.                                                          *)
(***************************************************************************)
EXTENDS CreatorIdentity

CONSTANTS wa, wb, wc, m1, m2, m3, m4, s1, s2

MCWalletOf == [m \in Manifests |-> CASE m \in {m1, m4} -> wa [] m = m2 -> wb [] m = m3 -> wc]
=============================================================================
