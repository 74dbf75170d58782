---------------------------- MODULE MCFrontPool ----------------------------
(***************************************************************************)
(* Small instances of FrontPool for TLC.                                   *)
(***************************************************************************)
EXTENDS FrontPoolRefinement, TLC

CONSTANTS k1, k2, k3, A, B

\* One key of each provider, or one key only.
MCProviderOf2 == (k1 :> A) @@ (k2 :> B)
MCProviderOf1 == k1 :> A

UserSymmetry == Permutations(User)

\* With one key of each provider, the providers may be exchanged with their
\* keys, and the goroutines among themselves.
ProviderSwap == k1 :> k2 @@ k2 :> k1 @@ A :> B @@ B :> A
UserProviderSymmetry ==
    UserSymmetry \cup {ProviderSwap @@ p : p \in UserSymmetry}
=============================================================================
