----------------------------- MODULE MCServing ------------------------------
(* Constants of Serving for TLC. *)
EXTENDS Serving, TLC

TwoKinds == "r1" :> "collect" @@ "r2" :> "tree"
TwoAsked == "r1" :> 1 @@ "r2" :> 2
ThreeKinds == "r1" :> "collect" @@ "r2" :> "tree" @@ "r3" :> "tree"
ThreeAsked == "r1" :> 1 @@ "r2" :> 1 @@ "r3" :> 1
=============================================================================
