------------------------------ MODULE MCSignIn ------------------------------
(* An instance of SignIn in which two of three client ids hash to the same *)
(* account id.                                                             *)
EXTENDS SignIn, TLC

CONSTANTS k1, k2, k3, i1, i2

MCIdOf == k1 :> i1 @@ k2 :> i1 @@ k3 :> i2
=============================================================================
