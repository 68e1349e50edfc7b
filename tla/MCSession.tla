------------------------------ MODULE MCSession ------------------------------
(* Names of Session's calls for TLC.                                          *)
EXTENDS Session

CONSTANTS t1, t2, c1, c2, k1
=============================================================================
