---------------------------- MODULE MCTokenCache ----------------------------
(* Instances of TokenCache: which calls run in which process.              *)
EXTENDS TokenCache, TLC

CONSTANTS a1, a2, p1, p2, c1, c2, c3

Does(k, a, p) == [kind |-> k, account |-> a, process |-> p]

Load(x, y, z) == c1 :> x @@ c2 :> y @@ c3 :> z

(* Every kind of call beside each of the others, in one process and in two.*)
MCWorkloads == {
  Load(Does("auto", a1, p1), Does("auto", a2, p1), Does("auto", a1, p1)),
  Load(Does("auto", a1, p1), Does("auto", a1, p1), Does("disconnect", a1, p2)),
  Load(Does("auto", a1, p1), Does("cached", a1, p1), Does("signIn", a1, p2)),
  Load(Does("signIn", a1, p1), Does("auto", a2, p1), Does("status", a1, p1)),
  Load(Does("signIn", a1, p1), Does("auto", a2, p1), Does("auto", a1, p2)),
  Load(Does("status", a1, p1), Does("explicit", a1, p1), Does("auto", a1, p2)),
  Load(Does("status", a1, p1), Does("cached", a2, p1),
       Does("disconnect", a2, p2)),
  Load(Does("signIn", a1, p1), Does("disconnect", a1, p2),
       Does("cached", a1, p1)),
  Load(Does("auto", a1, p1), Does("auto", a1, p2), Does("explicit", a1, p1))}
=============================================================================
