------------------------ MODULE MCHttpClientPool ------------------------
(***************************************************************************)
(* Small instances of HttpClientPool for TLC.                               *)
(***************************************************************************)
EXTENDS HttpClientPool, TLC

\* The callers are interchangeable: no action and no invariant names one.
CallerSymmetry == Permutations(Callers)
=============================================================================
