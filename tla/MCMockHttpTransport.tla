----------------------- MODULE MCMockHttpTransport -----------------------
(***************************************************************************)
(* MockHttpTransport for TLC.  Threads, URLs and responses are alike in     *)
(* everything the mock does and in both properties.                        *)
(***************************************************************************)
EXTENDS MockHttpTransport, TLC

Symmetry == Permutations(Threads) \cup Permutations(Urls) \cup Permutations(Bodies)
=============================================================================
