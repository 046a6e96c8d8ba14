------------------------------- MODULE MCAuth -------------------------------
EXTENDS Auth, TLC

(* The first authenticator redirects clients it is asked about, or it      *)
(* answers with a redirect when it is told that a client leaves.           *)
RedirectsNew == {<<"process", 1>>}
RedirectsLeaving == {<<"remove", 1>>}

Symmetry == Permutations(Clients)
=============================================================================
