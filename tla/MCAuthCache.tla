----------------------------- MODULE MCAuthCache -----------------------------
(* Two concurrent handlers, one Basic credential and two JWTs.             *)
EXTENDS AuthCache, TLC

CONSTANTS r1, r2, b1, j1, j2

MCRequest == {r1, r2}
MCBasic == {b1}
MCJwt == {j1, j2}
MCOneJwt == {j1}

\* Handlers are interchangeable, and so are the JWTs.
AuthSymmetry == Permutations(Request) \cup Permutations(Jwt)
=============================================================================
