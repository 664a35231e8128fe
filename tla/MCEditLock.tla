------------------------------ MODULE MCEditLock ------------------------------
(* EditLock with two tabs of one user and two requests in flight.              *)
EXTENDS EditLock, TLC

CONSTANTS s1, s2, u1, u2

OneUser  == (s1 :> u1) @@ (s2 :> u1)

\* The slots are interchangeable, and so are the tokens.
Interchangeable == Permutations(Slot) \union Permutations(Token)
=============================================================================
