-------------------------- MODULE MCConfirmations --------------------------
(* Small instances of Confirmations.  Tokens are interchangeable.          *)
EXTENDS Confirmations, TLC

Tokens == Permutations(Token)
=============================================================================
