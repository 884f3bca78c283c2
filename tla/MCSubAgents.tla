---------------------------- MODULE MCSubAgents ----------------------------
(* Small instances of SubAgents.  Tokens are interchangeable, so are the   *)
(* outside coders' jobs, and so are the sub-agents' own, of which Single   *)
(* names all or none.                                                      *)
EXTENDS SubAgents, TLC

Interchangeable == Permutations(Token) \cup Permutations(Coder)
                     \cup Permutations(Job \ Coder)

(* Bound: one job of a behaviour is stopped, by the owner or the watcher.  *)
OneStop == Cardinality({j \in Job : stop[j]}) <= 1
=============================================================================
