-------------------------- MODULE MCConversations ---------------------------
(* Small instances of Conversations.  Turns are interchangeable.           *)
EXTENDS Conversations, TLC

Turns == Permutations(Turn)

(* The second conversation is there for the first one to be mixed up with: *)
(* it has one turn and one message, and is not cleared or deleted.  After  *)
(* the restart, and after the last message, turns come one at a time; the  *)
(* last message is of the first conversation, before the restart.          *)
Small ==
  /\ Cardinality({t \in Turn : on[t] = 2}) <= 1
  /\ Cardinality(Of(2)) <= 1 /\ sweeping # 2
  /\ restarts = MaxRestarts \/ Len(messages) = MaxRows
       => Cardinality({t \in Turn : on[t] # None}) <= 1
  /\ Len(messages) = MaxRows /\ MaxRestarts > 0
       => restarts < MaxRestarts /\ Of(2) = {}
=============================================================================
