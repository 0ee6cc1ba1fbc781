----------------------------- MODULE UtxoLedger -----------------------------
(***************************************************************************)
(* What a UTXO store promises: each accepted transaction replaces, in one  *)
(* step, tokens that are there by tokens under ids never used before, and  *)
(* it is sound for the tokens that it replaces.                            *)
(***************************************************************************)
EXTENDS UtxoTypes

VARIABLES
  tokens, \* the tokens that can be spent, by id
  used    \* every id that was ever given to a token

Init == tokens = Genesis /\ used = DOMAIN Genesis

Transact(x) ==
  LET new   == Created(x, tokens)
      fresh == DOMAIN tokens' \ DOMAIN tokens
  IN  /\ Bounded(x) /\ Positive(x) /\ NoDuplicates(x)
      /\ InputIds(x) \subseteq DOMAIN tokens
      /\ Intent(x, tokens)
      /\ DOMAIN tokens' = (DOMAIN tokens \ InputIds(x)) \cup fresh
      /\ \A id \in DOMAIN tokens \ InputIds(x) : tokens'[id] = tokens[id]
      /\ fresh \cap used = {} /\ Cardinality(fresh) = Len(new)
      /\ \E place \in [DOMAIN new -> fresh] :
           /\ \A i, j \in DOMAIN new : place[i] = place[j] => i = j
           /\ \A i \in DOMAIN new : tokens'[place[i]] = new[i]
      /\ used' = used \cup fresh

Next == \E x \in Txs : Transact(x)

Spec == Init /\ [][Next]_<<tokens, used>>
============================================================================
