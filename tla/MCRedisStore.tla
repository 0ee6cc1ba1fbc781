----------------------------- MODULE MCRedisStore -----------------------------
(***************************************************************************)
(* Two clients and an operator; the first token expires, and two more can  *)
(* be created or added.                                                    *)
(***************************************************************************)
EXTENDS RedisStore, TLC

CONSTANTS usd, alice, bob

First(amount, owner_, expires) ==
  [amount |-> amount, currency |-> usd, owner |-> owner_, ids |-> "str", locked |-> FALSE,
   expires |-> expires]

MCGenesis == <<First(2, alice, TRUE)>>

In(id, signer) == [token_id |-> id, signer |-> signer]
Out(amount, owner_) ==
  [amount |-> amount, currency |-> usd, owner |-> owner_, locked |-> FALSE]

Strings(ins, outs, fee) ==
  [ids |-> "str", claims |-> "nothing", inputs |-> ins, outputs |-> outs, fee |-> fee]

MCTxs ==
  { \* two ways to spend the first token, one of them with a fee
    Strings(<<In(1, alice)>>, <<Out(2, bob)>>, 0),
    Strings(<<In(1, alice)>>, <<Out(1, bob)>>, 1),
    \* with it a token of another owner, created or added
    Strings(<<In(1, alice), In(2, bob)>>, <<Out(4, bob)>>, 0),
    \* one input twice
    Strings(<<In(2, bob), In(2, bob)>>, <<Out(4, alice)>>, 0) }

MCAdds == { First(2, bob, FALSE), [First(2, bob, FALSE) EXCEPT !.ids = "uuid"] }

Symmetry == Permutations(Clients)
============================================================================
