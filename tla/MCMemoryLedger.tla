--------------------------- MODULE MCMemoryLedger ---------------------------
(***************************************************************************)
(* Two threads over three tokens of two currencies, one of which expires;  *)
(* transactions compete for them and for what they become.                 *)
(***************************************************************************)
EXTENDS MemoryLedger, TLC

CONSTANTS usd, eur, alice, bob, fees

First(amount, currency, owner, expires) ==
  [amount |-> amount, currency |-> currency, owner |-> owner, locked |-> FALSE,
   ids |-> "str", expires |-> expires]

MCGenesis ==
  <<First(3, usd, alice, FALSE), First(2, usd, bob, TRUE), First(2, eur, alice, FALSE)>>

In(id, signer) == [token_id |-> id, signer |-> signer]
Out(amount, currency, owner) ==
  [amount |-> amount, currency |-> currency, owner |-> owner, locked |-> FALSE]
LockedOut(amount, currency, owner) ==
  [amount |-> amount, currency |-> currency, owner |-> owner, locked |-> TRUE]

Strings(ins, outs, fee) ==
  [ids |-> "str", claims |-> "nothing", inputs |-> ins, outputs |-> outs, fee |-> fee]

MCTxs ==
  { \* two ways to spend the first token, one of them with a fee
    Strings(<<In(1, alice)>>, <<Out(2, usd, bob), Out(1, usd, alice)>>, 0),
    Strings(<<In(1, alice)>>, <<Out(2, usd, bob)>>, 1),
    \* two tokens of two owners, one of which may have expired
    Strings(<<In(1, alice), In(2, bob)>>, <<LockedOut(4, usd, bob)>>, 1),
    \* inputs in two currencies; too little; nobody's signature
    Strings(<<In(1, alice), In(3, alice)>>, <<Out(5, usd, bob)>>, 0),
    Strings(<<In(3, alice)>>, <<Out(1, eur, bob)>>, 0),
    Strings(<<In(3, bob)>>, <<Out(2, eur, bob)>>, 0),
    \* the other two tokens on their own
    Strings(<<In(2, bob)>>, <<Out(2, usd, bob)>>, 0),
    Strings(<<In(3, alice)>>, <<Out(2, eur, bob)>>, 0),
    \* what the first transactions create: its id is a UUID object, which no
    \* input given as a string finds
    Strings(<<In(4, bob)>>, <<Out(2, usd, alice)>>, 0),
    Strings(<<In(4, bob), In(5, alice)>>, <<Out(3, usd, alice)>>, 0),
    \* one input twice; a foreign id; a negative fee
    Strings(<<In(3, alice), In(3, alice)>>, <<Out(4, eur, bob)>>, 0),
    [Strings(<<In(2, bob)>>, <<Out(2, usd, bob)>>, 0) EXCEPT !.claims = "other"],
    Strings(<<In(2, bob)>>, <<Out(3, usd, bob)>>, -1) }
    \cup
  { \* a valid transaction with ids as pydantic leaves them
    [Strings(<<In(2, bob)>>, <<Out(2, usd, bob)>>, 0) EXCEPT !.ids = "uuid"] }

Symmetry == Permutations(Threads)
============================================================================
