--------------------------- MODULE MCHamiltonCore ---------------------------
(***************************************************************************)
(* Small instances of HamiltonCore for TLC: two clients, three keys to     *)
(* retry and to reuse, two tokens to mint and two to create by transfers.  *)
(***************************************************************************)
EXTENDS HamiltonCoreProps, TLC

CONSTANTS w1, w2, free, bridge, wallet, k1, k2, k3, m1, m2, o1, o2, x1, x2, b1, b2,
          USD, EUR, alice, bob

MCRole == bridge :> "ISSUER" @@ wallet :> "PROCESSOR"

MintOf(key, amount, currency, pk) ==
  [op |-> "MINT", client |-> bridge, key |-> key, signed |-> TRUE,
   amount |-> amount, currency |-> currency, public_key |-> pk]

Out(t, amount, pk) == [token_id |-> t, amount |-> amount, receiver |-> pk]

TransferOf(key, id, ins, outs, pk) ==
  [op |-> "TRANSFER", client |-> wallet, key |-> key, signed |-> TRUE,
   transaction_id |-> id, currency |-> USD, inputs |-> ins, outputs |-> outs,
   signer |-> pk]

BurnOf(client, key, ids, pk) ==
  [op |-> "BURN", client |-> client, key |-> key, signed |-> TRUE,
   token_ids |-> ids, owner |-> pk]

\* Two wire units make a cent here, so 3 is a cent and a half.
MCRequests ==
  { MintOf(k1, 4, USD, alice),
    MintOf(k2, 2, EUR, alice),
    \* alice pays bob from the first token, with change
    TransferOf(k1, x1, <<m1>>, <<Out(o1, 2, bob), Out(o2, 3, alice)>>, alice),
    \* and again from the same token, under another key, to the same ids
    TransferOf(k2, x2, <<m1>>, <<Out(o1, 4, bob)>>, alice),
    \* a reused transaction id; inputs in two currencies
    TransferOf(k3, x1, <<m1, m2>>, <<Out(o2, 6, bob)>>, alice),
    \* not the owner; less than the input is worth
    TransferOf(k3, x2, <<m2>>, <<Out(o1, 4, bob)>>, bob),
    TransferOf(k3, x2, <<m2>>, <<Out(o1, 2, bob)>>, alice),
    \* bob passes on what alice paid him, to an id that may be hers
    TransferOf(k3, x2, <<o1>>, <<Out(o2, 2, bob)>>, bob),
    \* one token burned twice; two tokens, one of which may be bob's
    BurnOf(bridge, k3, <<o1>>, bob),
    BurnOf(wallet, k3, <<o1>>, bob),
    BurnOf(wallet, k2, <<m2, o2>>, alice) }

\* Processes are alike, and no request names the audit id of a burn.
Symmetry == Permutations(Workers) \cup Permutations(BurnIds)

\* For progress: one chain of operations, each of which may be retried.
MCLiveRequests ==
  { MintOf(k1, 4, USD, alice),
    TransferOf(k2, x1, <<m1>>, <<Out(o1, 2, bob), Out(o2, 2, alice)>>, alice),
    BurnOf(bridge, k3, <<o1>>, bob) }

\* Amounts of less than a cent.
MCSubcentRequests ==
  { MintOf(k1, 1, USD, alice), MintOf(k2, 2, USD, alice),
    TransferOf(k3, x1, <<m1>>, <<Out(o1, 1, bob), Out(o2, 2, alice)>>, alice),
    BurnOf(bridge, k3, <<m1, o2>>, alice) }
============================================================================
