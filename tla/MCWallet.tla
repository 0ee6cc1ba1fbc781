----------------------------- MODULE MCWallet -----------------------------
(***************************************************************************)
(* Two commands; four tokens, two of them worth the same and one in        *)
(* another currency.  The node answers with everything, or with what is    *)
(* left after a payment.                                                   *)
(***************************************************************************)
EXTENDS Wallet, TLC

CONSTANTS inr, usd

T(id, amount, currency) == [id |-> id, amount |-> amount, currency |-> currency]

MCAnswers ==
  { {T(1, 3, inr), T(2, 1, inr), T(3, 1, inr), T(4, 4, usd)},
    {T(2, 1, inr), T(3, 1, inr)} }

Ask(amount, currency) == [amount |-> amount, currency |-> currency]

\* In quarters of a cent: 2.5, of 3 cents (rounded alike); 3.5, of 4 (not); 2.25,
\* of 3; an amount that pydantic refuses; and all there is in the other currency.
MCAsks == { Ask(10, inr), Ask(14, inr), Ask(9, inr), Ask(0, inr), Ask(16, usd) }

Symmetry == Permutations(Commands)
============================================================================
