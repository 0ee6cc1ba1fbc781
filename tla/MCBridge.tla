------------------------------ MODULE MCBridge ------------------------------
(***************************************************************************)
(* Threads serving two currencies; a deposit is sent twice with different  *)
(* signatures, and in the other currency, and burns compete for what is    *)
(* available.                                                              *)
(***************************************************************************)
EXTENDS Bridge, TLC

CONSTANTS usd, eur, s1, s2, s3, s4, r1, r2, r3

Request(sig, type, currency, amount, ref) ==
  [sig |-> sig, type |-> type, currency |-> currency, amount |-> amount,
   bank_reference |-> ref]

MCSends ==
  { Request(s1, "mint", usd, 2, r1), Request(s2, "mint", eur, 2, r1),
    Request(s3, "burn", usd, 1, r2), Request(s4, "burn", usd, 2, r3) }
============================================================================
