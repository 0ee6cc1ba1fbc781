----------------------------- MODULE MCMerchant -----------------------------
(***************************************************************************)
(* Two processes, two payments, two webhook events.  Two wire units make *)
(* a cent, so that 5 and 4 are recorded as the same amount.                *)
(***************************************************************************)
EXTENDS Merchant, TLC

CONSTANTS p1, p2

Body(p, status, amount) == [payment |-> p, status |-> status, amount |-> amount]

MCCallbacks ==
  { Body(p1, "SUCCESS", 4), Body(p1, "FAILED", 5), Body(p1, "SUCCESS", 2),
    Body(p2, "PENDING", 4) }
============================================================================
