----------------------------- MODULE MCAdmission -----------------------------
(***************************************************************************)
(* Two processes of hamilton-core with the two clients of init_db, and two *)
(* of the merchant service with one address.                               *)
(***************************************************************************)
EXTENDS Admission

CONSTANTS bridge, wallet

MCClients == <<bridge, wallet>>
============================================================================
