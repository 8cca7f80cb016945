---------------------------- MODULE MCOwnerLinks ----------------------------
(***************************************************************************)
(* A small instance of OwnerLinks: two links that share an account.        *)
(***************************************************************************)
EXTENDS OwnerLinks

CONSTANTS a1, a2, a3, manual, device, v1

Pairs == {{a1, a2}, {a2, a3}}
=============================================================================
