------------------------------ MODULE MCArena ------------------------------
(* A small arena: 8-byte blocks with a 2-byte header, requests that fit,   *)
(* that need a block of their own and that are empty, with and without an  *)
(* alignment that leaves padding.                                          *)
EXTENDS Arena

MCRequests == {0, 3, 5, 9}
MCAligns == {1, 4}
=============================================================================
