------------------------------ MODULE MC_Wallet ------------------------------
(* Model-checking instance of Wallet: three keys, one of which has an     *)
(* address without upper-case letters, so that both spellings of its      *)
(* address are the same property name.                                     *)
EXTENDS Wallet

CONSTANTS k1, k2, k3, pw1, pw2

MC_Keys == {k1, k2, k3}
MC_MixedCase == {k1, k2}

(* The password of a save, and another one. *)
MC_Passwords == {pw1, pw2}

(* Every address checksummed with an upper-case letter, the usual case. *)
MC_AllMixed == MC_Keys
=============================================================================
