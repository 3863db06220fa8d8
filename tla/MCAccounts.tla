----------------------------- MODULE MCAccounts -----------------------------
(***************************************************************************)
(* Small instance of Accounts: two people and two browsers.                *)
(***************************************************************************)
EXTENDS Accounts, TLC

CONSTANTS ann, bob, desk, phone

MCUser == {ann, bob}
MCSeat == {desk, phone}
MCSymmetry == {p @@ q : p \in Permutations(MCUser), q \in Permutations(MCSeat)}
=============================================================================
