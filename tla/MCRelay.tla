------------------------------- MODULE MCRelay -------------------------------
(* Two ids of the server's form, flat books of one or two records, one     *)
(* relational book of two tables.                                          *)
EXTENDS Relay, TLC

CONSTANTS auto1, auto2, book, accounts, contacts, CRMAccount, CRMContact

MCAutoIds == <<auto1, auto2>>

MCSymmetry == Permutations(Tables) \union Permutations(Contracts)
=============================================================================
