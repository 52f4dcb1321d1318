---------------------------- MODULE MCXpjxModule ----------------------------
(***************************************************************************)
(* Checks of XpjxModule by TLC: the .cfg files give every constant a value.*)
(***************************************************************************)
EXTENDS XpjxModule
=============================================================================
