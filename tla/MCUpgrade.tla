----------------------------- MODULE MCUpgrade -----------------------------
(***************************************************************************)
(* Upgrades with packages of two bytes: a download can break in its middle *)
(* and a partial file can be longer or shorter than what is served.        *)
(***************************************************************************)
EXTENDS Upgrade

MCSize == [r \in Releases |-> 2]
=============================================================================
