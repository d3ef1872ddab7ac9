----------------------------- MODULE MCHarqLink -----------------------------
(* HarqLink for TLC: the constants are in the .cfg files.                  *)
EXTENDS HarqLink, TLC

\* PDUs are interchangeable.
Symmetry == Permutations(Pdu)

\* Nothing of the history; no guard reads it.
LinkBare == <<entityVars, staticVars, sendVars, receVars, air, linkVars>>
=============================================================================
