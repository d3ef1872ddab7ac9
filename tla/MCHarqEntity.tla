---------------------------- MODULE MCHarqEntity ----------------------------
(* HarqEntity for TLC: the constants are in the .cfg files.                *)
EXTENDS HarqEntity, TLC

\* PDUs and entities are interchangeable; used in safety runs only.
Symmetry == Permutations(Pdu) \cup Permutations(Rnti)

\* The state without the history that the properties of a run do not mention:
\* no guard reads aux_tx, aux_acked or aux_fb.
Bare == <<entityVars, staticVars, sendVars, receVars, air>>
=============================================================================
