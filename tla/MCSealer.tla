------------------------------ MODULE MCSealer ------------------------------
(***************************************************************************)
(* Small instances of Sealer for TLC.                                      *)
(***************************************************************************)
EXTENDS Sealer, TLC

CONSTANTS v1, v2

MCDocs == {v1, v2}
MCImperative == {v2}
=============================================================================
