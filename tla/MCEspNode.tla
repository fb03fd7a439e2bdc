------------------------------ MODULE MCEspNode -----------------------------
(***************************************************************************)
(* Two bundles and two slots: three receptions fill the queue while the    *)
(* tick holds one bundle in its hands.                                     *)
(***************************************************************************)
EXTENDS EspNode
=============================================================================
