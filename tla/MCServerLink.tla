----------------------------- MODULE MCServerLink -----------------------------
(* Instances of ServerLink: its constants are numbers and switches that    *)
(* each configuration sets.                                                *)
EXTENDS ServerLink
=============================================================================
