----------------------------- MODULE MCUploadPath -----------------------------
(* A small instance of UploadPath: packages of one and of two events.      *)
EXTENDS UploadPath

CONSTANTS one, two

MCKind == [p \in CanPackages |-> "event"]
MCEvents == [p \in Packages |-> IF p = two THEN 2 ELSE 1]
=============================================================================
