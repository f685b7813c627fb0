--------------------------- MODULE MCEventBuffer ---------------------------
(* Small instances of EventBuffer: packages of one and of two events, a    *)
(* package of show data and one of a type the daemon does not know.        *)
EXTENDS EventBuffer

CONSTANTS one, two, show, other, cam1, cam2

MCKind == [p \in CanPackages |->
             CASE p = show -> "show" [] p = other -> "other" [] OTHER -> "event"]
MCEvents == [p \in Packages |-> IF p = two THEN 2 ELSE 1]
=============================================================================
