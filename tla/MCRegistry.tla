----------------------------- MODULE MCRegistry -----------------------------
(***************************************************************************)
(* Model values and bounds for Registry.                                   *)
(***************************************************************************)
EXTENDS Registry

CONSTANTS t1, t2

MCThreads == {t1, t2}

=============================================================================
