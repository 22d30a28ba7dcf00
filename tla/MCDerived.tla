------------------------------ MODULE MCDerived -------------------------------
(* Instance of DerivedRecords: the constants come from the configuration.   *)
EXTENDS DerivedRecords
===============================================================================
