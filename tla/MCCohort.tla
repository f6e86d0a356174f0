------------------------------- MODULE MCCohort -------------------------------
(* The module the run of Cohort is started from.  Its constant is the set of
   clients: three, so that registering, relaying, releasing and ending
   connections coexist. *)
EXTENDS Cohort
===============================================================================
