----------------------------- MODULE MCCvQueue ------------------------------
(***************************************************************************)
(* The constants of CvQueue that a configuration file cannot write.        *)
(***************************************************************************)
EXTENDS CvQueue

(* Arguments of set_capacity: a rejected one, a smaller and a larger one.  *)
OneOrTwo == {-1, 1, 2}
=============================================================================
