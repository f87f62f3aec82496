------------------------------ MODULE MCRCLane ------------------------------
(***************************************************************************)
(* The lane with the default configuration on a grid of 0.05: t_low 0.35,  *)
(* t_high 0.65 and t_lock 0.9 are grid points 7, 13 and 18.  Every grid    *)
(* point of the unit interval is a score, with one on either side of it.   *)
(***************************************************************************)
EXTENDS RCLane

MCScores == (-1 .. Scale + 1) \cup {NaN}
=============================================================================
