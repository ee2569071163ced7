-------------------------- MODULE MCRequestWorkers --------------------------
(* RequestWorkers with two workers, two lanes and four requests, of which at *)
(* most three may be unfinished: the limit, a lane with a job parked behind  *)
(* the running one, and both workers busy all occur.                         *)
EXTENDS RequestWorkers
=============================================================================
