------------------------------- MODULE MCApi --------------------------------
(* Instances of the service: up to three requests in flight.               *)
EXTENDS Api

CONSTANTS r1, r2, r3
=============================================================================
