------------------------------- MODULE MCHtc -------------------------------
(* Htc on small instances.                                                 *)
EXTENDS Htc

(* Two service endpoints; endpoint 1 has enough credits for a threshold to *)
(* hold some of them back.                                                 *)
TwoServices == [e \in Endpoints |-> IF e = 1 THEN 2 ELSE e \div 2]

(* One service endpoint beside endpoint 0, both with credits.              *)
OneService == [e \in Endpoints |-> e + 1]

(* Only the service endpoint has credits.                                  *)
DataOnly == [e \in Endpoints |-> 2 * e]
=============================================================================
