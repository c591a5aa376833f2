----------------------------- MODULE MCPayment -----------------------------
(* Payment on small instances. Requests are interchangeable, but symmetry   *)
(* is not used: the run also checks a liveness property.                    *)
EXTENDS Payment

=============================================================================
