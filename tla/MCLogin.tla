------------------------------ MODULE MCLogin ------------------------------
(* Login on small instances: an account that is found by its email and by    *)
(* its phone number. The most requests come from the whitelisted address,    *)
(* whose requests all reach the lockout.                                     *)
EXTENDS Login

CONSTANTS open, trusted, banned, email, phone, user

MCRequests == [ip \in Ips |-> IF ip = trusted THEN 4 ELSE 2]

MCAccountOf == [id \in Identifiers |-> user]

=============================================================================
