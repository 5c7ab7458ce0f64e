------------------------- MODULE MC_RevocationCache -------------------------
(* Small instances of RevocationCache. *)
EXTENDS RevocationCache, TLC

CONSTANTS q1, q2, q3, r1, w1, w2, u1, u2, u3

MC_By == [r \in Revokers |-> w1]
\* One worker.
MC_AtOne == [q \in Requests |-> w1]
\* The requests run in the worker that hears of the revocation.
MC_AtOther == [q \in Requests |-> w2]
\* Requests and handlers of one user, or of a user each.
MC_OfOne == [q \in Requests |-> u1]
MC_OfEach == [q \in Requests |-> IF q = q1 THEN u1 ELSE IF q = q2 THEN u2 ELSE u3]
MC_Target == [r \in Revokers |-> u1]
MC_Sessions == [r \in Revokers |-> "session"]
MC_Deactivate == [r \in Revokers |-> "deactivate"]
=============================================================================
