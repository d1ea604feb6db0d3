------------------------------ MODULE MCKnowledge ------------------------------
(* Small instances of Knowledge: one signature; one record closed before, and *)
(* one that the Runner has still to close, or that has no incident.           *)
EXTENDS Knowledge

OneGroup == [r \in Records |-> "sig"]
MCEarlier == [r \in Records |-> IF r = 1 THEN {"running", "bare"} ELSE {"failed"}]
=============================================================================
