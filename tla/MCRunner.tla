------------------------------- MODULE MCRunner -------------------------------
(* Small instances of Runner. *)
EXTENDS Runner

MCSustain == [k \in Kinds |-> 2]
AtOnce    == [k \in Kinds |-> 1]
MCFingerprint == [a \in Runbooks |-> IF a = "nginx_restart" THEN "digest1" ELSE "digest2"]
=============================================================================
