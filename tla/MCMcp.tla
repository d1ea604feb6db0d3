-------------------------------- MODULE MCMcp --------------------------------
(* Small instances of Mcp. *)
EXTENDS Mcp

\* Two configured tools of "db", one of "web".
MCServerOf == [a \in Aliases |-> IF a = "status" THEN "web" ELSE "db"]
MCRemoteOf == [a \in Aliases |-> IF a = "rows" THEN "query" ELSE "info"]
MCOffers   == [s \in Servers |-> IF s = "db" THEN Tools ELSE {"info"}]
=============================================================================
