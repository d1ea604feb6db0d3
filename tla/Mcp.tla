--------------------------------- MODULE Mcp ---------------------------------
(***************************************************************************)
(* External tools over MCP: register_mcp_tools (tools/mcp.py) admits them  *)
(* when a process starts, invoke_tool (mcp/client.py) calls one.  Each     *)
(* opens a session of its own: a server process is started, its tools are  *)
(* listed page by page, and all of it must end within a time limit.        *)
(*                                                                         *)
(* The servers are somebody else's programs: they may change their tools at *)
(* any time, page as they like, answer anything, or fall silent.           *)
(*                                                                         *)
(* A definition marked "Mutant" is the one after it with a plausible bug.  *)
(***************************************************************************)
EXTENDS Integers, FiniteSets, Functions

CONSTANTS
  Servers, Tools, Cursors,
  Aliases,       \* local names of the configured tools
  ServerOf,      \* their servers, and their names there
  RemoteOf,
  Builtins,      \* names registered before
  MaxPages,      \* MAX_PAGES
  MaxTools,      \* MAX_TOOLS
  Offers,        \* bound: the tools a server may have
  PageSize       \* bound: tools on one page

None == "none"

\* Local names are unique, and register_mcp_tools refuses one that is taken.
ASSUME McpAssumption ==
  /\ None \notin Aliases
  /\ ServerOf \in [Aliases -> Servers] /\ RemoteOf \in [Aliases -> Tools]
  /\ Aliases \cap Builtins = {} /\ Offers \in [Servers -> SUBSET Tools]
  /\ {MaxPages, MaxTools, PageSize} \subseteq Nat \ {0}

\* What a server says of a tool: the contract that was agreed (the digest in
\* the configuration), another one, or the agreed one declared to write.
Contracts == {"agreed", "other", "writes"}
Catalogs  == UNION {[D -> Contracts] : D \in SUBSET Tools}
Empty     == [t \in {} |-> "agreed"]

VARIABLES
  catalog,     \* each server's tools
  registry,    \* names a model can call
  waiting,     \* servers not yet asked, while registering
  call,        \* the operation under way: its place, and its locals
  sentAs,      \* history: the tool's contract when this call was sent, or "none"
  calls,       \* history: calls sent by this invocation
  upgraded,    \* history: its server has changed in this session
  listings     \* history: what discovery found at each server, or nothing

vars == <<catalog, registry, waiting, call, sentAs, calls, upgraded, listings>>

\* alias: the tool invoked, or None while registering; got: tools listed so far;
\* pages, cursors: requests for a page, and their cursors.
Idle == [pc |-> "idle", server |-> None, alias |-> None, got |-> Empty,
         pages |-> 0, cursors |-> {}]

TypeOK ==
  /\ catalog \in [Servers -> Catalogs] /\ listings \in [Servers -> Catalogs]
  /\ registry \subseteq Aliases \cup Builtins
  /\ waiting \subseteq Servers
  /\ call \in [pc : {"idle", "open", "list", "listed", "called"},
               server : Servers \cup {None}, alias : Aliases \cup {None},
               got : Catalogs, pages : 0..MaxPages, cursors : SUBSET Cursors]
  /\ sentAs \in Contracts \cup {None, "gone"} /\ calls \in Nat
  /\ upgraded \in BOOLEAN

Init ==
  /\ catalog = [s \in Servers |-> [t \in Offers[s] |-> "agreed"]]
  /\ registry = Builtins
  /\ waiting = Servers
  /\ call = Idle
  /\ sentAs = None /\ calls = 0 /\ upgraded = FALSE
  /\ listings = [s \in Servers |-> Empty]

-----------------------------------------------------------------------------
\* A server adds, changes or drops a tool.
Upgrade ==
  /\ \E s \in Servers : \E t \in Offers[s] :
       /\ \E c \in Contracts \cup {None} :
            catalog' = [catalog EXCEPT ![s] =
              [k \in (IF c = None THEN DOMAIN @ \ {t} ELSE DOMAIN @ \cup {t}) |->
                 IF k = t THEN c ELSE @[k]]]
       /\ upgraded' = (upgraded \/ call.server = s)
  /\ UNCHANGED <<registry, waiting, call, sentAs, calls, listings>>

NoCall == sentAs' = None /\ calls' = 0 /\ upgraded' = FALSE

\* The session is closed, and the next one begins from nothing.
Close == call' = Idle /\ NoCall

Open(s, alias) ==
  /\ call' = [Idle EXCEPT !.pc = "open", !.server = s, !.alias = alias]
  /\ NoCall

\* register_mcp_tools, for the next server
Discover ==
  /\ call.pc = "idle"
  /\ \E s \in waiting : Open(s, None) /\ waiting' = waiting \ {s}
  /\ UNCHANGED <<catalog, registry, listings>>

\* A registered tool is called.  Arguments that are not within the schema and
\* the local limits never get this far.
Invoke ==
  /\ call.pc = "idle" /\ waiting = {}
  /\ \E a \in registry \cap Aliases : Open(ServerOf[a], a)
  /\ UNCHANGED <<catalog, registry, waiting, listings>>

\* _open_client; it fails if an environment variable is not set or the program
\* cannot be started.
Opened ==
  /\ call.pc = "open"
  /\ call' = [call EXCEPT !.pc = "list"]
  /\ UNCHANGED <<catalog, registry, waiting, sentAs, calls, upgraded, listings>>

-----------------------------------------------------------------------------
\* _list_all: a page is some of the tools and the next cursor, if any.
Pages(s) == {D \in SUBSET DOMAIN catalog[s] : Cardinality(D) <= PageSize}

\* A tool listed twice, or one too many, is refused, and so is a cursor seen
\* before, and a page after the last allowed.
Fits(tools) ==
  /\ tools \cap DOMAIN call.got = {}
  /\ Cardinality(DOMAIN call.got) + Cardinality(tools) <= MaxTools

Continues(next) == next \notin call.cursors /\ call.pages + 1 < MaxPages

Add(tools) == [t \in DOMAIN call.got \cup tools |->
                 IF t \in tools THEN catalog[call.server][t] ELSE call.got[t]]

Page ==
  /\ call.pc = "list"
  /\ \E tools \in Pages(call.server), next \in Cursors \cup {None} :
       /\ Fits(tools) /\ (next = None \/ Continues(next))
       /\ call' = [call EXCEPT !.got = Add(tools), !.pages = @ + 1,
                               !.pc = IF next = None THEN "listed" ELSE "list",
                               !.cursors = IF next = None THEN @ ELSE @ \cup {next}]
  /\ UNCHANGED <<catalog, registry, waiting, sentAs, calls, upgraded, listings>>

\* A page that is refused: its tools, its cursor or a schema
BadPage ==
  /\ call.pc = "list"
  /\ Close
  /\ UNCHANGED <<catalog, registry, waiting, listings>>

-----------------------------------------------------------------------------
\* The agreed contract, and no declaration that the tool writes
Acceptable(got, t) == t \in DOMAIN got /\ got[t] = "agreed"

\* (Mutant: the first tool that is refused ends the registration.)
AdmitAll ==
  /\ call.pc = "listed" /\ call.alias = None
  /\ LET here == {a \in Aliases : ServerOf[a] = call.server} IN
       registry' = IF \A a \in here : Acceptable(call.got, RemoteOf[a])
                   THEN registry \cup here ELSE registry
  /\ listings' = [listings EXCEPT ![call.server] = call.got]
  /\ Close
  /\ UNCHANGED <<catalog, waiting>>

\* Each configured tool is admitted, or left out with a warning.
Admit ==
  /\ call.pc = "listed" /\ call.alias = None
  /\ registry' = registry \cup {a \in Aliases : ServerOf[a] = call.server /\
                                                Acceptable(call.got, RemoteOf[a])}
  /\ listings' = [listings EXCEPT ![call.server] = call.got]
  /\ Close
  /\ UNCHANGED <<catalog, waiting>>

Contract(s, t) == IF t \in DOMAIN catalog[s] THEN catalog[s][t] ELSE "gone"

\* (Mutant: what was found at the start is believed.)
SendBelieving ==
  /\ call.pc = "listed" /\ call.alias # None
  /\ Acceptable(listings[call.server], RemoteOf[call.alias])
  /\ call' = [call EXCEPT !.pc = "called"]
  /\ sentAs' = Contract(call.server, RemoteOf[call.alias]) /\ calls' = calls + 1
  /\ UNCHANGED <<catalog, registry, waiting, upgraded, listings>>

\* The contract is looked at again, and the tool is called in the same session.
SendCall ==
  /\ call.pc = "listed" /\ call.alias # None
  /\ Acceptable(call.got, RemoteOf[call.alias])
  /\ call' = [call EXCEPT !.pc = "called"]
  /\ sentAs' = Contract(call.server, RemoteOf[call.alias]) /\ calls' = calls + 1
  /\ UNCHANGED <<catalog, registry, waiting, upgraded, listings>>

RefuseCall ==
  /\ call.pc = "listed" /\ call.alias # None
  /\ ~Acceptable(call.got, RemoteOf[call.alias])
  /\ Close
  /\ UNCHANGED <<catalog, registry, waiting, listings>>

\* A result, or an error of the tool, or something that fits no schema
Returns ==
  /\ call.pc = "called"
  /\ Close
  /\ UNCHANGED <<catalog, registry, waiting, listings>>

\* (Mutant: a call that was not answered is made again.)
FailsAndRetries ==
  /\ call.pc \in {"open", "list", "called"}
  /\ call' = IF call.alias = None THEN Idle
             ELSE [Idle EXCEPT !.pc = "open", !.server = call.server, !.alias = call.alias]
  /\ UNCHANGED <<catalog, registry, waiting, sentAs, calls, upgraded, listings>>

\* (Mutant: the time limit does not cover the listing.)
FailsLater ==
  /\ call.pc \in {"open", "called"}
  /\ Close
  /\ UNCHANGED <<catalog, registry, waiting, listings>>

\* The server fails, or asyncio.timeout ends the session: an error, no retry.
\* A call that was sent may still take effect.
Fails ==
  /\ call.pc \in {"open", "list", "called"}
  /\ Close
  /\ UNCHANGED <<catalog, registry, waiting, listings>>

\* A process starts; its registry is new.
Restart ==
  /\ registry' = Builtins /\ waiting' = Servers
  /\ Close
  /\ listings' = [s \in Servers |-> Empty]
  /\ UNCHANGED catalog

Client ==
  \/ Opened \/ Page \/ BadPage \/ Admit
  \/ SendCall \/ RefuseCall \/ Returns \/ Fails

Next == Upgrade \/ Discover \/ Invoke \/ Client \/ Restart

Spec     == Init /\ [][Next]_vars
\* The time limit, the client's own steps, and the servers still to be asked
FairSpec == Spec /\ WF_vars(Fails) /\ WF_vars(Admit \/ SendCall \/ RefuseCall)
-----------------------------------------------------------------------------
\* A tool is called under another contract than the one agreed on only if its
\* server changes it within that very session; a change since the start, or
\* since the last call, is noticed.
CalledAsAgreed == sentAs \in {None, "agreed"} \/ upgraded

\* However an invocation fails, and whenever: its tool is called once at most.
CalledOnceAtMost == calls <= 1

\* One bad tool, and one server that is missing or misbehaves, costs no other
\* tool: what can be called is what was there before and all that was found as
\* agreed.
OfferedIffAgreed ==
  registry = Builtins \cup {a \in Aliases : Acceptable(listings[ServerOf[a]], RemoteOf[a])}

\* Every session ends, whatever its server does, so a start is completed and a
\* model's call is answered.
EverySessionEnds == call.pc # "idle" ~> call.pc = "idle"
=============================================================================
