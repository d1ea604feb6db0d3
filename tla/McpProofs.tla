------------------------------- MODULE McpProofs -------------------------------
(***************************************************************************)
(* Theorems about Mcp: type correctness and its three safety properties,   *)
(* for any servers, tools and limits.                                      *)
(***************************************************************************)
EXTENDS Mcp, TLAPS

-----------------------------------------------------------------------------
(* Lemmas about catalogs *)

\* A function from some tools to contracts is a catalog.
LEMMA MakesCatalog ==
  ASSUME NEW D \in SUBSET Tools, NEW f \in [D -> Contracts]
  PROVE  f \in Catalogs
BY DEF Catalogs

\* A catalog is a function from some tools to contracts.
LEMMA CatalogIs ==
  ASSUME NEW f \in Catalogs
  PROVE  DOMAIN f \subseteq Tools /\ f \in [DOMAIN f -> Contracts]
BY DEF Catalogs

LEMMA EmptyIsCatalog == Empty \in Catalogs
<1>1. Empty \in [{} -> Contracts]
  BY DEF Empty
<1> QED
  BY <1>1, MakesCatalog

-----------------------------------------------------------------------------
(* Type correctness *)

\* An operation has a server; a listing has room for one page more.
Going ==
  /\ call.pc # "idle" => call.server \in Servers
  /\ call.pc = "open" => call.pages = 0
  /\ call.pc = "list" => call.pages < MaxPages

TypeInv == TypeOK /\ Going

LEMMA TypeInit == Init => TypeInv
<1> SUFFICES ASSUME Init PROVE TypeInv
  OBVIOUS
<1>1. \A s \in Servers : [t \in Offers[s] |-> "agreed"] \in Catalogs
  <2> TAKE s \in Servers
  <2>1. [t \in Offers[s] |-> "agreed"] \in [Offers[s] -> Contracts]
    BY DEF Contracts
  <2>2. Offers[s] \in SUBSET Tools
    BY McpAssumption
  <2> QED
    BY <2>1, <2>2, MakesCatalog
<1>2. catalog \in [Servers -> Catalogs]
  BY <1>1 DEF Init
<1>3. listings \in [Servers -> Catalogs]
  BY EmptyIsCatalog DEF Init
<1>4. 0 \in 0..MaxPages
  BY McpAssumption
<1> QED
  BY <1>2, <1>3, <1>4, EmptyIsCatalog DEF Init, TypeInv, TypeOK, Going, Idle

LEMMA TypeStep == TypeInv /\ [Next]_vars => TypeInv'
<1> SUFFICES ASSUME TypeInv, [Next]_vars PROVE TypeInv'
  OBVIOUS
<1>0. 0 \in 0..MaxPages /\ 0 < MaxPages /\ MaxPages \in Nat
  BY McpAssumption
<1> DEFINE Calls == [pc : {"idle", "open", "list", "listed", "called"},
                     server : Servers \cup {None}, alias : Aliases \cup {None},
                     got : Catalogs, pages : 0..MaxPages, cursors : SUBSET Cursors]
<1>1. Idle \in Calls
  BY <1>0, EmptyIsCatalog DEF Idle
<1>2. ASSUME Close, UNCHANGED <<catalog, waiting>>,
             registry' \subseteq Aliases \cup Builtins, listings' \in [Servers -> Catalogs]
      PROVE TypeInv'
  BY <1>1, <1>2 DEF Close, NoCall, Idle, TypeInv, TypeOK, Going
<1>3. CASE Upgrade
  <2>1. PICK s \in Servers : \E t \in Offers[s], c \in Contracts \cup {None} :
          catalog' = [catalog EXCEPT ![s] =
            [k \in (IF c = None THEN DOMAIN @ \ {t} ELSE DOMAIN @ \cup {t}) |->
               IF k = t THEN c ELSE @[k]]]
    BY <1>3 DEF Upgrade
  <2>2. PICK t \in Offers[s], c \in Contracts \cup {None} :
          catalog' = [catalog EXCEPT ![s] =
            [k \in (IF c = None THEN DOMAIN @ \ {t} ELSE DOMAIN @ \cup {t}) |->
               IF k = t THEN c ELSE @[k]]]
    BY <2>1
  <2> DEFINE D == IF c = None THEN DOMAIN catalog[s] \ {t} ELSE DOMAIN catalog[s] \cup {t}
             f == [k \in D |-> IF k = t THEN c ELSE catalog[s][k]]
  <2>3. t \in Tools /\ catalog[s] \in Catalogs
    BY McpAssumption DEF TypeInv, TypeOK
  <2>4. DOMAIN catalog[s] \subseteq Tools /\ catalog[s] \in [DOMAIN catalog[s] -> Contracts]
    BY <2>3, CatalogIs
  <2>5. D \in SUBSET Tools
    BY <2>3, <2>4
  <2>6. f \in [D -> Contracts]
    BY <2>4
  <2>7. f \in Catalogs
    BY <2>5, <2>6, MakesCatalog
  <2>8. catalog' = [catalog EXCEPT ![s] = f]
    BY <2>2
  <2>9. catalog' \in [Servers -> Catalogs]
    BY <2>7, <2>8 DEF TypeInv, TypeOK
  <2>10. upgraded' \in BOOLEAN
    BY <1>3 DEF Upgrade, TypeInv, TypeOK
  <2> QED
    BY <1>3, <2>9, <2>10 DEF Upgrade, TypeInv, TypeOK, Going
<1>4. CASE Discover
  <2>1. PICK s \in waiting : Open(s, None) /\ waiting' = waiting \ {s}
    BY <1>4 DEF Discover
  <2>2. s \in Servers
    BY DEF TypeInv, TypeOK
  <2> QED
    BY <1>0, <1>4, <2>1, <2>2, EmptyIsCatalog
    DEF Discover, Open, NoCall, Idle, TypeInv, TypeOK, Going
<1>5. CASE Invoke
  <2>1. PICK a \in registry \cap Aliases : Open(ServerOf[a], a)
    BY <1>5 DEF Invoke
  <2>2. ServerOf[a] \in Servers
    BY McpAssumption
  <2> QED
    BY <1>0, <1>5, <2>1, <2>2, EmptyIsCatalog
    DEF Invoke, Open, NoCall, Idle, TypeInv, TypeOK, Going
<1>6. CASE Opened
  BY <1>0, <1>6 DEF Opened, TypeInv, TypeOK, Going
<1>7. CASE Page
  <2>1. PICK tools \in Pages(call.server), next \in Cursors \cup {None} :
          /\ next = None \/ Continues(next)
          /\ call' = [call EXCEPT !.got = Add(tools), !.pages = @ + 1,
                                  !.pc = IF next = None THEN "listed" ELSE "list",
                                  !.cursors = IF next = None THEN @ ELSE @ \cup {next}]
    BY <1>7 DEF Page
  <2>2. call \in Calls /\ call.server \in Servers /\ call.pages < MaxPages
    BY <1>7 DEF Page, TypeInv, TypeOK, Going
  <2>3. catalog[call.server] \in Catalogs /\ call.got \in Catalogs
    BY <2>2 DEF TypeInv, TypeOK
  <2>4. /\ tools \subseteq DOMAIN catalog[call.server]
        /\ DOMAIN catalog[call.server] \subseteq Tools
        /\ catalog[call.server] \in [DOMAIN catalog[call.server] -> Contracts]
        /\ DOMAIN call.got \subseteq Tools
        /\ call.got \in [DOMAIN call.got -> Contracts]
    BY <2>3, CatalogIs DEF Pages
  <2>5. DOMAIN call.got \cup tools \in SUBSET Tools
    BY <2>4
  <2>6. Add(tools) \in [DOMAIN call.got \cup tools -> Contracts]
    BY <2>4 DEF Add
  <2>7. Add(tools) \in Catalogs
    BY <2>5, <2>6, MakesCatalog
  <2>8. call.pages + 1 \in 0..MaxPages /\ (next # None => call.pages + 1 < MaxPages)
    BY <1>0, <2>1, <2>2 DEF Continues
  <2>9. call' \in Calls
    BY <2>1, <2>2, <2>7, <2>8
  <2>10. Going'
    BY <2>1, <2>2, <2>8 DEF Going
  <2> QED
    BY <1>7, <2>9, <2>10 DEF Page, TypeInv, TypeOK
<1>8. CASE Admit
  <2>1. call.server \in Servers /\ call.got \in Catalogs
    BY <1>8 DEF Admit, TypeInv, TypeOK, Going
  <2>2. registry' \subseteq Aliases \cup Builtins
    BY <1>8 DEF Admit, TypeInv, TypeOK
  <2>3. listings' \in [Servers -> Catalogs]
    BY <1>8, <2>1 DEF Admit, TypeInv, TypeOK
  <2> QED
    BY <1>2, <1>8, <2>2, <2>3 DEF Admit
<1>9. CASE SendCall
  <2>1. Contract(call.server, RemoteOf[call.alias]) \in Contracts \cup {"gone"}
    <3>1. catalog[call.server] \in Catalogs
      BY <1>9 DEF SendCall, TypeInv, TypeOK, Going
    <3>2. catalog[call.server] \in [DOMAIN catalog[call.server] -> Contracts]
      BY <3>1, CatalogIs
    <3> QED
      BY <3>2 DEF Contract
  <2> QED
    BY <1>9, <2>1 DEF SendCall, TypeInv, TypeOK, Going
<1>10. CASE BadPage \/ RefuseCall \/ Returns \/ Fails
  BY <1>2, <1>10 DEF BadPage, RefuseCall, Returns, Fails, TypeInv, TypeOK
<1>11. CASE Restart
  <2>1. listings' \in [Servers -> Catalogs]
    BY <1>11, EmptyIsCatalog DEF Restart
  <2> QED
    BY <1>1, <1>11, <2>1 DEF Restart, Close, NoCall, Idle, TypeInv, TypeOK, Going
<1>12. CASE UNCHANGED vars
  BY <1>12 DEF vars, TypeInv, TypeOK, Going
<1> QED
  BY <1>3, <1>4, <1>5, <1>6, <1>7, <1>8, <1>9, <1>10, <1>11, <1>12 DEF Next, Client

\* The catalogs, the registry and the operation under way keep their shape.
THEOREM TypeCorrect == Spec => []TypeOK
<1>1. TypeInv => TypeOK
  BY DEF TypeInv
<1> QED
  BY <1>1, TypeInit, TypeStep, PTL DEF Spec

-----------------------------------------------------------------------------
(* What is called, and what is offered *)

\* Until its server changes, what a session has listed is what is there.
Agrees ==
  call.pc \in {"list", "listed"} /\ ~upgraded =>
    \A t \in DOMAIN call.got :
      t \in DOMAIN catalog[call.server] /\ catalog[call.server][t] = call.got[t]

\* The history of calls counts the one that is under way.
Counted == calls = IF call.pc = "called" THEN 1 ELSE 0

\* Nothing was found yet at a server that is still to be asked, nor at the one
\* that is being asked.
Unasked ==
  /\ \A s \in waiting : listings[s] = Empty
  /\ call.pc # "idle" /\ call.alias = None =>
       call.server \notin waiting /\ listings[call.server] = Empty

\* A session begins with nothing listed.
Fresh == call.pc = "open" => call.got = Empty

CallInv == /\ Agrees /\ Counted /\ Unasked /\ Fresh
           /\ CalledAsAgreed /\ OfferedIffAgreed

LEMMA CallInit == Init => CallInv
<1> SUFFICES ASSUME Init PROVE CallInv
  OBVIOUS
<1>1. \A a \in Aliases : listings[ServerOf[a]] = Empty
  BY McpAssumption DEF Init
<1>2. OfferedIffAgreed
  BY <1>1 DEF Init, OfferedIffAgreed, Acceptable, Empty
<1> QED
  BY <1>2 DEF Init, CallInv, Agrees, Counted, Unasked, Fresh, CalledAsAgreed, Idle

\* Closing a session leaves nothing of it behind.
LEMMA CloseKeeps ==
  ASSUME CallInv, Close, UNCHANGED <<registry, waiting, listings>>
  PROVE  CallInv'
BY DEF CallInv, Close, NoCall, Idle, Agrees, Counted, Unasked, Fresh, CalledAsAgreed,
       OfferedIffAgreed

LEMMA CallStep == TypeInv /\ CallInv /\ [Next]_vars => CallInv'
<1> SUFFICES ASSUME TypeInv, CallInv, [Next]_vars PROVE CallInv'
  OBVIOUS
<1>1. CASE Upgrade
  <2>1. PICK s \in Servers : /\ \A r \in Servers \ {s} : catalog'[r] = catalog[r]
                             /\ upgraded' = (upgraded \/ call.server = s)
    BY <1>1 DEF Upgrade, TypeInv, TypeOK
  <2>2. Agrees'
    BY <1>1, <2>1 DEF Upgrade, CallInv, Agrees, TypeInv, Going
  <2> QED
    BY <1>1, <2>1, <2>2
    DEF Upgrade, CallInv, Counted, Unasked, Fresh, CalledAsAgreed, OfferedIffAgreed
<1>2. CASE Discover
  BY <1>2 DEF Discover, Open, NoCall, Idle, CallInv, Agrees, Counted, Unasked, Fresh,
              CalledAsAgreed, OfferedIffAgreed
<1>3. CASE Invoke
  BY <1>3, McpAssumption
  DEF Invoke, Open, NoCall, Idle, CallInv, Agrees, Counted, Unasked, Fresh,
      CalledAsAgreed, OfferedIffAgreed
<1>4. CASE Opened
  <2>1. Agrees'
    BY <1>4 DEF Opened, CallInv, Fresh, Agrees, Empty, TypeInv, TypeOK
  <2> QED
    BY <1>4, <2>1 DEF Opened, CallInv, Counted, Unasked, Fresh, CalledAsAgreed,
                      OfferedIffAgreed, TypeInv, TypeOK
<1>5. CASE Page
  <2>1. PICK tools \in Pages(call.server) :
          /\ call'.got = Add(tools) /\ call'.pc \in {"list", "listed"}
          /\ call'.server = call.server /\ call'.alias = call.alias
    BY <1>5 DEF Page, TypeInv, TypeOK
  <2>2. tools \subseteq DOMAIN catalog[call.server]
    BY DEF Pages
  <2>3. Agrees'
    BY <1>5, <2>1, <2>2 DEF Page, CallInv, Agrees, Add
  <2> QED
    BY <1>5, <2>1, <2>3 DEF Page, CallInv, Counted, Unasked, Fresh, CalledAsAgreed,
                            OfferedIffAgreed
<1>6. CASE Admit
  <2>1. /\ call.server \in Servers /\ call.server \notin waiting
        /\ listings[call.server] = Empty /\ listings \in [Servers -> Catalogs]
    BY <1>6 DEF Admit, CallInv, Unasked, TypeInv, TypeOK, Going
  <2>2. /\ listings'[call.server] = call.got
        /\ \A s \in Servers \ {call.server} : listings'[s] = listings[s]
    BY <1>6, <2>1 DEF Admit
  <2>3. waiting \subseteq Servers /\ ServerOf \in [Aliases -> Servers]
    BY McpAssumption DEF TypeInv, TypeOK
  <2>4. \A t : ~Acceptable(listings[call.server], t)
    BY <2>1 DEF Acceptable, Empty
  <2>5. \A a \in Aliases :
          Acceptable(listings'[ServerOf[a]], RemoteOf[a]) <=>
            \/ Acceptable(listings[ServerOf[a]], RemoteOf[a])
            \/ ServerOf[a] = call.server /\ Acceptable(call.got, RemoteOf[a])
    <3> TAKE a \in Aliases
    <3>1. CASE ServerOf[a] = call.server
      BY <2>2, <2>4, <3>1
    <3>2. CASE ServerOf[a] # call.server
      BY <2>2, <2>3, <3>2
    <3> QED
      BY <3>1, <3>2
  <2>6. OfferedIffAgreed'
    BY <1>6, <2>5 DEF Admit, CallInv, OfferedIffAgreed
  <2>7. \A s \in waiting' : listings'[s] = Empty
    BY <1>6, <2>1, <2>2, <2>3 DEF Admit, CallInv, Unasked
  <2> QED
    BY <1>6, <2>6, <2>7
    DEF Admit, Close, NoCall, Idle, CallInv, Agrees, Counted, Unasked, Fresh, CalledAsAgreed
<1>7. CASE SendCall
  <2>1. /\ call' = [call EXCEPT !.pc = "called"]
        /\ calls' = calls + 1 /\ UNCHANGED <<registry, waiting, upgraded, listings>>
        /\ call.pc = "listed" /\ call.alias # None
    BY <1>7 DEF SendCall
  <2>2. /\ call'.pc = "called" /\ call'.alias = call.alias
    BY <2>1 DEF TypeInv, TypeOK
  <2>3. CalledAsAgreed'
    BY <1>7 DEF SendCall, CallInv, Agrees, Acceptable, Contract, CalledAsAgreed
  <2>4. Counted'
    BY <2>1, <2>2 DEF CallInv, Counted
  <2> QED
    BY <2>1, <2>2, <2>3, <2>4 DEF CallInv, Agrees, Unasked, Fresh, OfferedIffAgreed
<1>8. CASE BadPage \/ RefuseCall \/ Returns \/ Fails
  BY <1>8, CloseKeeps DEF BadPage, RefuseCall, Returns, Fails
<1>9. CASE Restart
  <2>1. OfferedIffAgreed'
    BY <1>9, McpAssumption DEF Restart, OfferedIffAgreed, Acceptable, Empty
  <2> QED
    BY <1>9, <2>1 DEF Restart, Close, NoCall, Idle, CallInv, Agrees, Counted, Unasked, Fresh,
                      CalledAsAgreed
<1>10. CASE UNCHANGED vars
  BY <1>10 DEF vars, CallInv, Agrees, Counted, Unasked, Fresh, CalledAsAgreed, OfferedIffAgreed
<1> QED
  BY <1>1, <1>2, <1>3, <1>4, <1>5, <1>6, <1>7, <1>8, <1>9, <1>10 DEF Next, Client

LEMMA CallHolds == Spec => [](TypeInv /\ CallInv)
BY TypeInit, TypeStep, CallInit, CallStep, PTL DEF Spec

\* The contract is looked at again in the session of each call (_get_contract
\* in invoke_tool), so only a change within that session goes unnoticed.
THEOREM CallsAreAgreed == Spec => []CalledAsAgreed
<1>1. CallInv => CalledAsAgreed
  BY DEF CallInv
<1> QED
  BY <1>1, CallHolds, PTL

\* An invocation calls its tool once at most, however it fails: invoke_tool
\* does not try again.
THEOREM CallsAreSingle == Spec => []CalledOnceAtMost
<1>1. CallInv => CalledOnceAtMost
  BY DEF CallInv, Counted, CalledOnceAtMost
<1> QED
  BY <1>1, CallHolds, PTL

\* register_mcp_tools offers exactly what was found as agreed, at whichever
\* server, and whatever else is refused there.
THEOREM OffersAreAgreed == Spec => []OfferedIffAgreed
<1>1. CallInv => OfferedIffAgreed
  BY DEF CallInv
<1> QED
  BY <1>1, CallHolds, PTL
=============================================================================
