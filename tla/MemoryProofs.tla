----------------------------- MODULE MemoryProofs -----------------------------
(***************************************************************************)
(* Theorems about Memory, for any sessions, names, facts and bounds.       *)
(*                                                                         *)
(* Sessions share no lock, so a session may rely on what it has seen only  *)
(* as long as no other is busy.  The invariant therefore holds until two   *)
(* have raced, and says of the busy one how what it holds in memory agrees *)
(* with the directories at each of its steps; QuietStep is why the others, *)
(* who are not busy, cannot disturb that.  Loads are never busy: what they *)
(* are due has to survive whatever a busy session does to the files.       *)
(***************************************************************************)
EXTENDS Memory, TLAPS, SequenceTheorems

-----------------------------------------------------------------------------
(* Directories and the model's proposals *)

LEMMA InDirectories ==
  ASSUME NEW dir
  PROVE  dir \in Directories <=>
           /\ dir = [n \in DOMAIN dir |-> dir[n]]
           /\ DOMAIN dir \subseteq Names
           /\ \A n \in DOMAIN dir : dir[n] \subseteq Facts
<1>1. ASSUME dir \in Directories
      PROVE  /\ dir = [n \in DOMAIN dir |-> dir[n]]
             /\ DOMAIN dir \subseteq Names
             /\ \A n \in DOMAIN dir : dir[n] \subseteq Facts
  <2>1. PICK D \in SUBSET Names : dir \in [D -> SUBSET Facts]
    BY <1>1 DEF Directories
  <2> QED
    BY <2>1
<1>2. ASSUME dir = [n \in DOMAIN dir |-> dir[n]], DOMAIN dir \subseteq Names,
             \A n \in DOMAIN dir : dir[n] \subseteq Facts
      PROVE  dir \in Directories
  <2>1. dir \in [DOMAIN dir -> SUBSET Facts]
    BY <1>2
  <2> QED
    BY <1>2, <2>1 DEF Directories
<1> QED
  BY <1>1, <1>2

\* A file more, a file written anew, a file less
LEMMA PutFile ==
  ASSUME NEW dir \in Directories, NEW n \in Names, NEW facts \in SUBSET Facts
  PROVE  /\ Put(dir, n, facts) \in Directories
         /\ DOMAIN Put(dir, n, facts) = DOMAIN dir \cup {n}
         /\ \A k \in DOMAIN dir \cup {n} :
              Put(dir, n, facts)[k] = IF k = n THEN facts ELSE dir[k]
<1>1. DOMAIN dir \subseteq Names /\ \A k \in DOMAIN dir : dir[k] \subseteq Facts
  BY InDirectories
<1>2. /\ DOMAIN Put(dir, n, facts) = DOMAIN dir \cup {n}
      /\ \A k \in DOMAIN dir \cup {n} :
           Put(dir, n, facts)[k] = IF k = n THEN facts ELSE dir[k]
  BY DEF Put
<1>3. Put(dir, n, facts) \in [DOMAIN dir \cup {n} -> SUBSET Facts]
  BY <1>1 DEF Put
<1> QED
  BY <1>1, <1>2, <1>3 DEF Directories

LEMMA RemoveFile ==
  ASSUME NEW dir \in Directories, NEW n
  PROVE  /\ Remove(dir, n) \in Directories
         /\ DOMAIN Remove(dir, n) = DOMAIN dir \ {n}
         /\ \A k \in DOMAIN dir \ {n} : Remove(dir, n)[k] = dir[k]
<1>1. DOMAIN dir \subseteq Names /\ \A k \in DOMAIN dir : dir[k] \subseteq Facts
  BY InDirectories
<1>2. /\ DOMAIN Remove(dir, n) = DOMAIN dir \ {n}
      /\ \A k \in DOMAIN dir \ {n} : Remove(dir, n)[k] = dir[k]
  BY DEF Remove, Restrict
<1>3. Remove(dir, n) \in [DOMAIN dir \ {n} -> SUBSET Facts]
  BY <1>1 DEF Remove, Restrict
<1> QED
  BY <1>1, <1>2, <1>3 DEF Directories

LEMMA NoFilesType == NoFiles \in Directories /\ DOMAIN NoFiles = {}
<1>1. NoFiles \in [{} -> SUBSET Facts] /\ DOMAIN NoFiles = {}
  BY DEF NoFiles
<1> QED
  BY <1>1 DEF Directories

LEMMA InFacts ==
  ASSUME NEW dir, NEW x
  PROVE  x \in FactsOf(dir) <=> \E n \in DOMAIN dir : x \in dir[n]
BY DEF FactsOf

LEMMA FactsType ==
  ASSUME NEW dir \in Directories
  PROVE  FactsOf(dir) \subseteq Facts
BY InDirectories, InFacts

LEMMA ProposalsAre ==
  ASSUME NEW todo
  PROVE  todo \in Proposals <=>
           todo \in Seq([name : Names, fact : Facts]) /\ Len(todo) \in 0..MaxNew
<1> DEFINE M == [name : Names, fact : Facts]
<1> HIDE DEF M
<1>1. ASSUME NEW k \in 0..MaxNew, todo \in [1..k -> M]
      PROVE  todo \in Seq(M) /\ Len(todo) = k
  <2>1. k \in Nat
    BY <1>1, MemoryAssumption DEF MemoryAssumption
  <2> QED
    BY <1>1, <2>1, SeqDef
<1>2. ASSUME todo \in Seq(M)
      PROVE  todo \in [1..Len(todo) -> M]
  BY <1>2
<1> QED
  BY <1>1, <1>2 DEF Proposals, M

LEMMA NoProposal == <<>> \in Proposals
<1>1. <<>> \in Seq([name : Names, fact : Facts]) /\ Len(<<>>) = 0
  OBVIOUS
<1>2. 0 \in 0..MaxNew
  BY MemoryAssumption DEF MemoryAssumption
<1> QED
  BY <1>1, <1>2, ProposalsAre

LEMMA NextProposal ==
  ASSUME NEW todo \in Proposals, todo # <<>>
  PROVE  /\ Head(todo).name \in Names /\ Head(todo).fact \in Facts
         /\ Tail(todo) \in Proposals
<1> DEFINE M == [name : Names, fact : Facts]
<1>1. todo \in Seq(M) /\ Len(todo) \in 0..MaxNew
  BY ProposalsAre
<1> HIDE DEF M
<1>2. Head(todo) \in M /\ Tail(todo) \in Seq(M) /\ Len(Tail(todo)) = Len(todo) - 1
  BY <1>1
<1>3. MaxNew \in Nat /\ Len(todo) # 0
  BY <1>1, MemoryAssumption DEF MemoryAssumption
<1>4. Len(Tail(todo)) \in 0..MaxNew
  BY <1>1, <1>2, <1>3
<1> QED
  BY <1>2, <1>4, ProposalsAre DEF M

-----------------------------------------------------------------------------
(* Types *)

LEMMA QuietType == Quiet \in Locals /\ Quiet.pc = "idle" /\ Quiet.names = {}
BY NoFilesType, NoProposal DEF Quiet, Locals

\* The session that takes a step is the only one whose locals change.
LEMMA LocalsStep ==
  ASSUME TypeOK, NEW s \in Sessions, Step(s)
  PROVE  /\ sess' \in [Sessions -> Locals]
         /\ InLoop(sess'[s])
         /\ \A r \in Sessions \ {s} : sess'[r] = sess[r]
<1> DEFINE Goal == /\ sess' \in [Sessions -> Locals]
                   /\ InLoop(sess'[s])
                   /\ \A r \in Sessions \ {s} : sess'[r] = sess[r]
<1>0. /\ sess \in [Sessions -> Locals] /\ sess[s] \in Locals /\ InLoop(sess[s])
      /\ files \in Directories /\ tmp.files \in Directories
  BY DEF TypeOK
<1>a. ASSUME NEW l \in Locals, InLoop(l), sess' = [sess EXCEPT ![s] = l]
      PROVE  Goal
  BY <1>0, <1>a
<1>b. ASSUME End(s) PROVE Goal
  <2>1. InLoop(Quiet)
    BY QuietType DEF InLoop
  <2> QED
    BY <1>b, <1>a, <2>1, QuietType DEF End
<1>c. ASSUME NEW todo \in Proposals, NextMemory(s, todo) PROVE Goal
  <2> DEFINE pc == IF todo = <<>> THEN "list" ELSE "check"
  <2> DEFINE l == [Quiet EXCEPT !.pc = pc, !.todo = todo]
  <2>1. sess' = [sess EXCEPT ![s] = l]
    BY <1>c DEF NextMemory
  <2>2. pc \in {"list", "check"} /\ (pc = "check" => todo # <<>>)
    OBVIOUS
  <2> HIDE DEF pc
  <2>3. l \in Locals /\ l.pc = pc /\ l.todo = todo
    BY <2>2, QuietType DEF Locals
  <2> HIDE DEF l
  <2>4. InLoop(l)
    BY <2>2, <2>3 DEF InLoop
  <2> QED
    BY <1>a, <2>1, <2>3, <2>4
<1>d. ASSUME NEW pc \in {"list", "ask", "scan", "fill", "place", "move", "clean", "sweep"},
             pc \in {"ask", "fill", "place", "move", "clean"} \/ (pc = "scan" /\ sess[s].todo = <<>>)
               => sess[s].merging,
             Go(s, pc)
      PROVE  Goal
  <2> DEFINE l == [sess[s] EXCEPT !.pc = pc]
  <2>1. l \in Locals /\ l.pc = pc /\ l.merging = sess[s].merging /\ l.todo = sess[s].todo
    BY <1>0 DEF Locals
  <2>2. sess' = [sess EXCEPT ![s] = l]
    BY <1>d DEF Go
  <2> HIDE DEF l
  <2>3. InLoop(l)
    BY <1>0, <1>d, <2>1 DEF InLoop, Locals
  <2> QED
    BY <1>a, <2>1, <2>2, <2>3
<1>e. DOMAIN files \subseteq Names /\ Listed \subseteq Names /\ FactsOf(files) \subseteq Facts
  BY <1>0, InDirectories, FactsType DEF Listed
<1> SUFFICES Goal
  OBVIOUS
<1> HIDE DEF Goal
<1>1. CASE Load(s)
  <2>1. PICK names \in Chosen :
          sess' = [sess EXCEPT ![s].names = names, ![s].pc = IF names = {} THEN "chat" ELSE "load"]
    BY <1>1 DEF Load
  <2> DEFINE pc == IF names = {} THEN "chat" ELSE "load"
  <2> DEFINE l == [sess[s] EXCEPT !.names = names, !.pc = pc]
  <2>2. names \subseteq Names
    BY <1>e DEF Chosen
  <2>3. pc \in {"chat", "load"} /\ sess' = [sess EXCEPT ![s] = l]
    BY <2>1
  <2> HIDE DEF pc
  <2>4. l \in Locals /\ l.pc = pc
    BY <1>0, <2>2, <2>3 DEF Locals
  <2>5. InLoop(l)
    BY <2>3, <2>4 DEF InLoop
  <2> QED
    BY <1>a, <2>3, <2>4, <2>5
<1>2. CASE ReadBody(s)
  <2>1. PICK n \in sess[s].names :
          IF n \in DOMAIN files
          THEN sess' = [sess EXCEPT ![s].names = @ \ {n},
                                    ![s].read = @ \cup files[n],
                                    ![s].pc = IF sess[s].names = {n} THEN "chat" ELSE "load"]
          ELSE End(s)
    BY <1>2 DEF ReadBody
  <2>2. CASE n \in DOMAIN files
    <3> DEFINE pc == IF sess[s].names = {n} THEN "chat" ELSE "load"
    <3> DEFINE l == [sess[s] EXCEPT !.names = @ \ {n}, !.read = @ \cup files[n], !.pc = pc]
    <3>1. files[n] \subseteq Facts
      BY <1>0, <2>2, InDirectories
    <3>2. pc \in {"chat", "load"}
      OBVIOUS
    <3>3. sess' = [sess EXCEPT ![s] = l]
      BY <2>1, <2>2
    <3> HIDE DEF pc
    <3>4. l \in Locals /\ l.pc = pc
      BY <1>0, <3>1, <3>2 DEF Locals
    <3>5. InLoop(l)
      BY <3>2, <3>4 DEF InLoop
    <3> QED
      BY <1>a, <3>3, <3>4, <3>5
  <2> QED
    BY <1>b, <2>1, <2>2
<1>3. CASE Extract(s)
  BY <1>3, <1>c DEF Extract
<1>4. CASE CheckName(s)
  <2>1. sess[s].todo # <<>>
    BY <1>0, <1>4 DEF CheckName, InLoop
  <2>2. Tail(sess[s].todo) \in Proposals
    BY <1>0, <2>1, NextProposal DEF Locals
  <2>3. ASSUME Go(s, "write") PROVE Goal
    <3> DEFINE l == [sess[s] EXCEPT !.pc = "write"]
    <3>1. l \in Locals /\ l.pc = "write" /\ l.todo = sess[s].todo
      BY <1>0 DEF Locals
    <3>2. sess' = [sess EXCEPT ![s] = l]
      BY <2>3 DEF Go
    <3> HIDE DEF l
    <3>3. InLoop(l)
      BY <2>1, <3>1 DEF InLoop
    <3> QED
      BY <1>a, <3>1, <3>2, <3>3
  <2> QED
    BY <1>4, <1>c, <2>2, <2>3 DEF CheckName
<1>5. CASE Scan(s)
  <2> DEFINE l == [sess[s] EXCEPT !.names = Listed, !.pc = "index"]
  <2>1. l \in Locals /\ l.pc = "index" /\ l.merging = sess[s].merging /\ l.todo = sess[s].todo
    BY <1>0, <1>e DEF Locals
  <2>2. sess' = [sess EXCEPT ![s] = l]
    BY <1>5 DEF Scan
  <2> HIDE DEF l
  <2>3. InLoop(l)
    BY <1>0, <1>5, <2>1 DEF InLoop, Scan
  <2> QED
    BY <1>a, <2>1, <2>2, <2>3
<1>6. CASE WriteIndex(s)
  <2>1. CASE sess[s].merging
    BY <1>6, <1>d, <2>1 DEF WriteIndex
  <2>2. CASE ~sess[s].merging
    <3>1. sess[s].todo # <<>>
      BY <1>0, <1>6, <2>2 DEF WriteIndex, InLoop
    <3>2. Tail(sess[s].todo) \in Proposals
      BY <1>0, <3>1, NextProposal DEF Locals
    <3> QED
      BY <1>6, <1>c, <2>2, <3>2 DEF WriteIndex
  <2> QED
    BY <2>1, <2>2
<1>7. CASE ListAll(s)
  <2> DEFINE l == [sess[s] EXCEPT !.names = Listed, !.merging = TRUE, !.pc = "corpus"]
  <2>1. l \in Locals /\ l.pc = "corpus" /\ l.merging
    BY <1>0, <1>e DEF Locals
  <2>2. End(s) \/ sess' = [sess EXCEPT ![s] = l]
    BY <1>7 DEF ListAll
  <2> HIDE DEF l
  <2>3. InLoop(l)
    BY <2>1 DEF InLoop
  <2> QED
    BY <1>a, <1>b, <2>1, <2>2, <2>3
<1>8. CASE ReadCorpus(s)
  <2> DEFINE got == UNION {files[n] : n \in sess[s].names}
  <2> DEFINE l == [sess[s] EXCEPT !.read = got, !.names = {}, !.pc = "ask"]
  <2>1. End(s) \/ (sess[s].names \subseteq DOMAIN files /\ sess' = [sess EXCEPT ![s] = l])
    BY <1>8 DEF ReadCorpus
  <2>2. sess[s].names \subseteq DOMAIN files => got \subseteq Facts
    BY <1>0, InDirectories
  <2> HIDE DEF got
  <2>3. sess[s].names \subseteq DOMAIN files =>
          l \in Locals /\ l.pc = "ask" /\ l.merging = sess[s].merging
    BY <1>0, <2>2 DEF Locals
  <2> HIDE DEF l
  <2>4. sess[s].names \subseteq DOMAIN files => InLoop(l)
    BY <1>0, <1>8, <2>3 DEF InLoop, ReadCorpus
  <2> QED
    BY <1>a, <1>b, <2>1, <2>3, <2>4
<1>9. CASE Prepare(s)
  <2>1. PICK a \in Answers(sess[s].read) :
          sess' = [sess EXCEPT ![s].fresh = a, ![s].old = DOMAIN files, ![s].pc = "fill"]
    BY <1>9 DEF Prepare
  <2> DEFINE l == [sess[s] EXCEPT !.fresh = a, !.old = DOMAIN files, !.pc = "fill"]
  <2>2. a \in Directories
    BY DEF Answers
  <2>3. l \in Locals /\ l.pc = "fill" /\ l.merging = sess[s].merging
    BY <1>0, <1>e, <2>2 DEF Locals
  <2>4. sess' = [sess EXCEPT ![s] = l]
    BY <2>1
  <2> HIDE DEF l
  <2>5. InLoop(l)
    BY <1>0, <1>9, <2>3 DEF InLoop, Prepare
  <2> QED
    BY <1>a, <2>3, <2>4, <2>5
<1>10. CASE Place(s)
  <2> DEFINE new == DOMAIN tmp.files
  <2> DEFINE pc == IF new = {} THEN "clean" ELSE "move"
  <2> DEFINE l == [sess[s] EXCEPT !.names = new, !.old = @ \ new, !.pc = pc]
  <2>1. new \subseteq Names
    BY <1>0, InDirectories
  <2>2. sess' = [sess EXCEPT ![s] = l]
    BY <1>10 DEF Place
  <2>3. pc \in {"clean", "move"}
    OBVIOUS
  <2> HIDE DEF new, pc
  <2>4. l \in Locals /\ l.pc = pc /\ l.merging = sess[s].merging
    BY <1>0, <2>1, <2>3 DEF Locals
  <2> HIDE DEF l
  <2>5. InLoop(l)
    BY <1>0, <1>10, <2>3, <2>4 DEF InLoop, Place
  <2> QED
    BY <1>a, <2>2, <2>4, <2>5
<1>11. CASE Move(s)
  <2>1. PICK n \in sess[s].names :
          sess' = [sess EXCEPT ![s].names = @ \ {n},
                               ![s].pc = IF sess[s].names = {n} THEN "clean" ELSE "move"]
    BY <1>11 DEF Move
  <2> DEFINE pc == IF sess[s].names = {n} THEN "clean" ELSE "move"
  <2> DEFINE l == [sess[s] EXCEPT !.names = @ \ {n}, !.pc = pc]
  <2>2. pc \in {"clean", "move"}
    OBVIOUS
  <2>3. sess' = [sess EXCEPT ![s] = l]
    BY <2>1
  <2> HIDE DEF pc
  <2>4. l \in Locals /\ l.pc = pc /\ l.merging = sess[s].merging
    BY <1>0, <2>2 DEF Locals
  <2> HIDE DEF l
  <2>5. InLoop(l)
    BY <1>0, <1>11, <2>2, <2>4 DEF InLoop, Move
  <2> QED
    BY <1>a, <2>3, <2>4, <2>5
<1>12. CASE Clean(s)
  <2>1. sess[s].merging
    BY <1>0, <1>12 DEF Clean, InLoop
  <2>2. ASSUME NEW n, sess' = [sess EXCEPT ![s].old = @ \ {n}]
        PROVE  Goal
    <3> DEFINE l == [sess[s] EXCEPT !.old = @ \ {n}]
    <3>1. l \in Locals /\ l.pc = sess[s].pc /\ l.merging = sess[s].merging /\ l.todo = sess[s].todo
      BY <1>0 DEF Locals
    <3>2. sess' = [sess EXCEPT ![s] = l]
      BY <2>2
    <3> HIDE DEF l
    <3>3. InLoop(l)
      BY <1>0, <3>1 DEF InLoop
    <3> QED
      BY <1>a, <3>1, <3>2, <3>3
  <2> QED
    BY <1>12, <1>d, <2>1, <2>2 DEF Clean
<1>13. CASE Fill(s)
  <2>1. sess[s].merging
    BY <1>0, <1>13 DEF Fill, InLoop
  <2> QED
    BY <1>13, <1>b, <1>d, <2>1 DEF Fill
<1>14. CASE Leave(s) \/ NoAnswer(s) \/ Sweep(s) \/ Killed(s)
  BY <1>14, <1>b DEF Leave, NoAnswer, Sweep, Killed
<1>15. CASE Raises(s)
  BY <1>15, <1>b, <1>d DEF Raises
<1>16. CASE WriteFile(s)
  <2>1. sess[s].todo # <<>>
    BY <1>0, <1>16 DEF WriteFile, InLoop
  <2> QED
    BY <1>16, <1>d, <2>1 DEF WriteFile
<1> QED
  BY <1>1, <1>2, <1>3, <1>4, <1>5, <1>6, <1>7, <1>8, <1>9, <1>10, <1>11, <1>12, <1>13,
     <1>14, <1>15, <1>16 DEF Step

\* What a step does to the directories, the index and the histories
LEMMA FilesStep ==
  ASSUME TypeOK, NEW s \in Sessions, Step(s)
  PROVE  /\ files' \in Directories
         /\ tmp' \in [there : BOOLEAN, files : Directories] /\ (tmp'.there \/ tmp'.files = NoFiles)
         /\ index' \subseteq Names /\ owed' \subseteq Facts /\ adrift' \subseteq Facts
         /\ torn' \in BOOLEAN
<1>0. /\ sess[s] \in Locals /\ InLoop(sess[s])
      /\ files \in Directories /\ tmp.files \in Directories /\ tmp.there \in BOOLEAN
      /\ tmp \in [there : BOOLEAN, files : Directories] /\ (tmp.there \/ tmp.files = NoFiles)
      /\ index \subseteq Names /\ owed \subseteq Facts /\ adrift \subseteq Facts /\ torn \in BOOLEAN
  BY DEF TypeOK
<1>1. NoTmp \in [there : BOOLEAN, files : Directories] /\ NoTmp.files = NoFiles
  BY NoFilesType DEF NoTmp
<1>2. CASE WriteFile(s)
  <2>1. Head(sess[s].todo).name \in Names /\ Head(sess[s].todo).fact \in Facts
    BY <1>0, <1>2, NextProposal DEF WriteFile, InLoop, Locals
  <2>2. files' = Put(files, Head(sess[s].todo).name, {Head(sess[s].todo).fact})
    BY <1>2 DEF WriteFile
  <2>3. files' \in Directories
    <3> DEFINE said == {Head(sess[s].todo).fact}
    <3>1. said \in SUBSET Facts
      BY <2>1
    <3>2. files' = Put(files, Head(sess[s].todo).name, said)
      BY <2>2
    <3> HIDE DEF said
    <3>3. Put(files, Head(sess[s].todo).name, said) \in Directories
      BY <1>0, <2>1, <3>1, PutFile
    <3> QED
      BY <3>2, <3>3
  <2> QED
    BY <1>0, <1>2, <2>1, <2>3 DEF WriteFile
<1>3. CASE WriteIndex(s)
  BY <1>0, <1>3 DEF WriteIndex, Locals
<1>4. CASE Prepare(s)
  BY <1>0, <1>4, NoFilesType DEF Prepare, HistorySame
<1>5. CASE Fill(s)
  <2>1. CASE tmp' = NoTmp
    BY <1>0, <1>1, <1>5, <2>1 DEF Fill, HistorySame
  <2>2. CASE tmp.there /\ tmp' = [tmp EXCEPT !.files = [n \in DOMAIN @ \cup DOMAIN sess[s].fresh |->
               IF n \in DOMAIN sess[s].fresh THEN sess[s].fresh[n] ELSE @[n]]]
    <3> DEFINE both == [n \in DOMAIN tmp.files \cup DOMAIN sess[s].fresh |->
                          IF n \in DOMAIN sess[s].fresh THEN sess[s].fresh[n] ELSE tmp.files[n]]
    <3>1. sess[s].fresh \in Directories
      BY <1>0 DEF Locals
    <3>2. both \in [DOMAIN tmp.files \cup DOMAIN sess[s].fresh -> SUBSET Facts]
      BY <1>0, <3>1, InDirectories
    <3>3. DOMAIN tmp.files \cup DOMAIN sess[s].fresh \subseteq Names
      BY <1>0, <3>1, InDirectories
    <3>4. both \in Directories
      BY <3>2, <3>3 DEF Directories
    <3>5. tmp' = [tmp EXCEPT !.files = both]
      BY <2>2
    <3> HIDE DEF both
    <3>6. tmp' \in [there : BOOLEAN, files : Directories] /\ tmp'.there
      BY <1>0, <2>2, <3>4, <3>5
    <3> QED
      BY <1>0, <1>5, <3>6 DEF Fill, HistorySame
  <2> QED
    BY <1>5, <2>1, <2>2 DEF Fill
<1>6. CASE Place(s)
  BY <1>0, <1>6, FactsType DEF Place
<1>7. CASE Move(s)
  <2>1. PICK n \in sess[s].names \cap DOMAIN tmp.files :
          /\ files' = Put(files, n, tmp.files[n])
          /\ tmp' = [tmp EXCEPT !.files = Remove(@, n)]
          /\ adrift' = IF sess[s].names = {n} THEN adrift \ FactsOf(sess[s].fresh) ELSE adrift
    BY <1>7 DEF Move
  <2>2. n \in Names /\ tmp.files[n] \in SUBSET Facts
    BY <1>0, InDirectories
  <2>3. files' \in Directories
    BY <1>0, <2>1, <2>2, PutFile
  <2>4. Remove(tmp.files, n) \in Directories /\ tmp.there
    BY <1>0, <2>1, RemoveFile, NoFilesType
  <2>5. tmp' \in [there : BOOLEAN, files : Directories] /\ tmp'.there
    BY <1>0, <2>1, <2>4
  <2> QED
    BY <1>0, <1>7, <2>1, <2>3, <2>5 DEF Move
<1>8. CASE Clean(s)
  <2>1. files' \in Directories
    <3>1. files' = files \/ \E n : files' = Remove(files, n)
      BY <1>8 DEF Clean
    <3>2. \A n : Remove(files, n) \in Directories
      BY <1>0, RemoveFile
    <3> QED
      BY <1>0, <3>1, <3>2
  <2> QED
    BY <1>0, <1>8, <2>1 DEF Clean, HistorySame
<1>9. CASE Sweep(s)
  BY <1>0, <1>1, <1>9 DEF Sweep, HistorySame
<1>10. CASE Killed(s)
  <2>1. sess[s].pc = "write" => Head(sess[s].todo).name \in Names
    BY <1>0, NextProposal DEF InLoop, Locals
  <2>2. files' \in Directories
    <3>1. \/ files' = files
          \/ sess[s].pc = "write" /\ files' = Put(files, Head(sess[s].todo).name, {})
      BY <1>10 DEF Killed
    <3>2. {} \in SUBSET Facts
      OBVIOUS
    <3>3. sess[s].pc = "write" => Put(files, Head(sess[s].todo).name, {}) \in Directories
      BY <1>0, <2>1, <3>2, PutFile
    <3> QED
      BY <1>0, <3>1, <3>3
  <2>3. torn' \in BOOLEAN
    BY <1>0, <1>10 DEF Killed, Tears
  <2> QED
    BY <1>0, <1>10, <2>2, <2>3 DEF Killed
<1>11. CASE Raises(s)
  <2>1. torn' \in BOOLEAN
    BY <1>0, <1>11 DEF Raises, Tears
  <2> QED
    BY <1>0, <1>11, <2>1 DEF Raises
<1>12. CASE \/ Load(s) \/ ReadBody(s) \/ Leave(s) \/ Extract(s) \/ CheckName(s) \/ Scan(s)
            \/ ListAll(s) \/ ReadCorpus(s) \/ NoAnswer(s)
  BY <1>0, <1>12 DEF Load, ReadBody, Leave, Extract, CheckName, Scan, ListAll, ReadCorpus,
     NoAnswer, HistorySame
<1> QED
  BY <1>2, <1>3, <1>4, <1>5, <1>6, <1>7, <1>8, <1>9, <1>10, <1>11, <1>12 DEF Step

LEMMA TypeStep == TypeOK /\ [Next]_vars => TypeOK'
<1> SUFFICES ASSUME TypeOK, [Next]_vars
             PROVE  TypeOK'
  OBVIOUS
<1>1. CASE UNCHANGED vars
  BY <1>1 DEF vars, TypeOK, InLoop
<1>2. CASE Next
  <2>1. PICK s \in Sessions : Step(s)
    BY <1>2 DEF Next
  <2>2. sess' \in [Sessions -> Locals] /\ \A r \in Sessions : InLoop(sess'[r])
    BY <2>1, LocalsStep DEF TypeOK
  <2>3. /\ files' \in Directories
        /\ tmp' \in [there : BOOLEAN, files : Directories] /\ (tmp'.there \/ tmp'.files = NoFiles)
        /\ index' \subseteq Names /\ owed' \subseteq Facts /\ adrift' \subseteq Facts
        /\ torn' \in BOOLEAN
    BY <2>1, FilesStep
  <2>4. raced' \in BOOLEAN
    BY <1>2 DEF Next, TypeOK
  <2>5. due' \in [Sessions -> SUBSET Facts]
    <3>1. \A r \in Sessions : DueNext(r) \subseteq Facts
      BY DEF DueNext, TypeOK
    <3>2. due' = [r \in Sessions |-> DueNext(r)]
      BY <1>2 DEF Next
    <3> QED
      BY <3>1, <3>2
  <2> QED
    BY <2>2, <2>3, <2>4, <2>5 DEF TypeOK, InLoop
<1> QED
  BY <1>1, <1>2

LEMMA TypeInit == Init => TypeOK
<1> SUFFICES ASSUME Init
             PROVE  TypeOK
  OBVIOUS
<1>1. InLoop(Quiet)
  BY QuietType DEF InLoop
<1>2. \A s \in Sessions : sess[s] = Quiet
  BY DEF Init
<1> QED
  BY <1>1, <1>2, NoFilesType, QuietType DEF Init, TypeOK, NoTmp

-----------------------------------------------------------------------------
(* The invariant.  All but the types holds as long as two sessions have not  *)
(* raced: until then at most one of them is busy.                            *)

OneBusy == \A s, r \in Sessions : Busy(s) /\ Busy(r) => s = r

\* What a writer has found out before it changes anything, ...
SeenInv(s) ==
  /\ sess[s].pc = "write" => Head(sess[s].todo).name \notin DOMAIN files
  /\ sess[s].pc \in {"index", "corpus"} => sess[s].names = Listed
  /\ sess[s].pc \in {"ask", "fill", "place"} => sess[s].read = FactsOf(files)

\* ... the answer it is to put in place, ...
AnswerInv(s) ==
  /\ sess[s].pc \in {"fill", "place", "move", "clean"} =>
       DOMAIN sess[s].fresh # {} /\ FactsOf(sess[s].fresh) \subseteq sess[s].read
  /\ sess[s].pc = "fill" => DOMAIN tmp.files = {}
  /\ sess[s].pc = "place" => DOMAIN tmp.files = DOMAIN sess[s].fresh
  /\ sess[s].pc = "move" =>
       DOMAIN tmp.files = sess[s].names /\ sess[s].names \subseteq DOMAIN sess[s].fresh
  /\ sess[s].pc \in {"place", "move"} =>
       \A n \in DOMAIN tmp.files : tmp.files[n] = sess[s].fresh[n]

\* ... and how far it has got: files in place say what the answer says, and a fact
\* that a move takes out of a file, but that is still owed, is adrift.
MovedInv(s) ==
  /\ sess[s].pc \in {"move", "clean"} =>
       /\ FactsOf(files) \subseteq sess[s].read
       /\ owed \cap sess[s].read \subseteq FactsOf(sess[s].fresh)
       /\ sess[s].old \cap DOMAIN sess[s].fresh = {}
       /\ \A n \in DOMAIN sess[s].fresh :
            sess[s].pc = "clean" \/ n \notin sess[s].names =>
              n \in DOMAIN files /\ files[n] = sess[s].fresh[n]
  /\ sess[s].pc = "move" =>
       \A n \in sess[s].names \cap DOMAIN files :
         (files[n] \ sess[s].fresh[n]) \cap FactsOf(sess[s].fresh) \subseteq adrift

WorkInv(s) == SeenInv(s) /\ AnswerInv(s) /\ MovedInv(s)

KeptInv == owed \ adrift \subseteq FactsOf(files)

IndexInv == torn \/ (\E s \in Sessions : Tears(s)) \/ index = Listed

\* A load that can still end well reads what it is due, or has read it.
LoadInv(s) ==
  /\ due[s] \subseteq owed \ adrift
  /\ sess[s].pc = "chat" => sess[s].names = {}
  /\ sess[s].pc \in {"load", "chat"} /\ sess[s].names \subseteq DOMAIN files =>
       \A x \in due[s] : x \in sess[s].read \/ \E n \in sess[s].names : x \in files[n]

SafeInv == /\ OneBusy /\ KeptInv /\ IndexInv
           /\ \A s \in Sessions : WorkInv(s) /\ LoadInv(s)

IInv == TypeOK /\ (raced \/ SafeInv)

-----------------------------------------------------------------------------
(* What a step leaves alone *)

\* A session that is not busy changes no file and no index.
LEMMA QuietStep ==
  ASSUME TypeOK, NEW s \in Sessions, Step(s), ~Busy(s)
  PROVE  UNCHANGED <<files, tmp, index, owed, adrift, torn>>
<1>1. /\ ~WriteFile(s) /\ ~Scan(s) /\ ~WriteIndex(s) /\ ~ReadCorpus(s) /\ ~NoAnswer(s)
      /\ ~Prepare(s) /\ ~Fill(s) /\ ~Place(s) /\ ~Move(s) /\ ~Clean(s) /\ ~Sweep(s) /\ ~Raises(s)
  BY DEF Busy, WriteFile, Scan, WriteIndex, ReadCorpus, NoAnswer, Prepare, Fill, Place, Move,
     Clean, Sweep, Raises
<1>2. CASE \/ Load(s) \/ ReadBody(s) \/ Leave(s) \/ Extract(s) \/ CheckName(s) \/ ListAll(s)
  BY <1>2 DEF Load, ReadBody, Leave, Extract, CheckName, ListAll, HistorySame
<1>3. CASE Killed(s)
  <2>1. ~Tears(s) /\ sess[s].pc # "write" /\ torn \in BOOLEAN
    BY DEF Busy, Tears, TypeOK
  <2> QED
    BY <1>3, <2>1 DEF Killed
<1> QED
  BY <1>1, <1>2, <1>3 DEF Step

\* Where a step leads
LEMMA PcGo ==
  ASSUME TypeOK, NEW s \in Sessions
  PROVE  /\ \A pc : Go(s, pc) => sess'[s].pc = pc
         /\ End(s) => sess'[s].pc = "idle"
         /\ \A todo : NextMemory(s, todo) => sess'[s].pc \in {"list", "check"}
<1>0. sess \in [Sessions -> Locals] /\ sess[s] \in Locals
  BY DEF TypeOK
<1>1. ASSUME NEW pc, Go(s, pc) PROVE sess'[s].pc = pc
  BY <1>0, <1>1 DEF Go, Locals
<1>2. ASSUME End(s) PROVE sess'[s].pc = "idle"
  BY <1>0, <1>2, QuietType DEF End
<1>3. ASSUME NEW todo, NextMemory(s, todo) PROVE sess'[s].pc \in {"list", "check"}
  BY <1>0, <1>3, QuietType DEF NextMemory, Locals
<1> QED
  BY <1>1, <1>2, <1>3

LEMMA PcStep ==
  ASSUME TypeOK, NEW s \in Sessions
  PROVE  /\ Load(s) => sess'[s].pc \in {"load", "chat"}
         /\ ReadBody(s) => sess'[s].pc \in {"load", "chat", "idle"}
         /\ Leave(s) \/ NoAnswer(s) \/ Sweep(s) \/ Killed(s) => sess'[s].pc = "idle"
         /\ Extract(s) => sess'[s].pc \in {"list", "check"}
         /\ CheckName(s) => sess'[s].pc \in {"write", "list", "check"}
         /\ WriteFile(s) => sess'[s].pc = "scan"
         /\ Scan(s) => sess'[s].pc = "index"
         /\ WriteIndex(s) => sess'[s].pc \in {"sweep", "list", "check"}
         /\ ListAll(s) => sess'[s].pc \in {"corpus", "idle"}
         /\ ReadCorpus(s) => sess'[s].pc \in {"ask", "idle"}
         /\ Prepare(s) => sess'[s].pc = "fill"
         /\ Fill(s) => sess'[s].pc \in {"place", "idle"}
         /\ Place(s) \/ Move(s) => sess'[s].pc \in {"move", "clean"}
         /\ Clean(s) => sess'[s].pc \in {"clean", "scan"}
         /\ Raises(s) => sess'[s].pc \in {"sweep", "idle"}
<1>0. sess \in [Sessions -> Locals] /\ sess[s] \in Locals
  BY DEF TypeOK
<1>1. Load(s) => sess'[s].pc \in {"load", "chat"}
  <2> SUFFICES ASSUME Load(s) PROVE sess'[s].pc \in {"load", "chat"}
    OBVIOUS
  <2>1. PICK names :
          sess' = [sess EXCEPT ![s].names = names, ![s].pc = IF names = {} THEN "chat" ELSE "load"]
    BY DEF Load
  <2>2. sess'[s].pc = IF names = {} THEN "chat" ELSE "load"
    BY <1>0, <2>1 DEF Locals
  <2> QED
    BY <2>2
<1>2. ReadBody(s) => sess'[s].pc \in {"load", "chat", "idle"}
  <2>1. ASSUME NEW n,
               sess' = [sess EXCEPT ![s].names = @ \ {n},
                                    ![s].read = @ \cup files[n],
                                    ![s].pc = IF sess[s].names = {n} THEN "chat" ELSE "load"]
        PROVE  sess'[s].pc \in {"chat", "load"}
    BY <1>0, <2>1 DEF Locals
  <2> QED
    BY <2>1, PcGo DEF ReadBody
<1>3. Leave(s) \/ NoAnswer(s) \/ Sweep(s) \/ Killed(s) => sess'[s].pc = "idle"
  BY PcGo DEF Leave, NoAnswer, Sweep, Killed
<1>4. Extract(s) => sess'[s].pc \in {"list", "check"}
  BY PcGo DEF Extract
<1>5. /\ CheckName(s) => sess'[s].pc \in {"write", "list", "check"}
      /\ WriteFile(s) => sess'[s].pc = "scan"
  BY PcGo DEF CheckName, WriteFile
<1>6. /\ Scan(s) => sess'[s].pc = "index"
      /\ WriteIndex(s) => sess'[s].pc \in {"sweep", "list", "check"}
  BY <1>0, PcGo DEF Scan, WriteIndex, Locals
<1>7. ListAll(s) => sess'[s].pc \in {"corpus", "idle"}
  BY <1>0, PcGo DEF ListAll, Locals
<1>8. ReadCorpus(s) => sess'[s].pc \in {"ask", "idle"}
  <2>1. ASSUME NEW read, sess' = [sess EXCEPT ![s].read = read, ![s].names = {}, ![s].pc = "ask"]
        PROVE  sess'[s].pc = "ask"
    BY <1>0, <2>1 DEF Locals
  <2> QED
    BY <2>1, PcGo DEF ReadCorpus
<1>9. Prepare(s) => sess'[s].pc = "fill"
  BY <1>0 DEF Prepare, Locals
<1>10. Fill(s) => sess'[s].pc \in {"place", "idle"}
  BY PcGo DEF Fill
<1>11. Place(s) => sess'[s].pc \in {"move", "clean"}
  <2>1. ASSUME NEW names, NEW old, NEW pc,
               sess' = [sess EXCEPT ![s].names = names, ![s].old = old, ![s].pc = pc]
        PROVE  sess'[s].pc = pc
    BY <1>0, <2>1 DEF Locals
  <2>2. Place(s) => \E names, old : \E pc \in {"move", "clean"} :
          sess' = [sess EXCEPT ![s].names = names, ![s].old = old, ![s].pc = pc]
    BY DEF Place
  <2> QED
    BY <2>1, <2>2
<1>12. Move(s) => sess'[s].pc \in {"move", "clean"}
  <2>1. ASSUME NEW n,
               sess' = [sess EXCEPT ![s].names = @ \ {n},
                                    ![s].pc = IF sess[s].names = {n} THEN "clean" ELSE "move"]
        PROVE  sess'[s].pc \in {"move", "clean"}
    BY <1>0, <2>1 DEF Locals
  <2> QED
    BY <2>1 DEF Move
<1>13. Clean(s) => sess'[s].pc \in {"clean", "scan"}
  BY <1>0, PcGo DEF Clean, Locals
<1>14. Raises(s) => sess'[s].pc \in {"sweep", "idle"}
  BY PcGo DEF Raises
<1> QED
  BY <1>1, <1>2, <1>3, <1>4, <1>5, <1>6, <1>7, <1>8, <1>9, <1>10, <1>11, <1>12, <1>13, <1>14

LEMMA NoWork ==
  ASSUME NEW s \in Sessions,
         sess'[s].pc \in {"idle", "load", "chat", "check", "list", "scan", "sweep"}
  PROVE  WorkInv(s)'
BY DEF WorkInv, SeenInv, AnswerInv, MovedInv

\* A file is put in place of the one with its name, ...
LEMMA MoveStep ==
  ASSUME TypeOK, NEW s \in Sessions, WorkInv(s), Move(s)
  PROVE  \E n \in sess[s].names \cap DOMAIN sess[s].fresh :
           /\ DOMAIN files' = DOMAIN files \cup {n}
           /\ files'[n] = sess[s].fresh[n]
           /\ \A k \in DOMAIN files : k # n => files'[k] = files[k]
           /\ DOMAIN tmp'.files = DOMAIN tmp.files \ {n}
           /\ \A k \in DOMAIN tmp.files \ {n} : tmp'.files[k] = tmp.files[k]
           /\ sess'[s].pc = IF sess[s].names = {n} THEN "clean" ELSE "move"
           /\ sess'[s].names = sess[s].names \ {n}
           /\ sess'[s].old = sess[s].old /\ sess'[s].fresh = sess[s].fresh
           /\ sess'[s].read = sess[s].read
           /\ adrift' = IF sess[s].names = {n} THEN adrift \ FactsOf(sess[s].fresh) ELSE adrift
           /\ owed' = owed
<1>0. /\ sess \in [Sessions -> Locals] /\ sess[s] \in Locals
      /\ files \in Directories /\ tmp \in [there : BOOLEAN, files : Directories]
  BY DEF TypeOK
<1>1. PICK n \in sess[s].names \cap DOMAIN tmp.files :
        /\ files' = Put(files, n, tmp.files[n])
        /\ tmp' = [tmp EXCEPT !.files = Remove(@, n)]
        /\ sess' = [sess EXCEPT ![s].names = @ \ {n},
                                ![s].pc = IF sess[s].names = {n} THEN "clean" ELSE "move"]
        /\ adrift' = IF sess[s].names = {n} THEN adrift \ FactsOf(sess[s].fresh) ELSE adrift
  BY DEF Move
<1>2. /\ DOMAIN tmp.files = sess[s].names /\ sess[s].names \subseteq DOMAIN sess[s].fresh
      /\ \A k \in DOMAIN tmp.files : tmp.files[k] = sess[s].fresh[k]
  BY DEF WorkInv, AnswerInv, Move
<1>3. /\ sess'[s].pc = IF sess[s].names = {n} THEN "clean" ELSE "move"
      /\ sess'[s].names = sess[s].names \ {n}
      /\ sess'[s].old = sess[s].old /\ sess'[s].fresh = sess[s].fresh
      /\ sess'[s].read = sess[s].read /\ owed' = owed
  BY <1>0, <1>1 DEF Move, Locals
<1>4. n \in Names /\ tmp.files[n] \in SUBSET Facts /\ tmp.files[n] = sess[s].fresh[n]
  BY <1>0, <1>1, <1>2, InDirectories
<1>5. /\ DOMAIN files' = DOMAIN files \cup {n}
      /\ files'[n] = sess[s].fresh[n]
      /\ \A k \in DOMAIN files : k # n => files'[k] = files[k]
  <2>1. PICK said \in SUBSET Facts : said = tmp.files[n]
    BY <1>4
  <2>2. /\ DOMAIN Put(files, n, said) = DOMAIN files \cup {n}
        /\ \A k \in DOMAIN files \cup {n} :
             Put(files, n, said)[k] = IF k = n THEN said ELSE files[k]
    BY DEF Put
  <2>3. files' = Put(files, n, said)
    BY <1>1, <2>1
  <2> QED
    BY <1>4, <2>1, <2>2, <2>3
<1>6. /\ DOMAIN tmp'.files = DOMAIN tmp.files \ {n}
      /\ \A k \in DOMAIN tmp.files \ {n} : tmp'.files[k] = tmp.files[k]
  <2>1. tmp'.files = Remove(tmp.files, n)
    BY <1>0, <1>1
  <2>2. tmp.files \in Directories
    BY <1>0
  <2>3. /\ DOMAIN Remove(tmp.files, n) = DOMAIN tmp.files \ {n}
        /\ \A k \in DOMAIN tmp.files \ {n} : Remove(tmp.files, n)[k] = tmp.files[k]
    BY <2>2, RemoveFile
  <2> QED
    BY <2>1, <2>3
<1>7. n \in sess[s].names \cap DOMAIN sess[s].fresh
  BY <1>1, <1>2
<1> QED
  BY <1>1, <1>3, <1>5, <1>6, <1>7

\* ... an old one that is not in the answer is removed, ...
LEMMA CleanStep ==
  ASSUME TypeOK, NEW s \in Sessions, Clean(s), sess[s].old # {}
  PROVE  \E n \in sess[s].old \cap DOMAIN files :
           /\ DOMAIN files' = DOMAIN files \ {n}
           /\ \A k \in DOMAIN files \ {n} : files'[k] = files[k]
           /\ sess'[s].pc = "clean" /\ sess'[s].old = sess[s].old \ {n}
           /\ sess'[s].fresh = sess[s].fresh /\ sess'[s].read = sess[s].read
           /\ owed' = owed /\ adrift' = adrift
<1>0. sess \in [Sessions -> Locals] /\ sess[s] \in Locals /\ files \in Directories
  BY DEF TypeOK
<1>1. PICK n \in sess[s].old \cap DOMAIN files :
        files' = Remove(files, n) /\ sess' = [sess EXCEPT ![s].old = @ \ {n}]
  BY DEF Clean
<1>2. /\ sess'[s].pc = "clean" /\ sess'[s].old = sess[s].old \ {n}
      /\ sess'[s].fresh = sess[s].fresh /\ sess'[s].read = sess[s].read
      /\ owed' = owed /\ adrift' = adrift
  BY <1>0, <1>1 DEF Clean, Locals, HistorySame
<1>3. /\ DOMAIN files' = DOMAIN files \ {n}
      /\ \A k \in DOMAIN files \ {n} : files'[k] = files[k]
  BY <1>0, <1>1, RemoveFile
<1> QED
  BY <1>1, <1>2, <1>3

\* ... and a new one, or what a write that was cut off left of it, has a name of its own.
LEMMA WriteStep ==
  ASSUME TypeOK, NEW s \in Sessions, WorkInv(s), sess[s].pc = "write",
         NEW said \in SUBSET Facts, files' = Put(files, Head(sess[s].todo).name, said)
  PROVE  \E n \in Names \ DOMAIN files :
           /\ DOMAIN files' = DOMAIN files \cup {n}
           /\ files'[n] = said
           /\ \A k \in DOMAIN files : files'[k] = files[k]
<1>0. sess[s] \in Locals /\ InLoop(sess[s]) /\ files \in Directories
  BY DEF TypeOK
<1>1. sess[s].todo \in Proposals /\ sess[s].todo # <<>>
  BY <1>0 DEF InLoop, Locals
<1>2. PICK n \in Names : n = Head(sess[s].todo).name
  BY <1>1, NextProposal
<1>3. n \notin DOMAIN files
  BY <1>2 DEF WorkInv, SeenInv
<1>4. files' = Put(files, n, said)
  BY <1>2
<1>5. /\ DOMAIN Put(files, n, said) = DOMAIN files \cup {n}
      /\ \A k \in DOMAIN files \cup {n} :
           Put(files, n, said)[k] = IF k = n THEN said ELSE files[k]
  BY DEF Put
<1> QED
  BY <1>3, <1>4, <1>5

\* The step of the session itself keeps what it knows.
LEMMA OwnWork ==
  ASSUME TypeOK, NEW s \in Sessions, WorkInv(s), Step(s)
  PROVE  WorkInv(s)'
<1>0. /\ sess \in [Sessions -> Locals] /\ sess[s] \in Locals
      /\ files \in Directories /\ tmp \in [there : BOOLEAN, files : Directories]
      /\ sess[s].fresh \in Directories
  BY DEF TypeOK, Locals
<1>1. CASE \/ Load(s) \/ ReadBody(s) \/ Leave(s) \/ Extract(s) \/ WriteFile(s) \/ WriteIndex(s)
           \/ NoAnswer(s) \/ Sweep(s) \/ Raises(s) \/ Killed(s) \/ End(s)
           \/ \E todo : NextMemory(s, todo)
  BY <1>1, PcGo, PcStep, NoWork
<1>2. CASE CheckName(s) /\ Head(sess[s].todo).name \notin DOMAIN files
  <2>1. sess'[s].pc = "write" /\ sess'[s].todo = sess[s].todo /\ files' = files
    BY <1>0, <1>2 DEF CheckName, Go, Locals
  <2> QED
    BY <1>2, <2>1 DEF WorkInv, SeenInv, AnswerInv, MovedInv
<1>3. CASE Scan(s)
  <2>1. sess'[s].pc = "index" /\ sess'[s].names = Listed /\ files' = files
    BY <1>0, <1>3 DEF Scan, Locals
  <2> QED
    BY <2>1 DEF WorkInv, SeenInv, AnswerInv, MovedInv, Listed
<1>4. CASE ListAll(s) /\ ~End(s)
  <2>1. sess'[s].pc = "corpus" /\ sess'[s].names = Listed /\ files' = files
    BY <1>0, <1>4 DEF ListAll, Locals
  <2> QED
    BY <2>1 DEF WorkInv, SeenInv, AnswerInv, MovedInv, Listed
<1>5. CASE ReadCorpus(s) /\ ~End(s)
  <2>1. sess[s].names = Listed
    BY <1>5 DEF WorkInv, SeenInv, ReadCorpus
  <2> DEFINE got == UNION {files[n] : n \in sess[s].names}
  <2>2. files' = files /\ sess' = [sess EXCEPT ![s].read = got, ![s].names = {}, ![s].pc = "ask"]
    BY <1>5 DEF ReadCorpus
  <2>3. got = FactsOf(files)
    BY <2>1 DEF FactsOf, Listed
  <2> HIDE DEF got
  <2>4. sess'[s].pc = "ask" /\ sess'[s].read = got
    BY <1>0, <2>2 DEF Locals
  <2> QED
    BY <2>2, <2>3, <2>4 DEF WorkInv, SeenInv, AnswerInv, MovedInv
<1>6. CASE Prepare(s)
  <2>1. PICK a \in Answers(sess[s].read) :
          sess' = [sess EXCEPT ![s].fresh = a, ![s].old = DOMAIN files, ![s].pc = "fill"]
    BY <1>6 DEF Prepare
  <2>2. /\ sess'[s].pc = "fill" /\ sess'[s].fresh = a /\ sess'[s].read = sess[s].read
        /\ files' = files /\ tmp'.files = NoFiles
    BY <1>0, <1>6, <2>1 DEF Prepare, Locals
  <2>3. DOMAIN a # {} /\ \A n \in DOMAIN a : a[n] \subseteq sess[s].read
    BY DEF Answers
  <2>4. FactsOf(a) \subseteq sess[s].read
    BY <2>3, InFacts
  <2>5. sess[s].read = FactsOf(files)
    BY <1>6 DEF WorkInv, SeenInv, Prepare
  <2> QED
    BY <2>2, <2>3, <2>4, <2>5, NoFilesType DEF WorkInv, SeenInv, AnswerInv, MovedInv
<1>7. CASE Fill(s) /\ ~End(s)
  <2>1. /\ DOMAIN tmp.files = {} /\ sess[s].read = FactsOf(files)
        /\ DOMAIN sess[s].fresh # {} /\ FactsOf(sess[s].fresh) \subseteq sess[s].read
    BY <1>7 DEF WorkInv, SeenInv, AnswerInv, Fill
  <2>2. /\ sess'[s].pc = "place" /\ sess'[s].fresh = sess[s].fresh /\ sess'[s].read = sess[s].read
        /\ files' = files
    BY <1>0, <1>7 DEF Fill, Go, Locals
  <2>3. tmp'.files = [n \in DOMAIN tmp.files \cup DOMAIN sess[s].fresh |->
                        IF n \in DOMAIN sess[s].fresh THEN sess[s].fresh[n] ELSE tmp.files[n]]
    BY <1>0, <1>7 DEF Fill
  <2>4. /\ DOMAIN tmp'.files = DOMAIN sess[s].fresh
        /\ \A n \in DOMAIN sess[s].fresh : tmp'.files[n] = sess[s].fresh[n]
    BY <2>1, <2>3
  <2> QED
    BY <2>1, <2>2, <2>4 DEF WorkInv, SeenInv, AnswerInv, MovedInv
<1>8. CASE Place(s)
  <2> DEFINE new  == DOMAIN tmp.files
             kept == FactsOf(tmp.files)
             moving == {x \in kept : \E n \in DOMAIN files \cap new : x \in files[n] \ tmp.files[n]}
             fresh == sess[s].fresh
  <2>1. /\ DOMAIN fresh # {} /\ FactsOf(fresh) \subseteq sess[s].read
        /\ new = DOMAIN fresh /\ \A n \in new : tmp.files[n] = fresh[n]
        /\ sess[s].read = FactsOf(files)
    BY <1>8 DEF WorkInv, SeenInv, AnswerInv, Place
  <2>2. kept = FactsOf(fresh)
    BY <2>1 DEF FactsOf
  <2>3. /\ sess'[s].pc = "move" /\ sess'[s].names = new /\ sess'[s].old = sess[s].old \ new
        /\ sess'[s].fresh = fresh /\ sess'[s].read = sess[s].read
    BY <1>0, <1>8, <2>1 DEF Place, Locals
  <2>4. /\ files' = files /\ tmp' = tmp
        /\ owed' = owed \ (sess[s].read \ kept) /\ adrift' = adrift \cup moving
    BY <1>8 DEF Place
  <2>5. AnswerInv(s)'
    BY <2>1, <2>3, <2>4 DEF AnswerInv
  <2>6. \A n \in new \cap DOMAIN files : (files[n] \ fresh[n]) \cap FactsOf(fresh) \subseteq adrift'
    BY <2>1, <2>2, <2>4
  <2>7. owed' \cap sess[s].read \subseteq FactsOf(fresh)
    BY <2>2, <2>4
  <2> HIDE DEF fresh, kept, moving, new
  <2>8. MovedInv(s)'
    BY <2>1, <2>3, <2>4, <2>6, <2>7 DEF MovedInv
  <2> QED
    BY <2>3, <2>5, <2>8 DEF WorkInv, SeenInv
<1>9. CASE Move(s)
  <2> DEFINE fresh == sess[s].fresh
  <2>1. PICK n \in sess[s].names \cap DOMAIN fresh :
          /\ DOMAIN files' = DOMAIN files \cup {n}
          /\ files'[n] = fresh[n]
          /\ \A k \in DOMAIN files : k # n => files'[k] = files[k]
          /\ DOMAIN tmp'.files = DOMAIN tmp.files \ {n}
          /\ \A k \in DOMAIN tmp.files \ {n} : tmp'.files[k] = tmp.files[k]
          /\ sess'[s].pc = IF sess[s].names = {n} THEN "clean" ELSE "move"
          /\ sess'[s].names = sess[s].names \ {n}
          /\ sess'[s].old = sess[s].old /\ sess'[s].fresh = fresh /\ sess'[s].read = sess[s].read
          /\ adrift' = IF sess[s].names = {n} THEN adrift \ FactsOf(fresh) ELSE adrift
          /\ owed' = owed
    BY <1>9, MoveStep
  <2>2. /\ DOMAIN fresh # {} /\ FactsOf(fresh) \subseteq sess[s].read
        /\ DOMAIN tmp.files = sess[s].names /\ sess[s].names \subseteq DOMAIN fresh
        /\ \A k \in DOMAIN tmp.files : tmp.files[k] = fresh[k]
    BY <1>9 DEF WorkInv, AnswerInv, Move
  <2>3. /\ FactsOf(files) \subseteq sess[s].read
        /\ owed \cap sess[s].read \subseteq FactsOf(fresh)
        /\ sess[s].old \cap DOMAIN fresh = {}
        /\ \A k \in DOMAIN fresh : k \notin sess[s].names => k \in DOMAIN files /\ files[k] = fresh[k]
        /\ \A k \in sess[s].names \cap DOMAIN files :
             (files[k] \ fresh[k]) \cap FactsOf(fresh) \subseteq adrift
    BY <1>9 DEF WorkInv, MovedInv, Move
  <2>5. sess'[s].pc = "clean" => sess'[s].names = {}
    BY <2>1
  <2> HIDE DEF fresh
  <2>9. AnswerInv(s)'
    BY <2>1, <2>2 DEF AnswerInv
  <2>10. FactsOf(files') \subseteq sess[s].read
    <3> SUFFICES ASSUME NEW x, x \in FactsOf(files')
                 PROVE  x \in sess[s].read
      OBVIOUS
    <3>1. PICK k \in DOMAIN files' : x \in files'[k]
      BY InFacts
    <3>2. CASE k = n
      BY <2>1, <2>2, <3>1, <3>2, InFacts
    <3>3. CASE k # n
      BY <2>1, <2>3, <3>1, <3>3, InFacts
    <3> QED
      BY <3>2, <3>3
  <2>11. \A k \in DOMAIN fresh :
           sess'[s].pc = "clean" \/ k \notin sess'[s].names =>
             k \in DOMAIN files' /\ files'[k] = fresh[k]
    BY <2>1, <2>3, <2>5
  <2>12. sess'[s].pc = "move" =>
           \A k \in sess'[s].names \cap DOMAIN files' :
             (files'[k] \ fresh[k]) \cap FactsOf(fresh) \subseteq adrift'
    <3> SUFFICES ASSUME sess'[s].pc = "move", NEW k \in sess'[s].names \cap DOMAIN files'
                 PROVE  (files'[k] \ fresh[k]) \cap FactsOf(fresh) \subseteq adrift'
      OBVIOUS
    <3>1. k # n /\ k \in sess[s].names \cap DOMAIN files /\ files'[k] = files[k]
      BY <2>1
    <3>2. adrift' = adrift
      BY <2>1
    <3> QED
      BY <2>3, <3>1, <3>2
  <2>13. MovedInv(s)'
    BY <2>1, <2>3, <2>10, <2>11, <2>12 DEF MovedInv
  <2> QED
    BY <2>1, <2>9, <2>13 DEF WorkInv, SeenInv
<1>10. CASE Clean(s) /\ sess[s].old # {}
  <2> DEFINE fresh == sess[s].fresh
  <2>1. PICK n \in sess[s].old \cap DOMAIN files :
          /\ DOMAIN files' = DOMAIN files \ {n}
          /\ \A k \in DOMAIN files \ {n} : files'[k] = files[k]
          /\ sess'[s].pc = "clean" /\ sess'[s].old = sess[s].old \ {n}
          /\ sess'[s].fresh = fresh /\ sess'[s].read = sess[s].read
          /\ owed' = owed
    BY <1>10, CleanStep
  <2>2. /\ DOMAIN fresh # {} /\ FactsOf(fresh) \subseteq sess[s].read
        /\ FactsOf(files) \subseteq sess[s].read
        /\ owed \cap sess[s].read \subseteq FactsOf(fresh)
        /\ sess[s].old \cap DOMAIN fresh = {}
        /\ \A k \in DOMAIN fresh : k \in DOMAIN files /\ files[k] = fresh[k]
    BY <1>10 DEF WorkInv, AnswerInv, MovedInv, Clean
  <2> HIDE DEF fresh
  <2>5. FactsOf(files') \subseteq sess[s].read
    BY <2>1, <2>2, InFacts
  <2>6. \A k \in DOMAIN fresh : k \in DOMAIN files' /\ files'[k] = fresh[k]
    BY <2>1, <2>2
  <2>7. MovedInv(s)'
    BY <2>1, <2>2, <2>5, <2>6 DEF MovedInv
  <2> QED
    BY <2>1, <2>2, <2>7 DEF WorkInv, SeenInv, AnswerInv
<1>11. CASE Clean(s) /\ sess[s].old = {}
  <2>1. sess'[s].pc = "scan"
    BY <1>0, <1>11 DEF Clean, Go, Locals
  <2> QED
    BY <2>1, NoWork
<1>12. CASE CheckName(s) /\ Head(sess[s].todo).name \in DOMAIN files
  <2>1. \E todo : NextMemory(s, todo)
    BY <1>12 DEF CheckName
  <2> QED
    BY <1>1, <2>1
<1> QED
  BY <1>1, <1>2, <1>3, <1>4, <1>5, <1>6, <1>7, <1>8, <1>9, <1>10, <1>11, <1>12 DEF Step

-----------------------------------------------------------------------------
(* What is kept, what the index lists, what a load reads *)

\* The steps that change files
LEMMA OtherSteps ==
  ASSUME NEW s \in Sessions, Step(s),
         ~WriteFile(s), ~Move(s), ~(Clean(s) /\ sess[s].old # {}),
         ~(Killed(s) /\ sess[s].pc = "write")
  PROVE  files' = files
BY DEF Step, Load, ReadBody, Leave, Extract, CheckName, Scan, WriteIndex, ListAll, ReadCorpus,
   NoAnswer, Prepare, Fill, Place, Clean, Sweep, Raises, Killed, HistorySame

\* A file that is replaced still says what is owed, unless that is adrift.
LEMMA Overwrites ==
  ASSUME TypeOK, NEW s \in Sessions, WorkInv(s), Step(s)
  PROVE  \A n \in DOMAIN files \cap DOMAIN files' : (files[n] \cap owed) \ adrift \subseteq files'[n]
<1>1. CASE WriteFile(s) \/ (Killed(s) /\ sess[s].pc = "write")
  <2>1. \A k \in DOMAIN files : files'[k] = files[k]
    <3>1. \/ files' = files
          \/ files' = Put(files, Head(sess[s].todo).name, {})
          \/ files' = Put(files, Head(sess[s].todo).name, {Head(sess[s].todo).fact})
      BY <1>1 DEF WriteFile, Killed
    <3>2. sess[s].pc = "write" /\ {Head(sess[s].todo).fact} \in SUBSET Facts
      BY <1>1, NextProposal DEF WriteFile, TypeOK, InLoop, Locals
    <3>3. {} \in SUBSET Facts
      OBVIOUS
    <3> QED
      BY <3>1, <3>2, <3>3, WriteStep
  <2> QED
    BY <2>1
<1>2. CASE Move(s)
  <2>1. PICK n \in sess[s].names \cap DOMAIN sess[s].fresh :
          /\ files'[n] = sess[s].fresh[n]
          /\ \A k \in DOMAIN files : k # n => files'[k] = files[k]
    BY <1>2, MoveStep
  <2>2. n \in DOMAIN files => (files[n] \cap owed) \ adrift \subseteq sess[s].fresh[n]
    <3> SUFFICES ASSUME n \in DOMAIN files, NEW x \in (files[n] \cap owed) \ adrift
                 PROVE  x \in sess[s].fresh[n]
      OBVIOUS
    <3>1. x \in sess[s].read
      BY <1>2, InFacts DEF WorkInv, MovedInv, Move
    <3>2. x \in FactsOf(sess[s].fresh)
      BY <1>2, <3>1 DEF WorkInv, MovedInv, Move
    <3> QED
      BY <1>2, <2>1, <3>2 DEF WorkInv, MovedInv, Move
  <2> QED
    BY <2>1, <2>2
<1>3. CASE Clean(s) /\ sess[s].old # {}
  BY <1>3, CleanStep
<1> QED
  BY <1>1, <1>2, <1>3, OtherSteps

\* What a step does to the histories
LEMMA HistoryStep ==
  ASSUME TypeOK, NEW s \in Sessions, Step(s), ~WriteFile(s)
  PROVE  /\ owed' \subseteq owed
         /\ ~Move(s) => owed' \ adrift' \subseteq owed \ adrift
BY DEF Step, Load, ReadBody, Leave, Extract, CheckName, Scan, WriteIndex, ListAll, ReadCorpus,
   NoAnswer, Prepare, Fill, Place, Move, Clean, Sweep, Raises, Killed, HistorySame

LEMMA KeptStep ==
  ASSUME TypeOK, KeptInv, NEW s \in Sessions, WorkInv(s), Step(s)
  PROVE  KeptInv'
<1> SUFFICES ASSUME NEW x \in owed' \ adrift'
             PROVE  x \in FactsOf(files')
  BY DEF KeptInv
<1>1. CASE WriteFile(s)
  <2>1. /\ sess[s].pc = "write" /\ {Head(sess[s].todo).fact} \in SUBSET Facts
        /\ files' = Put(files, Head(sess[s].todo).name, {Head(sess[s].todo).fact})
    BY <1>1, NextProposal DEF WriteFile, TypeOK, InLoop, Locals
  <2>2. PICK n \in Names \ DOMAIN files :
          /\ DOMAIN files' = DOMAIN files \cup {n}
          /\ files'[n] = {Head(sess[s].todo).fact}
          /\ \A k \in DOMAIN files : files'[k] = files[k]
    BY <2>1, WriteStep
  <2>3. CASE x = Head(sess[s].todo).fact
    BY <2>2, <2>3, InFacts
  <2>4. CASE x # Head(sess[s].todo).fact
    <3>1. x \in owed \ adrift
      BY <1>1, <2>4 DEF WriteFile
    <3>2. x \in FactsOf(files)
      BY <3>1 DEF KeptInv
    <3> QED
      BY <2>2, <3>2, InFacts
  <2> QED
    BY <2>3, <2>4
<1>2. CASE Move(s)
  <2>1. PICK n \in sess[s].names \cap DOMAIN sess[s].fresh :
          /\ DOMAIN files' = DOMAIN files \cup {n}
          /\ files'[n] = sess[s].fresh[n]
          /\ \A k \in DOMAIN files : k # n => files'[k] = files[k]
          /\ adrift' = IF sess[s].names = {n} THEN adrift \ FactsOf(sess[s].fresh) ELSE adrift
          /\ owed' = owed
    BY <1>2, MoveStep
  <2>2. /\ \A k \in DOMAIN sess[s].fresh : k \notin sess[s].names =>
             k \in DOMAIN files /\ files[k] = sess[s].fresh[k]
    BY <1>2 DEF WorkInv, MovedInv, Move
  <2>3. CASE x \in adrift
    <3>1. sess[s].names = {n} /\ x \in FactsOf(sess[s].fresh)
      BY <2>1, <2>3
    <3>2. PICK k \in DOMAIN sess[s].fresh : x \in sess[s].fresh[k]
      BY <3>1, InFacts
    <3>3. k \in DOMAIN files' /\ files'[k] = sess[s].fresh[k]
      BY <2>1, <2>2, <3>1
    <3> QED
      BY <3>2, <3>3, InFacts
  <2>4. CASE x \notin adrift
    <3>1. PICK k \in DOMAIN files : x \in files[k]
      BY <2>1, <2>4, InFacts DEF KeptInv
    <3>2. k \in DOMAIN files'
      BY <2>1
    <3>3. x \in files'[k]
      BY <2>1, <2>4, <3>1, <3>2, Overwrites
    <3> QED
      BY <3>2, <3>3, InFacts
  <2> QED
    BY <2>3, <2>4
<1>3. CASE Clean(s) /\ sess[s].old # {}
  <2>1. PICK n \in sess[s].old \cap DOMAIN files :
          /\ DOMAIN files' = DOMAIN files \ {n}
          /\ \A k \in DOMAIN files \ {n} : files'[k] = files[k]
          /\ owed' = owed /\ adrift' = adrift
    BY <1>3, CleanStep
  <2>2. x \in FactsOf(files)
    BY <2>1 DEF KeptInv
  <2>3. x \in FactsOf(sess[s].fresh)
    BY <1>3, <2>1, <2>2 DEF WorkInv, MovedInv, Clean
  <2>4. PICK k \in DOMAIN sess[s].fresh : x \in sess[s].fresh[k]
    BY <2>3, InFacts
  <2>5. k \in DOMAIN files /\ files[k] = sess[s].fresh[k] /\ k \notin sess[s].old
    BY <1>3 DEF WorkInv, MovedInv, Clean
  <2> QED
    BY <2>1, <2>4, <2>5, InFacts
<1>4. CASE Killed(s) /\ sess[s].pc = "write"
  <2>1. x \in FactsOf(files)
    BY <1>4 DEF KeptInv, Killed
  <2>2. files' = files \/ files' = Put(files, Head(sess[s].todo).name, {})
    BY <1>4 DEF Killed
  <2>3. CASE files' = Put(files, Head(sess[s].todo).name, {})
    <3>1. {} \in SUBSET Facts
      OBVIOUS
    <3>2. DOMAIN files \subseteq DOMAIN files' /\ \A k \in DOMAIN files : files'[k] = files[k]
      BY <1>4, <2>3, <3>1, WriteStep
    <3> QED
      BY <2>1, <3>2, InFacts
  <2> QED
    BY <2>1, <2>2, <2>3
<1>5. CASE ~WriteFile(s) /\ ~Move(s) /\ ~(Clean(s) /\ sess[s].old # {})
           /\ ~(Killed(s) /\ sess[s].pc = "write")
  BY <1>5, OtherSteps, HistoryStep DEF KeptInv
<1> QED
  BY <1>1, <1>2, <1>3, <1>4, <1>5

LEMMA IndexStep ==
  ASSUME TypeOK, IndexInv, NEW s \in Sessions, WorkInv(s), Step(s)
  PROVE  IndexInv'
<1>0. /\ sess \in [Sessions -> Locals] /\ sess[s] \in Locals
      /\ \A r \in Sessions \ {s} : sess'[r] = sess[r]
  BY LocalsStep DEF TypeOK
<1>1. ASSUME NEW r \in Sessions \ {s}, Tears(r)
      PROVE  IndexInv'
  BY <1>0, <1>1 DEF IndexInv, Tears
<1>2. CASE WriteIndex(s)
  <2>1. sess[s].names = Listed /\ files' = files /\ index' = sess[s].names
    BY <1>2 DEF WriteIndex, WorkInv, SeenInv
  <2> QED
    BY <2>1 DEF IndexInv, Listed
<1>3. CASE Raises(s) \/ Killed(s)
  <2>1. CASE Tears(s)
    BY <1>3, <2>1 DEF IndexInv, Raises, Killed
  <2>2. CASE ~Tears(s)
    <3>1. index' = index /\ (torn => torn')
      BY <1>3 DEF Raises, Killed
    <3>2. Listed' = Listed
      <4>1. CASE files' = files
        BY <4>1 DEF Listed
      <4>2. CASE sess[s].pc = "write" /\ files' = Put(files, Head(sess[s].todo).name, {})
        <5>1. {} \in SUBSET Facts
          OBVIOUS
        <5>2. PICK n \in Names \ DOMAIN files :
                /\ DOMAIN files' = DOMAIN files \cup {n}
                /\ files'[n] = {}
                /\ \A k \in DOMAIN files : files'[k] = files[k]
          BY <4>2, <5>1, WriteStep
        <5> QED
          BY <5>2 DEF Listed
      <4> QED
        BY <1>3, <4>1, <4>2 DEF Raises, Killed
    <3> QED
      BY <1>1, <2>2, <3>1, <3>2 DEF IndexInv
  <2> QED
    BY <2>1, <2>2
<1>4. CASE WriteFile(s) \/ Scan(s) \/ Move(s) \/ Clean(s)
  <2>1. Tears(s)'
    BY <1>4, PcStep DEF Tears
  <2> QED
    BY <2>1 DEF IndexInv
<1>5. CASE ~WriteIndex(s) /\ ~Raises(s) /\ ~Killed(s) /\ ~WriteFile(s) /\ ~Scan(s) /\ ~Move(s) /\ ~Clean(s)
  <2>1. ~Tears(s)
    BY <1>5 DEF Step, Tears, Load, ReadBody, Leave, Extract, CheckName, ListAll, ReadCorpus,
       NoAnswer, Prepare, Fill, Place, Sweep
  <2>2. files' = files /\ index' = index /\ torn' = torn
    BY <1>5 DEF Step, Load, ReadBody, Leave, Extract, CheckName, ListAll, ReadCorpus,
       NoAnswer, Prepare, Fill, Place, Sweep, HistorySame
  <2> QED
    BY <1>1, <2>1, <2>2 DEF IndexInv, Listed
<1> QED
  BY <1>2, <1>3, <1>4, <1>5

LEMMA LoadStep ==
  ASSUME TypeOK, KeptInv, NEW s \in Sessions, WorkInv(s), Step(s),
         due' = [q \in Sessions |-> DueNext(q)],
         NEW r \in Sessions, LoadInv(r)
  PROVE  LoadInv(r)'
<1>0. /\ sess \in [Sessions -> Locals] /\ sess[s] \in Locals
      /\ r # s => sess'[r] = sess[r]
      /\ due'[r] = DueNext(r)
  BY LocalsStep DEF TypeOK
<1>1. CASE sess'[r].pc \notin {"load", "chat"}
  BY <1>0, <1>1 DEF LoadInv, DueNext
<1>2. CASE r = s /\ Load(s)
  <2>1. PICK names \in Chosen :
          sess' = [sess EXCEPT ![s].names = names, ![s].pc = IF names = {} THEN "chat" ELSE "load"]
    BY <1>2 DEF Load
  <2>2. /\ sess'[s].names = names /\ sess[s].pc = "idle"
        /\ sess'[s].pc = IF names = {} THEN "chat" ELSE "load"
        /\ files' = files /\ owed' = owed /\ adrift' = adrift
    BY <1>0, <1>2, <2>1 DEF Load, HistorySame, Locals
  <2>3. due'[s] = IF names = Listed THEN owed \ adrift ELSE {}
    BY <1>0, <1>2, <2>2 DEF DueNext
  <2>4. ASSUME NEW x \in due'[s]
        PROVE  \E n \in names : x \in files[n]
    <3>1. names = Listed /\ x \in FactsOf(files)
      BY <2>3, <2>4 DEF KeptInv
    <3> QED
      BY <3>1, InFacts DEF Listed
  <2> QED
    BY <1>2, <2>2, <2>3, <2>4 DEF LoadInv
<1>3. CASE r = s /\ ReadBody(s) /\ sess'[s].pc \in {"load", "chat"}
  <2>1. PICK n \in sess[s].names :
          IF n \in DOMAIN files
          THEN sess' = [sess EXCEPT ![s].names = @ \ {n},
                                    ![s].read = @ \cup files[n],
                                    ![s].pc = IF sess[s].names = {n} THEN "chat" ELSE "load"]
          ELSE End(s)
    BY <1>3 DEF ReadBody
  <2>2. n \in DOMAIN files
    BY <1>3, <2>1, PcGo
  <2>3. /\ sess'[s].names = sess[s].names \ {n}
        /\ sess'[s].read = sess[s].read \cup files[n]
        /\ sess'[s].pc = IF sess[s].names = {n} THEN "chat" ELSE "load"
        /\ sess[s].pc = "load" /\ files' = files /\ owed' = owed /\ adrift' = adrift
    BY <1>0, <1>3, <2>1, <2>2 DEF ReadBody, HistorySame, Locals
  <2>4. due'[s] = (due[s] \cap owed) \ adrift
    BY <1>0, <1>3, <2>3 DEF DueNext
  <2>5. ASSUME sess'[s].names \subseteq DOMAIN files, NEW x \in due'[s]
        PROVE  x \in sess'[s].read \/ \E k \in sess'[s].names : x \in files[k]
    <3>1. sess[s].names \subseteq DOMAIN files /\ x \in due[s]
      BY <2>2, <2>3, <2>4, <2>5
    <3>2. x \in sess[s].read \/ \E k \in sess[s].names : x \in files[k]
      BY <1>3, <2>3, <3>1 DEF LoadInv
    <3> QED
      BY <2>3, <3>2
  <2> QED
    BY <1>3, <2>3, <2>4, <2>5 DEF LoadInv
<1>4. CASE r = s /\ ~Load(s) /\ ~(ReadBody(s) /\ sess'[s].pc \in {"load", "chat"})
  <2>1. sess'[s].pc \notin {"load", "chat"}
    BY <1>4, PcStep DEF Step
  <2> QED
    BY <1>1, <1>4, <2>1
<1>5. CASE r # s /\ sess[r].pc \in {"load", "chat"}
  <2>1. due'[r] = IF sess[r].names \cap (DOMAIN files' \ DOMAIN files) # {} THEN {}
                  ELSE (due[r] \cap owed') \ adrift'
    BY <1>0, <1>5 DEF DueNext
  <2>2. ASSUME sess[r].names \subseteq DOMAIN files', NEW x \in due'[r]
        PROVE  x \in sess[r].read \/ \E k \in sess[r].names : x \in files'[k]
    <3>1. sess[r].names \subseteq DOMAIN files /\ x \in due[r]
      BY <2>1, <2>2
    <3>2. x \in owed \ adrift /\ (x \in sess[r].read \/ \E k \in sess[r].names : x \in files[k])
      BY <1>5, <3>1 DEF LoadInv
    <3> QED
      BY <2>2, <3>1, <3>2, Overwrites
  <2>3. due'[r] \subseteq owed' \ adrift'
    BY <2>1
  <2>4. sess[r].pc = "chat" => sess[r].names = {}
    BY DEF LoadInv
  <2> QED
    BY <1>0, <1>5, <2>2, <2>3, <2>4 DEF LoadInv
<1> QED
  BY <1>0, <1>1, <1>2, <1>3, <1>4, <1>5

-----------------------------------------------------------------------------
(* The theorems *)

LEMMA SafeStep ==
  ASSUME TypeOK, raced \/ SafeInv, Next
  PROVE  raced' \/ SafeInv'
<1> SUFFICES ASSUME ~raced'
             PROVE  SafeInv'
  OBVIOUS
<1>1. SafeInv /\ \A s, r \in Sessions : Busy(s)' /\ Busy(r)' => s = r
  BY DEF Next, TypeOK
<1>2. OneBusy'
  BY <1>1 DEF OneBusy
<1>3. PICK s \in Sessions : Step(s)
  BY DEF Next
<1>4. \A r \in Sessions : WorkInv(r) /\ LoadInv(r)
  BY <1>1 DEF SafeInv
<1>5. KeptInv' /\ IndexInv'
  BY <1>1, <1>3, <1>4, KeptStep, IndexStep DEF SafeInv
<1>6. ASSUME NEW r \in Sessions PROVE WorkInv(r)'
  <2>1. CASE r = s
    BY <1>3, <1>4, <2>1, OwnWork
  <2>2. CASE r # s
    <3>1. sess'[r] = sess[r]
      BY <1>3, <2>2, LocalsStep
    <3>2. CASE Busy(r)
      <4>1. ~Busy(s)
        BY <1>1, <2>2, <3>2 DEF SafeInv, OneBusy
      <4>2. UNCHANGED <<files, tmp, owed, adrift>>
        BY <1>3, <4>1, QuietStep
      <4>3. WorkInv(r)
        BY <1>4
      <4> QED
        BY <3>1, <4>2, <4>3 DEF WorkInv, SeenInv, AnswerInv, MovedInv, Listed
    <3>3. CASE ~Busy(r)
      BY <3>1, <3>3 DEF Busy, WorkInv, SeenInv, AnswerInv, MovedInv
    <3> QED
      BY <3>2, <3>3
  <2> QED
    BY <2>1, <2>2
<1>7. ASSUME NEW r \in Sessions PROVE LoadInv(r)'
  <2>1. due' = [q \in Sessions |-> DueNext(q)]
    BY DEF Next
  <2> QED
    BY <1>1, <1>3, <1>4, <2>1, LoadStep DEF SafeInv
<1> QED
  BY <1>2, <1>5, <1>6, <1>7 DEF SafeInv

\* Files, sessions and histories keep their shape, for any sessions, names, facts and bounds.
THEOREM TypeCorrect == Spec => []TypeOK
<1> QED
  BY TypeInit, TypeStep, PTL DEF Spec

\* The inductive invariant holds in every reachable state.
THEOREM MemoryInvariant == Spec => []IInv
<1>1. Init => IInv
  <2> SUFFICES ASSUME Init
               PROVE  SafeInv
    BY TypeInit DEF IInv
  <2>1. \A s \in Sessions : sess[s] = Quiet /\ due[s] = {}
    BY DEF Init
  <2>2. OneBusy
    BY <2>1, QuietType DEF OneBusy, Busy
  <2>3. KeptInv
    BY DEF Init, KeptInv
  <2>4. IndexInv
    BY NoFilesType DEF Init, IndexInv, Listed
  <2>5. \A s \in Sessions : WorkInv(s) /\ LoadInv(s)
    BY <2>1, QuietType DEF WorkInv, SeenInv, AnswerInv, MovedInv, LoadInv
  <2> QED
    BY <2>2, <2>3, <2>4, <2>5 DEF SafeInv
<1>2. IInv /\ [Next]_vars => IInv'
  <2> SUFFICES ASSUME IInv, [Next]_vars
               PROVE  IInv'
    OBVIOUS
  <2>1. TypeOK /\ (raced \/ SafeInv) /\ TypeOK'
    BY TypeStep DEF IInv
  <2>2. CASE Next
    BY <2>1, <2>2, SafeStep DEF IInv
  <2>3. CASE UNCHANGED vars
    <3>1. OneBusy => OneBusy'
      BY <2>3 DEF vars, OneBusy, Busy
    <3>2. (KeptInv => KeptInv') /\ (IndexInv => IndexInv')
      BY <2>3 DEF vars, KeptInv, IndexInv, Listed, Tears
    <3>3. \A s \in Sessions : WorkInv(s) => WorkInv(s)'
      BY <2>3 DEF vars, WorkInv, SeenInv, AnswerInv, MovedInv, Listed
    <3>4. \A s \in Sessions : LoadInv(s) => LoadInv(s)'
      BY <2>3 DEF vars, LoadInv
    <3>5. raced' = raced
      BY <2>3 DEF vars
    <3> QED
      BY <2>1, <3>1, <3>2, <3>3, <3>4, <3>5 DEF IInv, SafeInv
  <2> QED
    BY <2>2, <2>3
<1> QED
  BY <1>1, <1>2, PTL DEF Spec

\* For any sessions, names and bounds no memory is lost by a failure or a crash,
\* unless two sessions wrote at once, but for what a replacement cut off was to move.
THEOREM MemoriesAreKept == Spec => []KeptUnlessRaced
<1>1. IInv => KeptUnlessRaced
  BY DEF IInv, SafeInv, KeptInv, KeptUnlessRaced
<1> QED
  BY <1>1, MemoryInvariant, PTL

\* For any sessions, names and bounds the index lists the files there are while
\* nobody writes, unless a session stopped between a change and its index.
THEOREM IndexStaysTrue == Spec => []IndexIsTrue
<1>1. IInv => IndexIsTrue
  BY DEF IInv, SafeInv, IndexInv, IndexIsTrue, Tears, Busy
<1> QED
  BY <1>1, MemoryInvariant, PTL

\* For any sessions, names and bounds a load that lists every file and meets no
\* error returns all that was there, even if files were replaced under it.
THEOREM LoadsMissNothing == Spec => []LoadMissesNothing
<1>1. IInv => LoadMissesNothing
  <2> SUFFICES ASSUME IInv, ~raced, NEW s \in Sessions, sess[s].pc = "chat"
               PROVE  due[s] \subseteq sess[s].read
    BY DEF LoadMissesNothing
  <2>1. LoadInv(s)
    BY DEF IInv, SafeInv
  <2> QED
    BY <2>1 DEF LoadInv
<1> QED
  BY <1>1, MemoryInvariant, PTL
=============================================================================
