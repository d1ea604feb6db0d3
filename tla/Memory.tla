-------------------------------- MODULE Memory --------------------------------
(***************************************************************************)
(* The memory files of agent/memory.py, as chats use them: load_memories   *)
(* before a turn (runtime/investigator.py loads too, and goes no further), *)
(* extract_memories and consolidate_memories after its answer.             *)
(*                                                                         *)
(* Sessions are threads of the web application and processes of the command *)
(* line.  They share the directory, the index in it and one directory for  *)
(* temporary files, and no lock.  Each step below is at most one change of *)
(* the file system; any session may fail or be killed between two.         *)
(*                                                                         *)
(* What a file says is a set of facts.  A file without facts is one without *)
(* front matter, left by a write that was cut off: it is not listed.       *)
(*                                                                         *)
(* A definition marked "Mutant" is the one after it with a plausible bug.  *)
(***************************************************************************)
EXTENDS Naturals, Sequences, FiniteSets, Functions

CONSTANTS
  Sessions, Names, Facts,
  Few,          \* select_relevant_memories returns all if there are so many (3)
  MaxItems,     \* max_items (5)
  Threshold,    \* memory_consolidate_threshold
  MaxNew        \* bound: memories in one answer of the model

ASSUME MemoryAssumption ==
  /\ {Few, MaxItems, Threshold, MaxNew} \subseteq Nat \ {0} /\ Few <= MaxItems

VARIABLES
  files,     \* MEMORY_DIR but for MEMORY.md
  tmp,       \* .memory_tmp
  index,     \* the names MEMORY.md lists
  sess,      \* each session's place in the code, and its locals
  owed,      \* history: facts written down, but for those a consolidation left out
  adrift,    \* history: facts that a replacement not completed takes out of a file
  due,       \* history: facts a load that reads every file must return
  raced,     \* history: two sessions were writing, or consolidating, at once
  torn       \* history: a session stopped between a change and its index

vars == <<files, tmp, index, sess, owed, adrift, due, raced, torn>>

Directories == UNION {[D -> SUBSET Facts] : D \in SUBSET Names}
NoFiles     == [n \in {} |-> {}]
NoTmp       == [there |-> FALSE, files |-> NoFiles]
Put(dir, n, facts) == [k \in DOMAIN dir \cup {n} |-> IF k = n THEN facts ELSE dir[k]]
Remove(dir, n)     == Restrict(dir, DOMAIN dir \ {n})
FactsOf(dir)       == UNION {dir[n] : n \in DOMAIN dir}

\* list_memory_files, and what _rebuild_index writes
Listed == {n \in DOMAIN files : files[n] # {}}

\* names: files still to read, or listed, or to move; read: the facts read;
\* todo: new memories to write; fresh: a consolidation's answer; old: old_files
\* that go; merging: in consolidate_memories.
Quiet == [pc |-> "idle", names |-> {}, read |-> {}, todo |-> <<>>,
          fresh |-> NoFiles, old |-> {}, merging |-> FALSE]

Proposals == UNION {[1..k -> [name : Names, fact : Facts]] : k \in 0..MaxNew}

Locals == [pc : {"idle", "load", "chat", "check", "list"} \cup
                {"write", "scan", "index", "corpus", "ask", "fill",
                 "place", "move", "clean", "sweep"},
           names : SUBSET Names, read : SUBSET Facts, todo : Proposals,
           fresh : Directories, old : SUBSET Names, merging : BOOLEAN]

\* extract_memories has a memory in hand, and consolidate_memories has none.
InLoop(l) ==
  /\ (l.pc \in {"check", "write"} \/ (l.pc \in {"scan", "index"} /\ ~l.merging)) => l.todo # <<>>
  /\ l.pc \in {"corpus", "ask", "fill", "place", "move", "clean"} => l.merging

\* Not idle, nor reading, nor about to check or to list: what this session has
\* seen of the directory, or left in it, is not to be changed under it.
Busy(s) == sess[s].pc \in {"write", "scan", "index", "corpus", "ask", "fill",
                           "place", "move", "clean", "sweep"}

TypeOK ==
  /\ files \in Directories
  /\ tmp \in [there : BOOLEAN, files : Directories] /\ (tmp.there \/ tmp.files = NoFiles)
  /\ index \subseteq Names
  /\ sess \in [Sessions -> Locals]
  /\ \A s \in Sessions : InLoop(sess[s])
  /\ owed \subseteq Facts /\ adrift \subseteq Facts
  /\ due \in [Sessions -> SUBSET Facts]
  /\ raced \in BOOLEAN /\ torn \in BOOLEAN

Init ==
  /\ files = NoFiles /\ tmp = NoTmp /\ index = {}
  /\ sess = [s \in Sessions |-> Quiet]
  /\ owed = {} /\ adrift = {}
  /\ due = [s \in Sessions |-> {}]
  /\ raced = FALSE /\ torn = FALSE

Go(s, pc)  == sess' = [sess EXCEPT ![s].pc = pc]
End(s)     == sess' = [sess EXCEPT ![s] = Quiet]
HistorySame == UNCHANGED <<owed, adrift, torn>>

-----------------------------------------------------------------------------
\* load_memories: a few files are all chosen; of more, what the model chose
\* (or, without an answer, the key words), if it is listed.
Chosen == IF Cardinality(Listed) <= Few THEN {Listed}
          ELSE {c \in SUBSET Listed : Cardinality(c) <= MaxItems}

Load(s) ==
  /\ sess[s].pc = "idle"
  /\ \E names \in Chosen :
       sess' = [sess EXCEPT ![s].names = names, ![s].pc = IF names = {} THEN "chat" ELSE "load"]
  /\ UNCHANGED <<files, tmp, index>> /\ HistorySame

\* (Mutant: a file that is gone is passed over.)
ReadBodyIfThere(s) ==
  /\ sess[s].pc = "load"
  /\ \E n \in sess[s].names :
       sess' = [sess EXCEPT ![s].names = @ \ {n},
                            ![s].read = @ \cup (IF n \in DOMAIN files THEN files[n] ELSE {}),
                            ![s].pc = IF sess[s].names = {n} THEN "chat" ELSE "load"]
  /\ UNCHANGED <<files, tmp, index>> /\ HistorySame

\* read_memory_body of each.  A file that is gone ends the turn with an error.
ReadBody(s) ==
  /\ sess[s].pc = "load"
  /\ \E n \in sess[s].names :
       IF n \in DOMAIN files
       THEN sess' = [sess EXCEPT ![s].names = @ \ {n},
                                 ![s].read = @ \cup files[n],
                                 ![s].pc = IF sess[s].names = {n} THEN "chat" ELSE "load"]
       ELSE End(s)
  /\ UNCHANGED <<files, tmp, index>> /\ HistorySame

\* An investigation, a turn the guard stopped, or one that failed
Leave(s) ==
  /\ sess[s].pc = "chat"
  /\ End(s)
  /\ UNCHANGED <<files, tmp, index>> /\ HistorySame

-----------------------------------------------------------------------------
\* extract_memories: the next memory the model found, then consolidation.
NextMemory(s, todo) ==
  sess' = [sess EXCEPT ![s] = [Quiet EXCEPT !.pc = IF todo = <<>> THEN "list" ELSE "check",
                                            !.todo = todo]]

\* Of the model's answer only what is well formed is gone through; it is
\* nothing if the request failed.
Extract(s) ==
  /\ sess[s].pc = "chat"
  /\ \E todo \in Proposals : NextMemory(s, todo)
  /\ UNCHANGED <<files, tmp, index>> /\ HistorySame

\* (Mutant: a name that is taken is not looked for.)
CheckNothing(s) ==
  /\ sess[s].pc = "check"
  /\ Go(s, "write")
  /\ UNCHANGED <<files, tmp, index>> /\ HistorySame

\* A name that is taken, if only by a broken file, is passed over.
CheckName(s) ==
  /\ sess[s].pc = "check"
  /\ IF Head(sess[s].todo).name \in DOMAIN files
     THEN NextMemory(s, Tail(sess[s].todo))
     ELSE Go(s, "write")
  /\ UNCHANGED <<files, tmp, index>> /\ HistorySame

WriteFile(s) ==
  /\ sess[s].pc = "write"
  /\ LET m == Head(sess[s].todo) IN
     /\ files' = Put(files, m.name, {m.fact})
     /\ owed' = owed \cup {m.fact} /\ adrift' = adrift \ {m.fact}
  /\ Go(s, "scan")
  /\ UNCHANGED <<tmp, index, torn>>

\* _rebuild_index: read what there is, then write MEMORY.md.
Scan(s) ==
  /\ sess[s].pc = "scan"
  /\ sess' = [sess EXCEPT ![s].names = Listed, ![s].pc = "index"]
  /\ UNCHANGED <<files, tmp, index>> /\ HistorySame

WriteIndex(s) ==
  /\ sess[s].pc = "index"
  /\ index' = sess[s].names /\ torn' = FALSE
  /\ IF sess[s].merging THEN Go(s, "sweep") ELSE NextMemory(s, Tail(sess[s].todo))
  /\ UNCHANGED <<files, tmp, owed, adrift>>

-----------------------------------------------------------------------------
\* consolidate_memories: list the files, and if they are many read them all.
ListAll(s) ==
  /\ sess[s].pc = "list"
  /\ IF Cardinality(Listed) < Threshold THEN End(s)
     ELSE sess' = [sess EXCEPT ![s].names = Listed, ![s].merging = TRUE, ![s].pc = "corpus"]
  /\ UNCHANGED <<files, tmp, index>> /\ HistorySame

ReadCorpus(s) ==
  /\ sess[s].pc = "corpus"
  /\ IF sess[s].names \subseteq DOMAIN files
     THEN sess' = [sess EXCEPT ![s].read = UNION {files[n] : n \in sess[s].names},
                               ![s].names = {}, ![s].pc = "ask"]
     ELSE End(s)
  /\ UNCHANGED <<files, tmp, index>> /\ HistorySame

\* No answer, or none that is a list of something
NoAnswer(s) ==
  /\ sess[s].pc = "ask"
  /\ End(s)
  /\ UNCHANGED <<files, tmp, index>> /\ HistorySame

\* The model merges and leaves out, but has only what it was sent.
Answers(read) == {a \in Directories : DOMAIN a # {} /\ \A n \in DOMAIN a : a[n] \in (SUBSET read) \ {{}}}

\* Note the files there are, and empty the temporary directory.
Prepare(s) ==
  /\ sess[s].pc = "ask"
  /\ \E a \in Answers(sess[s].read) :
       sess' = [sess EXCEPT ![s].fresh = a, ![s].old = DOMAIN files, ![s].pc = "fill"]
  /\ tmp' = [there |-> TRUE, files |-> NoFiles]
  /\ UNCHANGED <<files, index>> /\ HistorySame

\* Write the answer there.  It is given up if an item is not well formed, or
\* the directory was removed meanwhile.
Fill(s) ==
  /\ sess[s].pc = "fill"
  /\ \/ /\ tmp.there
        /\ tmp' = [tmp EXCEPT !.files = [n \in DOMAIN @ \cup DOMAIN sess[s].fresh |->
                     IF n \in DOMAIN sess[s].fresh THEN sess[s].fresh[n] ELSE @[n]]]
        /\ Go(s, "place")
     \/ tmp' = NoTmp /\ End(s)
  /\ UNCHANGED <<files, index>> /\ HistorySame

\* Note the names of the new files; then nothing is given up any more.  From
\* here what the model left out is not owed.  A fact it put under another name,
\* while a file that says it is overwritten, is adrift until all are in place.
Place(s) ==
  /\ sess[s].pc = "place"
  /\ LET new  == DOMAIN tmp.files
         kept == FactsOf(tmp.files)
         moving == {x \in kept : \E n \in DOMAIN files \cap new : x \in files[n] \ tmp.files[n]}
     IN /\ sess' = [sess EXCEPT ![s].names = new, ![s].old = @ \ new,
                                ![s].pc = IF new = {} THEN "clean" ELSE "move"]
        /\ owed' = owed \ (sess[s].read \ kept)
        /\ adrift' = adrift \cup moving
  /\ UNCHANGED <<files, tmp, index, torn>>

\* The new files are put in place, one by one, over those of the same name.
Move(s) ==
  /\ sess[s].pc = "move"
  /\ \E n \in sess[s].names \cap DOMAIN tmp.files :
       /\ files' = Put(files, n, tmp.files[n])
       /\ tmp' = [tmp EXCEPT !.files = Remove(@, n)]
       /\ sess' = [sess EXCEPT ![s].names = @ \ {n},
                               ![s].pc = IF sess[s].names = {n} THEN "clean" ELSE "move"]
       /\ adrift' = IF sess[s].names = {n} THEN adrift \ FactsOf(sess[s].fresh) ELSE adrift
  /\ UNCHANGED <<index, owed, torn>>

\* (Mutant: the index is not written again.)
CleanOnly(s) ==
  /\ sess[s].pc = "clean"
  /\ IF sess[s].old = {} THEN Go(s, "sweep") /\ files' = files
     ELSE \E n \in sess[s].old \cap DOMAIN files :
            /\ files' = Remove(files, n)
            /\ sess' = [sess EXCEPT ![s].old = @ \ {n}]
  /\ UNCHANGED <<tmp, index>> /\ HistorySame

\* Then the other old files are removed, and the index is written again.
Clean(s) ==
  /\ sess[s].pc = "clean"
  /\ IF sess[s].old = {} THEN Go(s, "scan") /\ files' = files
     ELSE \E n \in sess[s].old \cap DOMAIN files :
            /\ files' = Remove(files, n)
            /\ sess' = [sess EXCEPT ![s].old = @ \ {n}]
  /\ UNCHANGED <<tmp, index>> /\ HistorySame

\* finally
Sweep(s) ==
  /\ sess[s].pc = "sweep"
  /\ tmp' = NoTmp
  /\ End(s)
  /\ UNCHANGED <<files, index>> /\ HistorySame

-----------------------------------------------------------------------------
\* A change was made, or may have been, that the index does not show.
Tears(s) == sess[s].pc \in {"scan", "index", "move", "clean"}

\* The file system raises: a disk error, or a file that is not there.  run_agent
\* logs it and the turn is over; a replacement passes through finally.
Raises(s) ==
  /\ Busy(s) /\ sess[s].pc # "sweep"
  /\ IF sess[s].pc \in {"place", "move", "clean"} \/ (sess[s].merging /\ Tears(s))
     THEN Go(s, "sweep") ELSE End(s)
  /\ torn' = (torn \/ Tears(s))
  /\ UNCHANGED <<files, tmp, index, owed, adrift>>

\* The process is killed; a write may be cut off after it opened the file.
Killed(s) ==
  /\ sess[s].pc # "idle"
  /\ End(s)
  /\ files' \in {files} \cup (IF sess[s].pc = "write"
                              THEN {Put(files, Head(sess[s].todo).name, {})} ELSE {})
  /\ torn' = (torn \/ Tears(s))
  /\ UNCHANGED <<tmp, index, owed, adrift>>

Step(s) ==
  \/ Load(s) \/ ReadBody(s) \/ Leave(s)
  \/ Extract(s) \/ CheckName(s) \/ WriteFile(s) \/ Scan(s) \/ WriteIndex(s)
  \/ ListAll(s) \/ ReadCorpus(s) \/ NoAnswer(s) \/ Prepare(s) \/ Fill(s)
  \/ Place(s) \/ Move(s) \/ Clean(s) \/ Sweep(s)
  \/ Raises(s) \/ Killed(s)

\* What a load is due: all there is when it lists every file, but for what is
\* left out or adrift later; nothing if a name is removed and then used again
\* before it is read.
DueNext(s) ==
  IF sess'[s].pc \notin {"load", "chat"} THEN {}
  ELSE IF sess[s].pc = "idle" THEN IF sess'[s].names = Listed THEN owed \ adrift ELSE {}
  ELSE IF sess[s].names \cap (DOMAIN files' \ DOMAIN files) # {} THEN {}
  ELSE (due[s] \cap owed') \ adrift'

Next ==
  /\ \E s \in Sessions : Step(s)
  /\ due' = [s \in Sessions |-> DueNext(s)]
  /\ raced' = (raced \/ \E s, r \in Sessions : s # r /\ Busy(s)' /\ Busy(r)')

Spec == Init /\ [][Next]_vars
-----------------------------------------------------------------------------
\* No memory is lost by a failure or a crash, wherever it strikes: what was
\* written down stays in some file until a consolidation that has read it leaves
\* it out.  Not if two sessions were writing at once; and a replacement that
\* stops may lose what it was to move out of a file it overwrites.
KeptUnlessRaced == raced \/ owed \ adrift \subseteq FactsOf(files)

\* While nobody writes the index lists the files there are, unless somebody
\* stopped on the way to it; the next to write repairs that.
IndexIsTrue ==
  raced \/ torn \/ (\E s \in Sessions : Busy(s)) \/ index = Listed

\* A load that reads every file and meets no error has every memory there was
\* all the while, even if files were being replaced under it (but for a fact
\* that was adrift, and unless a name was used again).
LoadMissesNothing ==
  raced \/ \A s \in Sessions : sess[s].pc = "chat" => due[s] \subseteq sess[s].read
=============================================================================
