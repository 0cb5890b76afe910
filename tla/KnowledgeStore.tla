--------------------------- MODULE KnowledgeStore ---------------------------
(***************************************************************************)
(* The writer of the Obsidian vault: a publication is a journal row with   *)
(* the before and after image of every file it changes, then one           *)
(* os.replace per file, then an outbox item for the Git publisher, then    *)
(* the row is marked done.  All of it happens under writer.lock, which     *)
(* every operation takes and which starts with the replay of a row left    *)
(* pending.  The person who edits the vault in Obsidian takes no lock, and *)
(* the process may stop, or a write fail, between any two of these steps.  *)
(*                                                                         *)
(* The content of a file is the sequence of the publications and edits by  *)
(* hand whose results its writers had before them.  An agent may reword    *)
(* what it was shown; what matters is that it was shown it.  The index and *)
(* the log, appended to by every publication, are one file.  The source    *)
(* page of a turn is immutable and left out.                               *)
(***************************************************************************)
EXTENDS Naturals, Sequences, FiniteSets

CONSTANTS Sources,    \* the source ids, one per turn
          Pages,      \* idea and wiki pages
          Index,      \* index.md and log.md
          Edits,      \* edits made by hand in Obsidian
          NoSource, NoContext, NoFile

ASSUME KnowledgeStoreAssumption ==
  /\ IsFiniteSet(Sources) /\ IsFiniteSet(Pages)
  /\ Sources \cap Edits = {}
  /\ Index \notin Pages
  /\ NoSource \notin Sources
  /\ NoFile \notin Pages \cup {Index}

VARIABLES
  \* durable
  page,      \* the content of each file, <<>> when there is none
  journal,   \* the rows of the table commits
  outbox,    \* the sources whose item is in .sync
  \* of the two processes
  lock,      \* who holds writer.lock
  context,   \* what each turn has read of the pages for its agent
  busy,      \* the source whose changes are being applied
  replaying, \* ... by _recover rather than by publish
  pc, at,    \* where _apply is: the step, and the change it is at
  \* history
  place,     \* the file each edit was made to
  raced      \* the edits made between the last check of a file and its replacement

store == <<page, journal, outbox>>
writer == <<lock, busy, replaying, pc, at>>
history == <<place, raced>>
storeVars == <<store, writer, context, history>>

Files == Pages \cup {Index}
Content == Seq(Sources \cup Edits)
Steps == {"idle", "preflight", "check", "write", "finish"}
NoRow == [status |-> "none", row |-> 0, changes |-> <<>>]
Rows == [status : {"none", "pending", "done", "conflict"}, row : Nat,
         changes : Seq([file : Files, before : Content])]

StoreTypeOK ==
  /\ page \in [Files -> Content]
  /\ journal \in [Sources -> Rows]
  /\ outbox \subseteq Sources
  /\ lock \in {"free", "store", "git"}
  /\ \A s \in Sources : context[s] = NoContext \/ context[s] \in [Pages -> Content]
  /\ busy \in Sources \cup {NoSource}
  /\ replaying \in BOOLEAN
  /\ pc \in Steps /\ at \in Nat
  /\ place \in [Edits -> Files \cup {NoFile}] /\ raced \subseteq Edits
  /\ lock = "store" <=> pc # "idle"
  /\ busy # NoSource <=> pc # "idle"

StoreInit ==
  /\ page = [f \in Files |-> <<>>]
  /\ journal = [s \in Sources |-> NoRow]
  /\ outbox = {}
  /\ lock = "free"
  /\ context = [s \in Sources |-> NoContext]
  /\ busy = NoSource /\ replaying = FALSE /\ pc = "idle" /\ at = 0
  /\ place = [e \in Edits |-> NoFile] /\ raced = {}

-----------------------------------------------------------------------------
(* Faulty variants of definitions below, one for each property: what the   *)
(* code would say with a plausible mistake.  Nothing here uses them.       *)

NeverLooks(c, s) == TRUE

-----------------------------------------------------------------------------
(* Helpers.                                                                *)

Holds(f, x) == \E i \in DOMAIN page[f] : page[f][i] = x

\* A change of the journal: the file, its content before, and after.
After(c, s) == Append(c.before, s)

Pending(s) == journal[s].status = "pending"

\* An operation that finds writer.lock free and nothing to replay.
Ready == lock = "free" /\ ~\E s \in Sources : Pending(s)

NextRow == 1 + Cardinality({s \in Sources : journal[s] # NoRow})

\* The orders in which a publication may list its pages.
Orders(T) == {o \in [1 .. Cardinality(T) -> T] : \A i, j \in DOMAIN o : o[i] = o[j] => i = j}

Released ==
  /\ lock' = "free" /\ busy' = NoSource /\ replaying' = FALSE
  /\ pc' = "idle" /\ at' = 0

-----------------------------------------------------------------------------
(* The operations.                                                         *)

\* context(): the existing pages as the agent will see them.
SelectContext(s) ==
  /\ Ready
  /\ journal[s] = NoRow /\ context[s] = NoContext
  /\ context' = [context EXCEPT ![s] = [p \in Pages |-> page[p]]]
  /\ UNCHANGED <<store, writer, history>>

\* The turn ends without a publication: a question, a cancel, a timeout, or
\* publish refuses because a page has changed since context().
DropContext(s) ==
  /\ context[s] # NoContext
  /\ context' = [context EXCEPT ![s] = NoContext]
  /\ UNCHANGED <<store, writer, history>>

\* publish() up to the commit of the journal row: the pages T, none of which
\* has changed since context(), and then the index.
Publish(s, T) ==
  /\ Ready
  /\ journal[s] = NoRow /\ context[s] # NoContext
  /\ \A p \in T : page[p] = context[s][p]
  /\ \E o \in Orders(T) :
       journal' = [journal EXCEPT ![s] =
         [status |-> "pending", row |-> NextRow,
          changes |-> Append([i \in DOMAIN o |-> [file |-> o[i], before |-> page[o[i]]]],
                             [file |-> Index, before |-> page[Index]])]]
  /\ context' = [context EXCEPT ![s] = NoContext]
  /\ lock' = "store" /\ busy' = s /\ replaying' = FALSE
  /\ pc' = "preflight" /\ at' = 1
  /\ UNCHANGED <<page, outbox, history>>

\* _recover, at the start of whatever operation comes next.
Replay(s) ==
  /\ lock = "free" /\ Pending(s)
  /\ lock' = "store" /\ busy' = s /\ replaying' = TRUE
  /\ pc' = "preflight" /\ at' = 1
  /\ UNCHANGED <<store, context, history>>

-----------------------------------------------------------------------------
(* _apply                                                                  *)

Changes == journal[busy].changes
Change == Changes[at]

\* A file is as it was before this publication, or as this one leaves it.
Unchanged(c, s) == page[c.file] \in {c.before, After(c, s)}

\* KnowledgeConflict: _recover closes the row, publish leaves it pending.
Closed == "conflict"

ConflictFound ==
  /\ journal' = IF replaying THEN [journal EXCEPT ![busy].status = Closed] ELSE journal
  /\ Released
  /\ UNCHANGED <<page, outbox, context, history>>

\* All files are looked at before the first is written.
Preflight ==
  /\ pc = "preflight"
  /\ IF \A i \in DOMAIN Changes : Unchanged(Changes[i], busy)
     THEN pc' = "check" /\ UNCHANGED <<store, lock, busy, replaying, at, context, history>>
     ELSE ConflictFound

\* ... and each again before it is written; one that is written is passed over.
Check ==
  /\ pc = "check" /\ at \in DOMAIN Changes
  /\ IF ~Unchanged(Change, busy) THEN ConflictFound
     ELSE /\ IF page[Change.file] = After(Change, busy)
             THEN at' = at + 1 /\ UNCHANGED pc
             ELSE pc' = "write" /\ UNCHANGED at
          /\ UNCHANGED <<store, lock, busy, replaying, context, history>>

\* os.replace
Write ==
  /\ pc = "write"
  /\ page' = [page EXCEPT ![Change.file] = After(Change, busy)]
  /\ pc' = "check" /\ at' = at + 1
  /\ UNCHANGED <<journal, outbox, lock, busy, replaying, context, history>>

\* The last change is the item in the outbox.
ItemIsNext == at \notin DOMAIN Changes

PutItem ==
  /\ pc = "check" /\ ItemIsNext
  /\ outbox' = outbox \cup {busy}
  /\ pc' = "finish"
  /\ UNCHANGED <<page, journal, lock, busy, replaying, at, context, history>>

Finish ==
  /\ pc = "finish"
  /\ journal' = [journal EXCEPT ![busy].status = "done"]
  /\ Released
  /\ UNCHANGED <<page, outbox, context, history>>

\* A statement or a write fails, and the operation with it.
StoreFails ==
  /\ pc # "idle"
  /\ Released
  /\ UNCHANGED <<store, context, history>>

\* The gateway stops.
StoreStops ==
  /\ \/ lock # "git" /\ Released
     \/ lock = "git" /\ UNCHANGED writer
  /\ context' = [s \in Sources |-> NoContext]
  /\ UNCHANGED <<store, history>>

\* A person adds to a page, or creates it.
EditByHand(e, f) ==
  /\ place[e] = NoFile
  /\ place' = [place EXCEPT ![e] = f]
  /\ page' = [page EXCEPT ![f] = Append(@, e)]
  /\ raced' = IF pc = "write" /\ Change.file = f THEN raced \cup {e} ELSE raced
  /\ UNCHANGED <<journal, outbox, writer, context>>

-----------------------------------------------------------------------------

Apply == Preflight \/ Check \/ Write \/ PutItem \/ Finish

StoreNext ==
  \/ \E s \in Sources : SelectContext(s) \/ DropContext(s) \/ Replay(s)
  \/ \E s \in Sources, T \in SUBSET Pages \ {{}} : Publish(s, T)
  \/ Apply
  \/ StoreFails \/ StoreStops
  \/ \E e \in Edits, f \in Files : EditByHand(e, f)

-----------------------------------------------------------------------------
(* Safety.                                                                 *)

Changed(s) == {journal[s].changes[i].file : i \in DOMAIN journal[s].changes}

\* An edit made by hand survives publications, failed writes, stops and
\* replays, unless it falls between the last check of a file and os.replace.
EditsSurvive ==
  \A e \in Edits \ raced : place[e] # NoFile => Holds(place[e], e)

=============================================================================
