------------------------------- MODULE GitSync -------------------------------
(***************************************************************************)
(* The Git publisher of the agent service, on the vault KnowledgeStore     *)
(* writes.  A pass takes writer.lock if it is free, compares every file    *)
(* the items of the outbox name with its hash in the latest of them,       *)
(* commits those files, pushes, and then removes the items one by one.     *)
(* A pass may fail or be killed at any of these points.  Head and remote   *)
(* are the content of the files in the local branch and in origin.  The    *)
(* time an item was created at is the order of the journal rows.  The      *)
(* repository is in order: no detached HEAD, no unmerged index.            *)
(***************************************************************************)
EXTENDS KnowledgeStore

VARIABLES
  head,      \* the files as last committed
  remote,    \* the files as last pushed
  gpc,       \* where the pass is
  tasks,     \* the items it has read and not removed yet
  answer,    \* last_result
  \* history
  torn       \* a pass was cut off at its unlinks

git == <<head, remote, gpc, tasks, answer, torn>>
vars == <<storeVars, git>>

GitTypeOK ==
  /\ StoreTypeOK
  /\ head \in [Files -> Content] /\ remote \in [Files -> Content]
  /\ gpc \in {"idle", "commit", "push", "unlink"}
  /\ tasks \subseteq outbox
  /\ answer \in {"idle", "synced", "retry", "conflict"}
  /\ torn \in BOOLEAN
  /\ lock = "git" <=> gpc # "idle"

Init ==
  /\ StoreInit
  /\ head = page /\ remote = page
  /\ gpc = "idle" /\ tasks = {} /\ answer = "idle" /\ torn = FALSE

-----------------------------------------------------------------------------
(* Faulty variants of definitions below, one for each property: what the   *)
(* code would say with a plausible mistake.  Nothing here uses them.       *)

NeverCompares(S) == TRUE
UnlinkBeforePush == "unlink"
OnlyFirst == {s \in outbox : \A t \in outbox : journal[s].row <= journal[t].row}

-----------------------------------------------------------------------------
(* _sync                                                                   *)

\* writer.lock is released with the file that holds it, however a pass ends.
AfterPass == "free"

\* The files the items in S name, and the latest item that names one.
Named(S) == UNION {Changed(s) : s \in S}
Latest(S, f) ==
  CHOOSE s \in S : f \in Changed(s) /\ \A t \in S : f \in Changed(t) => journal[t].row <= journal[s].row

\* The content an item has the hash of.
Hashed(s, f) ==
  LET i == CHOOSE i \in DOMAIN journal[s].changes : journal[s].changes[i].file = f
  IN After(journal[s].changes[i], s)

Published(S) == \A f \in Named(S) : page[f] = Hashed(Latest(S, f), f)

\* run_once finds the lock free and reads the outbox.
Read == outbox

GitReads ==
  /\ lock = "free"
  /\ IF Read # {} /\ Published(Read)
     THEN /\ lock' = "git" /\ gpc' = "commit" /\ tasks' = Read
          /\ UNCHANGED answer
     ELSE /\ answer' = IF Read = {} THEN "idle" ELSE "conflict"
          /\ UNCHANGED <<lock, gpc, tasks>>
  /\ UNCHANGED <<store, context, busy, replaying, pc, at, history, head, remote, torn>>

\* git commit --only takes the files as they are now; it is left out when git
\* status reports none of them as changed.
AfterCommit == "push"

GitCommits ==
  /\ gpc = "commit"
  /\ head' = [f \in Files |-> IF f \in Named(tasks) THEN page[f] ELSE head[f]]
  /\ gpc' = AfterCommit
  /\ UNCHANGED <<storeVars, remote, tasks, answer, torn>>

GitPushes ==
  /\ gpc = "push"
  /\ remote' = head
  /\ gpc' = "unlink"
  /\ UNCHANGED <<storeVars, head, tasks, answer, torn>>

\* path.unlink, in the order glob returned them, which is none.
GitUnlinks(s) ==
  /\ gpc = "unlink" /\ s \in tasks
  /\ outbox' = outbox \ {s} /\ tasks' = tasks \ {s}
  /\ IF tasks' = {}
     THEN lock' = AfterPass /\ gpc' = "idle" /\ answer' = "synced"
     ELSE UNCHANGED <<lock, gpc, answer>>
  /\ UNCHANGED <<page, journal, context, busy, replaying, pc, at, history, head, remote, torn>>

\* A git command fails or times out (a push that did may have arrived), or
\* the service stops and starts again.
GitFails ==
  /\ gpc # "idle"
  /\ lock' = AfterPass /\ gpc' = "idle" /\ tasks' = {}
  /\ answer' \in {"retry", "idle"}
  /\ torn' = (torn \/ gpc = "unlink")
  /\ UNCHANGED <<store, context, busy, replaying, pc, at, history, head, remote>>

-----------------------------------------------------------------------------

GitNext ==
  \/ GitReads \/ GitCommits \/ GitPushes
  \/ \E s \in Sources : GitUnlinks(s)
  \/ GitFails

Next ==
  \/ StoreNext /\ UNCHANGED git
  \/ GitNext

Spec == Init /\ [][Next]_vars

\* The thread that holds the store's lock runs, and some operation of the
\* store comes next; the publisher's loop runs every 15 s.
FairSpec ==
  /\ Spec
  /\ WF_vars(Apply /\ UNCHANGED git)
  /\ WF_vars((\E s \in Sources : Replay(s)) /\ UNCHANGED git)
  /\ WF_vars(GitReads) /\ WF_vars(GitCommits) /\ WF_vars(GitPushes)
  /\ WF_vars(\E s \in Sources : GitUnlinks(s))

-----------------------------------------------------------------------------
(* Safety.                                                                 *)

\* No publication is forgotten: once it is done, its item waits in the outbox
\* or all its files are in origin, whatever fails or stops in between.
NothingForgotten ==
  \A s \in Sources : journal[s].status = "done" =>
    \/ s \in outbox
    \/ \A f \in Changed(s) : \E i \in DOMAIN remote[f] : remote[f][i] = s

\* Origin never shows half a publication, except one the journal has closed as
\* a conflict, whose files a later publication may build on.
NeverHalfPushed ==
  \A s \in Sources : journal[s].status # "conflict" =>
    LET In(f) == \E i \in DOMAIN remote[f] : remote[f][i] = s
    IN (\E f \in Changed(s) : In(f)) => \A f \in Changed(s) : In(f)

-----------------------------------------------------------------------------
(* Liveness.                                                               *)

Interruption == StoreFails \/ StoreStops \/ GitFails

\* When the interruptions end, and nothing of the above stands in the way,
\* what was published reaches origin and leaves the outbox.
OutboxDrains ==
  <>[][~Interruption]_vars =>
    \A s \in Sources :
      s \in outbox ~> s \notin outbox \/ torn \/ \E e \in Edits : place[e] # NoFile
=============================================================================
