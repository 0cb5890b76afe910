--------------------------- MODULE GitSync_proofs ---------------------------
(***************************************************************************)
(* The vault and its publisher, for any number of turns, pages and edits.  *)
(*                                                                         *)
(* An edit by hand is only ever lost to os.replace: when _apply is about   *)
(* to replace a file, whatever is in it, and in time, was there when the   *)
(* journal row was written.                                                *)
(*                                                                         *)
(* A publication of which something has left the store (an item, a row     *)
(* that is done, a commit) is in all its files.  It stays there, for the   *)
(* one row that is pending was written when nothing else was, and what it  *)
(* puts in place of a file shows whatever the file showed.  So a pass      *)
(* commits publications with all their files, provided that it commits     *)
(* nothing of the pending one: a file has the hash of the latest item, and *)
(* no item was ever built upon a publication that is still pending.        *)
(***************************************************************************)
EXTENDS GitSync, FiniteSetTheorems, SequenceTheorems, WellFoundedInduction, TLAPS

-----------------------------------------------------------------------------
(* The invariant.                                                          *)

In(q, x) == \E i \in DOMAIN q : q[i] = x
Status(s) == journal[s].status
RowOf(s) == journal[s].changes

TypeInv == GitTypeOK /\ DOMAIN context = Sources

\* The one publication that is pending is the one being applied, and the files
\* before the change it is at show it.
WriterInv ==
  /\ \A s, t \in Sources : Pending(s) /\ Pending(t) => s = t
  /\ pc # "idle" => Pending(busy) /\ at > 0
  /\ pc = "preflight" => at = 1
  /\ pc = "write" => at \in DOMAIN Changes
  /\ pc \in {"check", "write", "finish"} =>
       \A i \in DOMAIN Changes : i < at => In(page[Changes[i].file], busy)
  /\ pc = "finish" => busy \in outbox

\* No file shows a publication that was not begun, and none is begun upon one
\* that is not over.
KnownInv ==
  /\ \A s \in Sources, f \in Files :
       In(page[f], s) \/ In(head[f], s) \/ In(remote[f], s) => Status(s) # "none"
  /\ \A s \in outbox : Status(s) # "none"
  /\ \A s, t \in Sources : \A i \in DOMAIN RowOf(t) :
       In(RowOf(t)[i].before, s) => Status(s) \in {"done", "conflict"}

\* A publication of which something has left the store is in all its files, and
\* in what the pending one will put in their place.
Left(s) == s \in outbox \/ Status(s) = "done" \/ (Pending(s) /\ \E f \in Files : In(head[f], s))
WholeInv ==
  /\ \A s \in Sources : Left(s) => \A f \in Changed(s) : In(page[f], s)
  /\ \A s, t \in Sources : Pending(t) /\ s # t /\ Left(s) =>
       \A i \in DOMAIN RowOf(t) : RowOf(t)[i].file \in Changed(s) => In(RowOf(t)[i].before, s)

\* What a pass commits is whole as well; what it has pushed is in origin.
PassInv ==
  /\ gpc = "commit" => tasks = outbox
  /\ gpc = "commit" => \A s \in Sources, f \in Named(tasks) :
       In(page[f], s) => s \in tasks \/ Status(s) \in {"done", "conflict"}
  /\ gpc \in {"push", "unlink"} => \A s \in tasks : \A f \in Changed(s) : In(head[f], s)
  /\ gpc = "unlink" => \A s \in tasks : \A f \in Changed(s) : In(remote[f], s)

\* A done publication without an item has been pushed.
SentInv ==
  \A s \in Sources : Status(s) = "done" /\ s \notin outbox =>
    \A f \in Changed(s) : In(head[f], s) /\ In(remote[f], s)

\* Neither the local branch nor origin shows half a publication.
HalfInv ==
  \A s \in Sources : Status(s) # "conflict" => \A f, g \in Changed(s) :
    /\ In(head[f], s) => In(head[g], s)
    /\ In(remote[f], s) => In(remote[g], s)

\* An edit that is in the file about to be replaced, and in time, was there when
\* the journal row was written.
EditInv ==
  pc = "write" => \A e \in Edits \ raced : In(page[Change.file], e) => In(Change.before, e)


USE DEF git, storeVars, store, writer, history

-----------------------------------------------------------------------------
(* Sequences and rows.                                                     *)

\* A finite set has a member with the largest row.
LEMMA LastOne ==
  ASSUME NEW X, IsFiniteSet(X), X # {}, NEW row, \A s \in X : row[s] \in Nat
  PROVE  \E s \in X : \A t \in X : row[t] <= row[s]
<1> DEFINE Above(s) == {t \in X : row[t] > row[s]}
           All == {Above(s) : s \in X}
<1>1. All \subseteq FiniteSubsetsOf(X) /\ All # {}
  <2>1. \A s \in X : Above(s) \in SUBSET X
    OBVIOUS
  <2>2. \A s \in X : IsFiniteSet(Above(s))
    BY <2>1, FS_Subset
  <2> QED
    BY <2>1, <2>2 DEF FiniteSubsetsOf
<1>2. PICK A \in All : \A B \in All : ~(<<B, A>> \in StrictSubsetOrdering(X))
  <2>1. IsWellFoundedOn(StrictSubsetOrdering(X), FiniteSubsetsOf(X))
    BY FS_StrictSubsetOrderingWellFounded
  <2> HIDE DEF All
  <2> QED
    BY <1>1, <2>1, WFMin
<1>3. PICK s \in X : A = Above(s)
  OBVIOUS
<1>4. ASSUME NEW t \in X, ~(row[t] <= row[s]) PROVE FALSE
  <2>1. Above(t) \in All /\ Above(t) \subseteq Above(s) /\ Above(t) # Above(s)
    <3>1. t \in Above(s) /\ t \notin Above(t)
      BY <1>4
    <3>2. Above(t) \subseteq Above(s)
      BY <1>4
    <3> QED
      BY <3>1, <3>2
  <2>2. <<Above(t), Above(s)>> \in StrictSubsetOrdering(X)
    BY <2>1 DEF StrictSubsetOrdering
  <2> QED
    BY <1>2, <1>3, <2>1, <2>2
<1> QED
  BY <1>4

LEMMA InAppend ==
  ASSUME NEW q \in Content, NEW y \in Sources \cup Edits
  PROVE  /\ Append(q, y) \in Content
         /\ \A x : In(Append(q, y), x) <=> In(q, x) \/ x = y
<1>1. /\ Append(q, y) \in Seq(Sources \cup Edits)
      /\ DOMAIN q = 1 .. Len(q) /\ Len(q) \in Nat
      /\ DOMAIN Append(q, y) = 1 .. Len(q) + 1
      /\ \A i \in 1 .. Len(q) + 1 : Append(q, y)[i] = IF i <= Len(q) THEN q[i] ELSE y
  BY DEF Content
<1>2. ASSUME NEW x, In(Append(q, y), x) PROVE In(q, x) \/ x = y
  <2>1. PICK i \in 1 .. Len(q) + 1 : Append(q, y)[i] = x
    BY <1>1, <1>2 DEF In
  <2>2. CASE i <= Len(q)
    BY <1>1, <2>1, <2>2 DEF In
  <2>3. CASE ~(i <= Len(q))
    BY <1>1, <2>1, <2>3
  <2> QED
    BY <2>2, <2>3
<1>3. ASSUME NEW x, In(q, x) PROVE In(Append(q, y), x)
  <2>1. PICK i \in 1 .. Len(q) : q[i] = x
    BY <1>1, <1>3 DEF In
  <2>2. i \in 1 .. Len(q) + 1 /\ Append(q, y)[i] = x
    BY <1>1, <2>1
  <2> QED
    BY <1>1, <2>2 DEF In
<1>4. In(Append(q, y), y)
  <2>1. Len(q) + 1 \in 1 .. Len(q) + 1 /\ Append(q, y)[Len(q) + 1] = y
    BY <1>1
  <2> QED
    BY <1>1, <2>1 DEF In
<1> QED
  BY <1>1, <1>2, <1>3, <1>4 DEF Content

LEMMA EmptyContent == <<>> \in Content /\ \A x : ~In(<<>>, x)
  BY DEF Content, In

LEMMA NoRowType ==
  /\ NoRow \in Rows
  /\ NoRow.status = "none" /\ NoRow.row = 0 /\ NoRow.changes = <<>>
  BY DEF NoRow, Rows

\* What the journal's types say of one row and one of its changes.
LEMMA RowTypes ==
  ASSUME TypeInv, NEW s \in Sources
  PROVE  /\ journal[s] \in Rows
         /\ Status(s) \in {"none", "pending", "done", "conflict"}
         /\ journal[s].row \in Nat
         /\ RowOf(s) \in Seq([file : Files, before : Content])
         /\ DOMAIN RowOf(s) = 1 .. Len(RowOf(s)) /\ Len(RowOf(s)) \in Nat
         /\ \A i \in DOMAIN RowOf(s) :
              /\ RowOf(s)[i] \in [file : Files, before : Content]
              /\ RowOf(s)[i].file \in Files /\ RowOf(s)[i].before \in Content
              /\ RowOf(s)[i].file \in Changed(s)
         /\ Changed(s) \subseteq Files
<1>1. journal[s] \in Rows
  BY DEF TypeInv, GitTypeOK, StoreTypeOK
<1>2. /\ Status(s) \in {"none", "pending", "done", "conflict"}
      /\ journal[s].row \in Nat
      /\ RowOf(s) \in Seq([file : Files, before : Content])
  BY <1>1 DEF Rows, Status, RowOf
<1>3. DOMAIN RowOf(s) = 1 .. Len(RowOf(s)) /\ Len(RowOf(s)) \in Nat
  BY <1>2
<1>4. \A i \in DOMAIN RowOf(s) : RowOf(s)[i] \in [file : Files, before : Content]
  BY <1>2, <1>3, ElementOfSeq
<1>5. \A i \in DOMAIN RowOf(s) :
        /\ RowOf(s)[i].file \in Files /\ RowOf(s)[i].before \in Content
        /\ RowOf(s)[i].file \in Changed(s)
  BY <1>4 DEF Changed, RowOf
<1>6. Changed(s) \subseteq Files
  BY <1>5 DEF Changed, RowOf
<1> QED
  BY <1>1, <1>2, <1>3, <1>4, <1>5, <1>6

\* A row whose status alone changes.
LEMMA StatusSteps ==
  ASSUME TypeInv, busy \in Sources, NEW x \in {"pending", "done", "conflict"},
         journal' = [journal EXCEPT ![busy].status = x]
  PROVE  /\ journal' \in [Sources -> Rows]
         /\ \A s \in Sources :
              /\ Status(s)' = IF s = busy THEN x ELSE Status(s)
              /\ RowOf(s)' = RowOf(s) /\ Changed(s)' = Changed(s)
<1>1. journal \in [Sources -> Rows]
  BY DEF TypeInv, GitTypeOK, StoreTypeOK
<1>2. ASSUME NEW s \in Sources
      PROVE  /\ journal'[s] \in Rows
             /\ journal'[s].status = IF s = busy THEN x ELSE journal[s].status
             /\ journal'[s].changes = journal[s].changes
  <2>1. journal[s] \in Rows
    BY <1>1
  <2>2. CASE s = busy
    <3>1. journal'[s] = [journal[s] EXCEPT !.status = x]
      BY <1>1, <2>2
    <3> QED
      BY <2>1, <2>2, <3>1 DEF Rows
  <2>3. CASE s # busy
    BY <1>1, <2>1, <2>3
  <2> QED
    BY <2>2, <2>3
<1>3. journal' \in [Sources -> Rows]
  BY <1>1, <1>2
<1> QED
  BY <1>2, <1>3 DEF Status, RowOf, Changed

\* What publish writes to the journal: pages as they are, and the index.
LEMMA PublishedRow ==
  ASSUME TypeInv, NEW s \in Sources, NEW T \in SUBSET Pages, Publish(s, T)
  PROVE  /\ journal' \in [Sources -> Rows]
         /\ Status(s)' = "pending" /\ Status(s) = "none" /\ RowOf(s) = <<>>
         /\ \A i \in DOMAIN RowOf(s)' :
              /\ RowOf(s)'[i].before = page[RowOf(s)'[i].file]
              /\ RowOf(s)'[i].file \in Files /\ RowOf(s)'[i].file \in Changed(s)'
         /\ Changed(s)' \subseteq Files
         /\ \A t \in Sources \ {s} :
              /\ Status(t)' = Status(t) /\ RowOf(t)' = RowOf(t) /\ Changed(t)' = Changed(t)
              /\ Status(t) # "pending"
<1>1. journal \in [Sources -> Rows] /\ page \in [Files -> Content]
  BY DEF TypeInv, GitTypeOK, StoreTypeOK
<1>2. PICK o \in Orders(T) :
        journal' = [journal EXCEPT ![s] =
          [status |-> "pending", row |-> NextRow,
           changes |-> Append([i \in DOMAIN o |-> [file |-> o[i], before |-> page[o[i]]]],
                              [file |-> Index, before |-> page[Index]])]]
  BY DEF Publish
<1> DEFINE C == [file : Files, before : Content]
           q == [i \in DOMAIN o |-> [file |-> o[i], before |-> page[o[i]]]]
           last == [file |-> Index, before |-> page[Index]]
           row == [status |-> "pending", row |-> NextRow, changes |-> Append(q, last)]
<1>3. Cardinality(T) \in Nat
  BY KnowledgeStoreAssumption, FS_Subset, FS_CardinalityType
<1>4. q \in Seq(C) /\ DOMAIN q = 1 .. Cardinality(T) /\ Len(q) = Cardinality(T)
  <2>1. o \in [1 .. Cardinality(T) -> T]
    BY DEF Orders
  <2>2. \A i \in 1 .. Cardinality(T) : [file |-> o[i], before |-> page[o[i]]] \in C
    BY <1>1, <2>1 DEF Files
  <2>3. q \in [1 .. Cardinality(T) -> C]
    BY <2>1, <2>2
  <2> HIDE DEF C, q
  <2> QED
    BY <1>3, <2>3, SeqDef
<1>5. last \in C
  BY <1>1 DEF Files
<1>6. /\ Append(q, last) \in Seq(C)
      /\ DOMAIN Append(q, last) = 1 .. Cardinality(T) + 1
      /\ \A i \in 1 .. Cardinality(T) + 1 :
           Append(q, last)[i] = IF i <= Cardinality(T) THEN q[i] ELSE last
  <2> HIDE DEF C, q, last
  <2> QED
    BY <1>3, <1>4, <1>5
<1>7. \A i \in DOMAIN Append(q, last) :
        /\ Append(q, last)[i].before = page[Append(q, last)[i].file]
        /\ Append(q, last)[i].file \in Files
  <2>0. \A i \in DOMAIN Append(q, last) : Append(q, last)[i] \in C
    <3> HIDE DEF C, q, last
    <3> QED
      BY <1>3, <1>6, ElementOfSeq
  <2> SUFFICES ASSUME NEW i \in 1 .. Cardinality(T) + 1
               PROVE  Append(q, last)[i].before = page[Append(q, last)[i].file]
    BY <1>6, <2>0
  <2>1. CASE i <= Cardinality(T)
    <3>1. i \in DOMAIN q
      BY <1>3, <1>4, <2>1
    <3>2. q[i] = [file |-> o[i], before |-> page[o[i]]]
      BY <3>1
    <3>3. Append(q, last)[i] = q[i]
      BY <1>6, <2>1
    <3> HIDE DEF q, last
    <3> QED
      BY <3>2, <3>3
  <2>2. CASE ~(i <= Cardinality(T))
    <3>1. Append(q, last)[i] = last
      BY <1>6, <2>2
    <3>2. last.before = page[last.file]
      OBVIOUS
    <3> HIDE DEF q, last
    <3> QED
      BY <3>1, <3>2
  <2> QED
    BY <2>1, <2>2
<1>8. NextRow \in Nat
  <2> DEFINE Begun == {t \in Sources : journal[t] # NoRow}
  <2>1. Cardinality(Begun) \in Nat
    <3>1. Begun \in SUBSET Sources
      OBVIOUS
    <3> HIDE DEF Begun
    <3> QED
      BY <3>1, KnowledgeStoreAssumption, FS_Subset, FS_CardinalityType
  <2>2. NextRow = 1 + Cardinality(Begun)
    BY DEF NextRow
  <2> HIDE DEF Begun
  <2> QED
    BY <2>1, <2>2
<1>9. row \in Rows /\ row.status = "pending" /\ row.changes = Append(q, last)
  <2> HIDE DEF q, last
  <2> QED
    BY <1>6, <1>8 DEF Rows
<1>10. journal' = [journal EXCEPT ![s] = row]
  BY <1>2
<1> HIDE DEF q, last, row, C
<1>11. journal'[s] = row /\ \A t \in Sources \ {s} : journal'[t] = journal[t]
  BY <1>1, <1>10
<1>12. journal' \in [Sources -> Rows]
  BY <1>1, <1>9, <1>10
<1>13. Status(s) = "none" /\ RowOf(s) = <<>> /\ \A t \in Sources : Status(t) # "pending"
  BY NoRowType DEF Publish, Ready, Pending, Status, RowOf
<1>14. RowOf(s)' = Append(q, last)
  BY <1>9, <1>11 DEF RowOf
<1>15. Changed(s)' = {RowOf(s)'[i].file : i \in DOMAIN RowOf(s)'}
  BY DEF Changed, RowOf
<1>16. \A i \in DOMAIN RowOf(s)' :
         /\ RowOf(s)'[i].before = page[RowOf(s)'[i].file]
         /\ RowOf(s)'[i].file \in Files /\ RowOf(s)'[i].file \in Changed(s)'
  BY <1>7, <1>14, <1>15
<1>17. Changed(s)' \subseteq Files
  BY <1>15, <1>16
<1>18. \A t \in Sources \ {s} :
         /\ Status(t)' = Status(t) /\ RowOf(t)' = RowOf(t) /\ Changed(t)' = Changed(t)
         /\ Status(t) # "pending"
  BY <1>11, <1>13 DEF Status, RowOf, Changed
<1> QED
  BY <1>9, <1>11, <1>12, <1>13, <1>16, <1>17, <1>18 DEF Status

-----------------------------------------------------------------------------
(* Types.                                                                  *)

StoreShape ==
  /\ page \in [Files -> Content] /\ journal \in [Sources -> Rows] /\ outbox \subseteq Sources
WriterShape ==
  /\ lock \in {"free", "store", "git"}
  /\ busy \in Sources \cup {NoSource} /\ replaying \in BOOLEAN
  /\ pc \in Steps /\ at \in Nat
  /\ lock = "store" <=> pc # "idle"
  /\ busy # NoSource <=> pc # "idle"
  /\ lock = "git" <=> gpc # "idle"
ContextShape ==
  /\ DOMAIN context = Sources
  /\ \A s \in Sources : context[s] = NoContext \/ context[s] \in [Pages -> Content]
HistoryShape == place \in [Edits -> Files \cup {NoFile}] /\ raced \subseteq Edits
PassShape ==
  /\ head \in [Files -> Content] /\ remote \in [Files -> Content]
  /\ gpc \in {"idle", "commit", "push", "unlink"}
  /\ tasks \subseteq outbox /\ answer \in {"idle", "synced", "retry", "conflict"}
  /\ torn \in BOOLEAN

LEMMA TypeParts ==
  TypeInv <=> StoreShape /\ WriterShape /\ ContextShape /\ HistoryShape /\ PassShape
  BY DEF TypeInv, GitTypeOK, StoreTypeOK, StoreShape, WriterShape, ContextShape, HistoryShape,
         PassShape

LEMMA InitTypes == Init => TypeInv
<1> SUFFICES ASSUME Init PROVE TypeInv
  OBVIOUS
<1>1. StoreShape
  BY EmptyContent, NoRowType DEF Init, StoreInit, StoreShape
<1>2. WriterShape
  BY DEF Init, StoreInit, WriterShape, Steps
<1>3. ContextShape
  BY DEF Init, StoreInit, ContextShape
<1>4. HistoryShape
  BY DEF Init, StoreInit, HistoryShape
<1>5. PassShape
  BY EmptyContent DEF Init, StoreInit, PassShape
<1> QED
  BY <1>1, <1>2, <1>3, <1>4, <1>5, TypeParts

\* What _apply is at, and that the other process is then idle.
LEMMA Applying ==
  ASSUME TypeInv, pc # "idle"
  PROVE  busy \in Sources /\ lock = "store" /\ gpc = "idle"
  BY DEF TypeInv, GitTypeOK, StoreTypeOK

LEMMA StoreKeepsTypes ==
  ASSUME TypeInv, WriterInv, StoreNext, UNCHANGED git
  PROVE  TypeInv'
<1> USE DEF Steps
<1>1. StoreShape /\ WriterShape /\ ContextShape /\ HistoryShape /\ PassShape
  BY TypeParts
<1>2. PassShape' \/ ~(tasks \subseteq outbox')
  BY <1>1 DEF PassShape
<1>3. ASSUME NEW s \in Sources, SelectContext(s) \/ DropContext(s) PROVE TypeInv'
  <2>1. UNCHANGED <<store, writer, history>>
    BY <1>3 DEF SelectContext, DropContext
  <2>2. ContextShape'
    <3>1. [p \in Pages |-> page[p]] \in [Pages -> Content]
      BY <1>1 DEF StoreShape, Files
    <3> QED
      BY <1>1, <1>3, <3>1 DEF ContextShape, SelectContext, DropContext
  <2>3. StoreShape' /\ WriterShape' /\ HistoryShape' /\ PassShape'
    BY <1>1, <1>2, <2>1 DEF StoreShape, WriterShape, HistoryShape, PassShape
  <2>4. (StoreShape /\ WriterShape /\ ContextShape /\ HistoryShape /\ PassShape)'
    BY <2>2, <2>3
  <2> QED
    BY <2>4, TypeParts, PTL
<1>4. ASSUME NEW s \in Sources, Replay(s) PROVE TypeInv'
  <2>1. StoreShape' /\ ContextShape' /\ HistoryShape' /\ PassShape'
    BY <1>1, <1>4 DEF Replay, StoreShape, ContextShape, HistoryShape, PassShape
  <2>2. WriterShape'
    BY <1>1, <1>4, KnowledgeStoreAssumption DEF Replay, WriterShape
  <2>3. (StoreShape /\ WriterShape /\ ContextShape /\ HistoryShape /\ PassShape)'
    BY <2>1, <2>2
  <2> QED
    BY <2>3, TypeParts, PTL
<1>5. ASSUME NEW s \in Sources, NEW T \in SUBSET Pages, Publish(s, T) PROVE TypeInv'
  <2>1. StoreShape'
    <3>1. journal' \in [Sources -> Rows]
      BY <1>5, PublishedRow
    <3>2. page' = page /\ outbox' = outbox
      BY <1>5 DEF Publish
    <3> QED
      BY <1>1, <3>1, <3>2 DEF StoreShape
  <2>2. ContextShape' /\ HistoryShape' /\ PassShape'
    BY <1>1, <1>5 DEF Publish, ContextShape, HistoryShape, PassShape
  <2>3. WriterShape'
    BY <1>1, <1>5, KnowledgeStoreAssumption DEF Publish, Ready, WriterShape
  <2>4. (StoreShape /\ WriterShape /\ ContextShape /\ HistoryShape /\ PassShape)'
    BY <2>1, <2>2, <2>3
  <2> QED
    BY <2>4, TypeParts, PTL
<1>6. ASSUME Released, UNCHANGED <<page, outbox, history>>, lock # "git",
             journal' = journal \/ \E x \in {"done", "conflict"} :
               busy \in Sources /\ journal' = [journal EXCEPT ![busy].status = x],
             context' = context \/ context' = [s \in Sources |-> NoContext]
      PROVE  TypeInv'
  <2>1. StoreShape'
    <3>1. journal' \in [Sources -> Rows]
      BY <1>1, <1>6, StatusSteps DEF StoreShape
    <3> QED
      BY <1>1, <1>6, <3>1 DEF StoreShape
  <2>2. ContextShape' /\ HistoryShape' /\ PassShape'
    BY <1>1, <1>6 DEF ContextShape, HistoryShape, PassShape
  <2>3. WriterShape'
    BY <1>1, <1>6 DEF Released, WriterShape
  <2>4. (StoreShape /\ WriterShape /\ ContextShape /\ HistoryShape /\ PassShape)'
    BY <2>1, <2>2, <2>3
  <2> QED
    BY <2>4, TypeParts, PTL
<1>7. CASE ConflictFound /\ pc # "idle"
  <2>1. busy \in Sources /\ lock # "git"
    BY <1>7, Applying
  <2> QED
    BY <1>6, <1>7, <2>1 DEF ConflictFound, Closed
<1>8. CASE Finish
  <2>1. busy \in Sources /\ lock # "git"
    BY <1>8, Applying DEF Finish
  <2> QED
    BY <1>6, <1>8, <2>1 DEF Finish
<1>9. CASE StoreFails \/ (StoreStops /\ lock # "git")
  <2>1. lock # "git"
    BY <1>9, Applying DEF StoreFails
  <2> QED
    BY <1>6, <1>9, <2>1 DEF StoreFails, StoreStops
<1>10. CASE StoreStops /\ lock = "git"
  <2>1. UNCHANGED <<store, writer, history>> /\ context' = [s \in Sources |-> NoContext]
    BY <1>10 DEF StoreStops
  <2>2. (StoreShape /\ WriterShape /\ ContextShape /\ HistoryShape /\ PassShape)'
    BY <1>1, <2>1 DEF StoreShape, WriterShape, ContextShape, HistoryShape, PassShape
  <2> QED
    BY <2>2, TypeParts, PTL
<1>11. CASE (Preflight /\ ~ConflictFound) \/ (Check /\ ~ConflictFound)
  <2>1. UNCHANGED <<store, lock, busy, replaying, context, history>> /\ pc # "idle"
        /\ pc' \in Steps \ {"idle"} /\ at' \in {at, at + 1}
    BY <1>11 DEF Preflight, Check
  <2>2. (StoreShape /\ WriterShape /\ ContextShape /\ HistoryShape /\ PassShape)'
    BY <1>1, <2>1 DEF StoreShape, WriterShape, ContextShape, HistoryShape, PassShape
  <2> QED
    BY <2>2, TypeParts, PTL
<1>12. CASE Write
  <2>1. busy \in Sources /\ at \in DOMAIN RowOf(busy) /\ Change = RowOf(busy)[at]
    BY <1>12, Applying DEF Write, WriterInv, Changes, Change, RowOf
  <2>2. Change.file \in Files /\ After(Change, busy) \in Content
    BY <2>1, RowTypes, InAppend DEF After
  <2>3. page' \in [Files -> Content]
    BY <1>1, <1>12, <2>2 DEF Write, StoreShape
  <2>4. (StoreShape /\ WriterShape /\ ContextShape /\ HistoryShape /\ PassShape)'
    BY <1>1, <1>12, <2>3 DEF Write, StoreShape, WriterShape, ContextShape, HistoryShape, PassShape
  <2> QED
    BY <2>4, TypeParts, PTL
<1>13. CASE PutItem
  <2>1. busy \in Sources
    BY <1>13, Applying DEF PutItem
  <2>2. (StoreShape /\ WriterShape /\ ContextShape /\ HistoryShape /\ PassShape)'
    BY <1>1, <1>13, <2>1
       DEF PutItem, StoreShape, WriterShape, ContextShape, HistoryShape, PassShape
  <2> QED
    BY <2>2, TypeParts, PTL
<1>14. ASSUME NEW e \in Edits, NEW f \in Files, EditByHand(e, f) PROVE TypeInv'
  <2>1. page' \in [Files -> Content]
    <3>1. Append(page[f], e) \in Content
      BY <1>1, InAppend DEF StoreShape
    <3> QED
      BY <1>1, <1>14, <3>1 DEF EditByHand, StoreShape
  <2>2. HistoryShape'
    BY <1>1, <1>14 DEF EditByHand, HistoryShape
  <2>3. (StoreShape /\ WriterShape /\ ContextShape /\ HistoryShape /\ PassShape)'
    BY <1>1, <1>14, <2>1, <2>2 DEF EditByHand, StoreShape, WriterShape, ContextShape, PassShape
  <2> QED
    BY <2>3, TypeParts, PTL
<1>15. Preflight \/ Check => pc # "idle"
  BY DEF Preflight, Check
<1> QED
  BY <1>3, <1>4, <1>5, <1>7, <1>8, <1>9, <1>10, <1>11, <1>12, <1>13, <1>14, <1>15
     DEF StoreNext, Apply

LEMMA GitKeepsTypes ==
  ASSUME TypeInv, GitNext
  PROVE  TypeInv'
<1>1. StoreShape /\ WriterShape /\ ContextShape /\ HistoryShape /\ PassShape
  BY TypeParts
<1>2. StoreShape' /\ ContextShape' /\ HistoryShape'
  <2>1. UNCHANGED <<page, journal, context, history>> /\ outbox' \subseteq outbox
    BY DEF GitNext, GitReads, GitCommits, GitPushes, GitUnlinks, GitFails
  <2> QED
    BY <1>1, <2>1 DEF StoreShape, ContextShape, HistoryShape
<1>3. WriterShape'
  <2>1. UNCHANGED <<busy, replaying, pc, at>>
    BY DEF GitNext, GitReads, GitCommits, GitPushes, GitUnlinks, GitFails
  <2>2. /\ lock' \in {"free", "store", "git"}
        /\ lock' = "git" <=> gpc' # "idle"
        /\ lock' = "store" <=> lock = "store"
    BY <1>1 DEF WriterShape, GitNext, GitReads, GitCommits, GitPushes, GitUnlinks, GitFails,
                AfterPass, AfterCommit
  <2> QED
    BY <1>1, <2>1, <2>2 DEF WriterShape
<1>4. PassShape'
  <2>1. CASE GitCommits
    <3>1. head' \in [Files -> Content]
      BY <1>1, <2>1 DEF GitCommits, StoreShape, PassShape
    <3> QED
      BY <1>1, <2>1, <3>1 DEF GitCommits, PassShape, AfterCommit
  <2>2. CASE GitReads \/ GitPushes \/ GitFails
    BY <1>1, <2>2 DEF GitReads, GitPushes, GitFails, PassShape, Read
  <2>3. ASSUME NEW s \in Sources, GitUnlinks(s) PROVE PassShape'
    BY <1>1, <2>3 DEF GitUnlinks, PassShape
  <2> QED
    BY <2>1, <2>2, <2>3 DEF GitNext
<1>5. (StoreShape /\ WriterShape /\ ContextShape /\ HistoryShape /\ PassShape)'
  BY <1>2, <1>3, <1>4
<1> QED
  BY <1>5, TypeParts, PTL

-----------------------------------------------------------------------------
(* The steps of the store.                                                 *)

Kept == KnownInv /\ WholeInv /\ PassInv /\ SentInv /\ HalfInv

\* A step that moves neither a file nor a row.
LEMMA NothingMoves ==
  ASSUME Kept, UNCHANGED <<page, journal, outbox, head, remote, gpc, tasks>>
  PROVE  Kept'
  BY DEF Kept, KnownInv, WholeInv, PassInv, SentInv, HalfInv, Status, RowOf, Left, Pending,
         Changed, Named

\* The row being applied is closed: as done when its item is there.
LEMMA ClosingKeeps ==
  ASSUME TypeInv, WriterInv, Kept, pc # "idle", NEW x \in {"done", "conflict"},
         journal' = [journal EXCEPT ![busy].status = x], x = "done" => busy \in outbox,
         UNCHANGED <<page, outbox, git>>
  PROVE  Kept' /\ \A s \in Sources : Status(s)' # "pending"
<1>1. busy \in Sources /\ gpc = "idle" /\ Status(busy) = "pending"
  BY Applying DEF WriterInv, Pending, Status
<1>2. \A s \in Sources :
        /\ Status(s)' = IF s = busy THEN x ELSE Status(s)
        /\ RowOf(s)' = RowOf(s) /\ Changed(s)' = Changed(s)
  BY <1>1, StatusSteps
<1>3. \A s \in Sources : Status(s)' # "pending"
  BY <1>1, <1>2 DEF WriterInv, Pending, Status
<1>4. \A s \in Sources : Left(s)' => Left(s)
  BY <1>1, <1>2, <1>3 DEF Left, Pending, Status
<1>5. KnownInv'
  <2>1. outbox \subseteq Sources
    BY DEF TypeInv, GitTypeOK, StoreTypeOK
  <2> QED
    BY <1>1, <1>2, <2>1 DEF Kept, KnownInv
<1>6. WholeInv'
  <2>1. \A t \in Sources : ~Pending(t)'
    BY <1>3 DEF Pending, Status
  <2> QED
    BY <1>2, <1>4, <2>1 DEF Kept, WholeInv
<1>7. PassInv'
  BY <1>1 DEF PassInv
<1>8. SentInv'
  BY <1>1, <1>2 DEF Kept, SentInv
<1>9. HalfInv'
  BY <1>1, <1>2 DEF Kept, HalfInv
<1> QED
  BY <1>3, <1>5, <1>6, <1>7, <1>8, <1>9 DEF Kept

\* A new row: nothing shows the publication yet, and nothing but publications
\* that are over is in the files it starts from.
LEMMA PublishKeeps ==
  ASSUME TypeInv, Kept, NEW s \in Sources, NEW T \in SUBSET Pages, Publish(s, T), UNCHANGED git
  PROVE  Kept' /\ \A t \in Sources : Status(t)' = "pending" <=> t = s
<1>1. page' = page /\ outbox' = outbox /\ gpc = "idle"
  BY DEF Publish, Ready, TypeInv, GitTypeOK
<1>2. /\ Status(s)' = "pending" /\ Status(s) = "none"
      /\ \A i \in DOMAIN RowOf(s)' :
           /\ RowOf(s)'[i].before = page[RowOf(s)'[i].file]
           /\ RowOf(s)'[i].file \in Files
      /\ Changed(s)' \subseteq Files
      /\ \A t \in Sources \ {s} :
           /\ Status(t)' = Status(t) /\ RowOf(t)' = RowOf(t) /\ Changed(t)' = Changed(t)
           /\ Status(t) # "pending"
  BY PublishedRow
<1>3. \A t \in Sources : Status(t) \in {"none", "pending", "done", "conflict"}
  BY RowTypes
<1>4. s \notin outbox /\ \A f \in Files : ~In(page[f], s) /\ ~In(head[f], s) /\ ~In(remote[f], s)
  BY <1>2 DEF Kept, KnownInv
<1>5. KnownInv'
  <2>1. \A t \in Sources, f \in Files :
          In(page[f], t) \/ In(head[f], t) \/ In(remote[f], t) => Status(t)' # "none"
    BY <1>2, <1>4 DEF Kept, KnownInv
  <2>2. \A t \in outbox : Status(t)' # "none"
    <3>1. outbox \subseteq Sources
      BY DEF TypeInv, GitTypeOK, StoreTypeOK
    <3> QED
      BY <1>2, <3>1 DEF Kept, KnownInv
  <2>3. \A t \in Sources, f \in Files : In(page[f], t) => Status(t)' \in {"done", "conflict"}
    BY <1>2, <1>3, <1>4 DEF Kept, KnownInv
  <2>4. ASSUME NEW t \in Sources, NEW u \in Sources, NEW i \in DOMAIN RowOf(u)',
               In(RowOf(u)'[i].before, t)
        PROVE  Status(t)' \in {"done", "conflict"}
    <3>1. CASE u = s
      BY <1>2, <2>3, <2>4, <3>1
    <3>2. CASE u # s
      BY <1>2, <2>4, <3>2 DEF Kept, KnownInv
    <3> QED
      BY <3>1, <3>2
  <2> QED
    BY <1>1, <2>1, <2>2, <2>4 DEF KnownInv
<1>6. ~Left(s)' /\ \A t \in Sources \ {s} : Left(t)' => Left(t)
  BY <1>1, <1>2, <1>4 DEF Left, Pending, Status
<1>7. WholeInv'
  <2>1. \A t \in Sources : Left(t)' => \A f \in Changed(t)' : In(page[f], t)
    BY <1>2, <1>6 DEF Kept, WholeInv
  <2>2. \A t \in Sources : Pending(t)' => t = s
    BY <1>2 DEF Pending, Status
  <2>3. \A t \in Sources : t # s /\ Left(t)' =>
          \A i \in DOMAIN RowOf(s)' :
            RowOf(s)'[i].file \in Changed(t)' => In(RowOf(s)'[i].before, t)
    BY <1>2, <2>1
  <2> QED
    BY <1>1, <2>1, <2>2, <2>3 DEF WholeInv
<1>8. PassInv'
  BY <1>1 DEF PassInv
<1>9. SentInv'
  BY <1>1, <1>2 DEF Kept, SentInv
<1>10. HalfInv'
  BY <1>2, <1>4 DEF Kept, HalfInv
<1>11. \A t \in Sources : Status(t)' = "pending" <=> t = s
  BY <1>2
<1> QED
  BY <1>5, <1>7, <1>8, <1>9, <1>10, <1>11 DEF Kept

\* A file is replaced by what the row says: the publications that have left the
\* store were there before.
LEMMA WriteKeeps ==
  ASSUME TypeInv, WriterInv, Kept, Write, UNCHANGED git
  PROVE  /\ Kept'
         /\ \A i \in DOMAIN Changes : i < at + 1 => In(page'[Changes[i].file], busy)
<1> DEFINE f == Change.file
<1>1. /\ busy \in Sources /\ gpc = "idle" /\ Pending(busy)
      /\ at \in DOMAIN RowOf(busy) /\ Change = RowOf(busy)[at] /\ Changes = RowOf(busy)
  BY Applying DEF Write, WriterInv, Changes, Change, RowOf
<1>2. f \in Files /\ Change.before \in Content /\ f \in Changed(busy)
      /\ \A i \in DOMAIN Changes : Changes[i].file \in Files
  BY <1>1, RowTypes
<1>3. page \in [Files -> Content] /\ page' = [page EXCEPT ![f] = After(Change, busy)]
  BY DEF Write, TypeInv, GitTypeOK, StoreTypeOK
<1>4. /\ \A x : In(page'[f], x) <=> In(Change.before, x) \/ x = busy
      /\ \A g \in Files : g # f => page'[g] = page[g]
  BY <1>1, <1>2, <1>3, InAppend DEF After
<1> HIDE DEF f
<1>5. UNCHANGED <<journal, outbox, git>> /\ pc = "write"
  BY DEF Write
<1>6. \A s \in Sources : /\ Status(s)' = Status(s) /\ RowOf(s)' = RowOf(s)
                         /\ Changed(s)' = Changed(s) /\ Left(s)' = Left(s)
                         /\ Pending(s)' = Pending(s) /\ Changed(s) \subseteq Files
  BY <1>5, RowTypes DEF Status, RowOf, Changed, Left, Pending
<1>7. KnownInv'
  <2>1. \A s \in Sources : In(Change.before, s) => Status(s) # "none"
    BY <1>1 DEF Kept, KnownInv
  <2>2. Status(busy) # "none"
    BY <1>1 DEF Pending, Status
  <2>3. \A s \in Sources, g \in Files : In(page'[g], s) => Status(s) # "none"
    BY <1>2, <1>4, <2>1, <2>2 DEF Kept, KnownInv
  <2>4. outbox \subseteq Sources
    BY DEF TypeInv, GitTypeOK, StoreTypeOK
  <2> QED
    BY <1>5, <1>6, <2>3, <2>4 DEF Kept, KnownInv
<1>8. WholeInv'
  <2>1. ASSUME NEW s \in Sources, Left(s), NEW g \in Changed(s) PROVE In(page'[g], s)
    <3>1. CASE g = f /\ s # busy
      <4>1. In(Change.before, s)
        BY <1>1, <2>1, <3>1 DEF Kept, WholeInv, f
      <4> QED
        BY <1>4, <3>1, <4>1
    <3>2. CASE g = f /\ s = busy
      BY <1>4, <3>2
    <3>3. CASE g # f
      BY <1>4, <1>6, <2>1, <3>3 DEF Kept, WholeInv
    <3> QED
      BY <3>1, <3>2, <3>3
  <2> QED
    BY <1>6, <2>1 DEF Kept, WholeInv
<1>9. PassInv'
  BY <1>1, <1>5 DEF PassInv
<1>10. SentInv' /\ HalfInv'
  BY <1>5, <1>6 DEF Kept, SentInv, HalfInv
<1>11. ASSUME NEW i \in DOMAIN Changes, i < at + 1 PROVE In(page'[Changes[i].file], busy)
  <2>1. CASE Changes[i].file = f
    BY <1>4, <2>1
  <2>2. CASE Changes[i].file # f
    <3>1. i # at
      BY <1>1, <2>2 DEF f
    <3>2. i < at
      <4>1. i \in Nat /\ at \in Nat
        BY <1>1, RowTypes DEF TypeInv, GitTypeOK, StoreTypeOK
      <4> QED
        BY <1>11, <3>1, <4>1
    <3> QED
      BY <1>2, <1>4, <1>5, <2>2, <3>2 DEF WriterInv
  <2> QED
    BY <2>1, <2>2
<1> QED
  BY <1>7, <1>8, <1>9, <1>10, <1>11 DEF Kept

\* The item joins the outbox when all its files are written.
LEMMA PutItemKeeps ==
  ASSUME TypeInv, WriterInv, Kept, PutItem, UNCHANGED git
  PROVE  Kept'
<1>1. busy \in Sources /\ gpc = "idle" /\ Pending(busy) /\ Changes = RowOf(busy)
      /\ at \in Nat /\ at > 0 /\ at \notin DOMAIN Changes
  BY Applying DEF PutItem, WriterInv, Changes, RowOf, TypeInv, GitTypeOK, StoreTypeOK, ItemIsNext
<1>2. UNCHANGED <<page, journal, git>> /\ outbox' = outbox \cup {busy}
  BY DEF PutItem
<1>3. \A g \in Changed(busy) : In(page[g], busy)
  <2> SUFFICES ASSUME NEW i \in DOMAIN Changes PROVE In(page[Changes[i].file], busy)
    BY <1>1 DEF Changed, RowOf
  <2>1. i \in 1 .. Len(RowOf(busy)) /\ at \notin 1 .. Len(RowOf(busy)) /\ Len(RowOf(busy)) \in Nat
    BY <1>1, RowTypes
  <2>2. i < at
    BY <1>1, <2>1
  <2> QED
    BY <2>2 DEF PutItem, WriterInv
<1>4. \A s \in Sources : /\ Status(s)' = Status(s) /\ RowOf(s)' = RowOf(s)
                         /\ Changed(s)' = Changed(s) /\ Pending(s)' = Pending(s)
                         /\ s # busy => Left(s)' = Left(s)
  BY <1>2 DEF Status, RowOf, Changed, Left, Pending
<1>5. Status(busy) = "pending" /\ outbox \subseteq Sources
  BY <1>1 DEF Pending, Status, TypeInv, GitTypeOK, StoreTypeOK
<1>6. KnownInv'
  BY <1>1, <1>2, <1>4, <1>5 DEF Kept, KnownInv
<1>7. WholeInv'
  <2>1. \A s \in Sources : Left(s)' => \A g \in Changed(s) : In(page[g], s)
    BY <1>3, <1>4 DEF Kept, WholeInv
  <2>2. \A t \in Sources : Pending(t) => t = busy
    BY <1>1 DEF WriterInv
  <2> QED
    BY <1>2, <1>4, <2>1, <2>2 DEF Kept, WholeInv
<1>8. PassInv'
  BY <1>1, <1>2 DEF PassInv
<1>9. SentInv' /\ HalfInv'
  BY <1>2, <1>4 DEF Kept, SentInv, HalfInv
<1> QED
  BY <1>6, <1>7, <1>8, <1>9 DEF Kept

\* An edit by hand adds nothing but itself.
LEMMA EditKeeps ==
  ASSUME TypeInv, Kept, NEW e \in Edits, NEW f \in Files, EditByHand(e, f), UNCHANGED git
  PROVE  /\ Kept'
         /\ \A g \in Files : \A x : In(page'[g], x) <=> In(page[g], x) \/ (g = f /\ x = e)
<1>1. page \in [Files -> Content] /\ page' = [page EXCEPT ![f] = Append(@, e)]
      /\ UNCHANGED <<journal, outbox, git>>
  BY DEF EditByHand, TypeInv, GitTypeOK, StoreTypeOK
<1>2. \A g \in Files : \A x : In(page'[g], x) <=> In(page[g], x) \/ (g = f /\ x = e)
  BY <1>1, InAppend
<1>3. \A g \in Files, s \in Sources : In(page'[g], s) <=> In(page[g], s)
  BY <1>2, KnowledgeStoreAssumption
<1>4. \A s \in Sources : /\ Status(s)' = Status(s) /\ RowOf(s)' = RowOf(s)
                         /\ Changed(s)' = Changed(s) /\ Pending(s)' = Pending(s)
                         /\ Left(s)' = Left(s) /\ Changed(s) \subseteq Files
  BY <1>1, RowTypes DEF Status, RowOf, Changed, Left, Pending
<1>5. tasks \subseteq outbox /\ outbox \subseteq Sources
  BY DEF TypeInv, GitTypeOK, StoreTypeOK
<1>6. KnownInv'
  BY <1>1, <1>3, <1>4, <1>5 DEF Kept, KnownInv
<1>7. WholeInv'
  BY <1>3, <1>4 DEF Kept, WholeInv
<1>8. PassInv'
  <2>1. Named(tasks)' = Named(tasks) /\ Named(tasks) \subseteq Files
    BY <1>1, <1>4, <1>5 DEF Named, Changed
  <2> QED
    BY <1>1, <1>3, <1>4, <1>5, <2>1 DEF Kept, PassInv
<1>9. SentInv' /\ HalfInv'
  BY <1>1, <1>4 DEF Kept, SentInv, HalfInv
<1> QED
  BY <1>2, <1>6, <1>7, <1>8, <1>9 DEF Kept

LEMMA NoteWriter ==
  ASSUME WriterInv, UNCHANGED <<store, writer>>
  PROVE  WriterInv'
  BY DEF WriterInv, Changes, Pending, In

\* A writer that stops leaves at most the row it was at.
LEMMA ReleasedWriter ==
  ASSUME Released, \A s, t \in Sources : Pending(s)' /\ Pending(t)' => s = t
  PROVE  WriterInv' /\ EditInv'
  BY DEF Released, WriterInv, EditInv

LEMMA EditsStay ==
  ASSUME EditInv, EditsSurvive, UNCHANGED <<page, history>>
  PROVE  EditsSurvive'
  BY DEF EditsSurvive, Holds

LEMMA StoreStep ==
  ASSUME TypeInv, WriterInv, Kept, EditInv, EditsSurvive, StoreNext, UNCHANGED git
  PROVE  WriterInv' /\ Kept' /\ EditInv' /\ EditsSurvive'
<1> DEFINE Goal == WriterInv' /\ Kept' /\ EditInv' /\ EditsSurvive'
<1>0. \A s, t \in Sources : Pending(s) /\ Pending(t) => s = t
  BY DEF WriterInv
<1>1. ASSUME UNCHANGED <<store, writer, history>> PROVE Goal
  <2>1. EditInv' /\ EditsSurvive'
    BY <1>1 DEF EditInv, EditsSurvive, Holds, Change, Changes, In
  <2> QED
    BY <1>1, <2>1, NoteWriter, NothingMoves
<1>2. ASSUME Released, UNCHANGED <<store, history>> PROVE Goal
  <2>1. \A s, t \in Sources : Pending(s)' /\ Pending(t)' => s = t
    BY <1>0, <1>2 DEF Pending
  <2> QED
    BY <1>2, <2>1, ReleasedWriter, EditsStay, NothingMoves
<1>3. ASSUME Released, UNCHANGED <<page, outbox, history>>, pc # "idle",
             NEW x \in {"done", "conflict"}, x = "done" => busy \in outbox,
             journal' = [journal EXCEPT ![busy].status = x]
      PROVE  Goal
  <2>1. Kept' /\ \A s \in Sources : Status(s)' # "pending"
    BY <1>3, ClosingKeeps
  <2>2. \A s, t \in Sources : Pending(s)' /\ Pending(t)' => s = t
    BY <2>1 DEF Pending, Status
  <2> QED
    BY <1>3, <2>1, <2>2, ReleasedWriter, EditsStay
<1>4. ASSUME NEW s \in Sources, Replay(s) PROVE Goal
  <2>1. UNCHANGED <<store, history>> /\ Pending(s) /\ busy' = s /\ pc' = "preflight" /\ at' = 1
    BY <1>4 DEF Replay
  <2>2. WriterInv'
    BY <1>0, <2>1 DEF WriterInv, Pending
  <2>3. EditInv'
    BY <2>1 DEF EditInv
  <2> QED
    BY <2>1, <2>2, <2>3, EditsStay, NothingMoves
<1>5. ASSUME NEW s \in Sources, NEW T \in SUBSET Pages, Publish(s, T) PROVE Goal
  <2>1. UNCHANGED <<page, history>> /\ busy' = s /\ pc' = "preflight" /\ at' = 1
    BY <1>5 DEF Publish
  <2>2. Kept' /\ \A t \in Sources : Status(t)' = "pending" <=> t = s
    BY <1>5, PublishKeeps
  <2>3. WriterInv'
    BY <2>1, <2>2 DEF WriterInv, Pending, Status
  <2>4. EditInv'
    BY <2>1 DEF EditInv
  <2> QED
    BY <2>1, <2>2, <2>3, <2>4, EditsStay
<1>6. ASSUME ConflictFound, pc # "idle" PROVE Goal
  <2>1. CASE replaying
    BY <1>3, <1>6, <2>1 DEF ConflictFound, Closed
  <2>2. CASE ~replaying
    BY <1>2, <1>6, <2>2 DEF ConflictFound
  <2> QED
    BY <2>1, <2>2
<1>7. CASE Preflight
  <2>1. pc = "preflight" /\ at = 1
    BY <1>7 DEF Preflight, WriterInv
  <2>2. CASE ConflictFound
    BY <1>6, <2>1, <2>2
  <2>3. CASE pc' = "check" /\ UNCHANGED <<store, lock, busy, replaying, at, context, history>>
    <3>1. WriterInv'
      <4>1. busy \in Sources
        BY <2>1, Applying
      <4>2. \A i \in DOMAIN Changes : ~(i < 1)
        BY <4>1, RowTypes DEF Changes, RowOf
      <4> QED
        BY <2>1, <2>3, <4>2 DEF WriterInv, Changes, Pending
    <3>2. EditInv'
      BY <2>3 DEF EditInv
    <3> QED
      BY <2>3, <3>1, <3>2, EditsStay, NothingMoves
  <2> QED
    BY <1>7, <2>2, <2>3 DEF Preflight
<1>8. CASE Check
  <2>1. pc = "check" /\ at \in DOMAIN Changes /\ busy \in Sources
    BY <1>8, Applying DEF Check
  <2>2. CASE ConflictFound
    BY <1>6, <2>1, <2>2
  <2>3. CASE Unchanged(Change, busy) /\ UNCHANGED <<store, lock, busy, replaying, context, history>>
    <3>1. at \in Nat /\ DOMAIN Changes \subseteq Nat /\ Change.file \in Files /\ Change.before \in Content
      BY <2>1, RowTypes DEF Change, Changes, RowOf, TypeInv, GitTypeOK, StoreTypeOK
    <3>2. CASE page[Change.file] = After(Change, busy) /\ at' = at + 1 /\ pc' = pc
      <4>1. In(page[Change.file], busy)
        BY <2>1, <3>1, <3>2, InAppend DEF After
      <4>2. \A i \in DOMAIN Changes : i < at + 1 => In(page[Changes[i].file], busy)
        BY <2>1, <3>1, <4>1 DEF WriterInv, Change
      <4>3. WriterInv'
        BY <2>1, <2>3, <3>1, <3>2, <4>2 DEF WriterInv, Changes, Pending
      <4>4. EditInv'
        BY <2>1, <3>2 DEF EditInv
      <4> QED
        BY <2>3, <4>3, <4>4, EditsStay, NothingMoves
    <3>3. CASE page[Change.file] = Change.before /\ at' = at /\ pc' = "write"
      <4>1. WriterInv'
        BY <2>1, <2>3, <3>3 DEF WriterInv, Changes, Pending
      <4>2. EditInv'
        BY <2>3, <3>3 DEF EditInv, Change, Changes
      <4> QED
        BY <2>3, <4>1, <4>2, EditsStay, NothingMoves
    <3> QED
      BY <1>8, <2>2, <2>3, <3>2, <3>3 DEF Check, Unchanged
  <2> QED
    BY <1>8, <2>2, <2>3 DEF Check
<1>9. CASE Write
  <2>1. /\ pc = "write" /\ pc' = "check" /\ at' = at + 1
        /\ UNCHANGED <<journal, outbox, busy, history>>
    BY <1>9 DEF Write
  <2>2. Kept' /\ \A i \in DOMAIN Changes : i < at + 1 => In(page'[Changes[i].file], busy)
    BY <1>9, WriteKeeps
  <2>3. WriterInv'
    <3>1. at \in Nat
      BY DEF TypeInv, GitTypeOK, StoreTypeOK
    <3> QED
      BY <2>1, <2>2, <3>1 DEF WriterInv, Changes, Pending
  <2>4. EditsSurvive'
    <3>1. busy \in Sources /\ Change.file \in Files /\ Change.before \in Content
      BY <2>1, Applying, RowTypes DEF WriterInv, Change, Changes, RowOf
    <3>2. page \in [Files -> Content] /\ page' = [page EXCEPT ![Change.file] = After(Change, busy)]
          /\ place \in [Edits -> Files \cup {NoFile}]
      BY <1>9 DEF Write, TypeInv, GitTypeOK, StoreTypeOK
    <3> SUFFICES ASSUME NEW e \in Edits \ raced, place[e] # NoFile PROVE In(page'[place[e]], e)
      BY <2>1 DEF EditsSurvive, Holds, In
    <3>3. In(page[place[e]], e) /\ place[e] \in Files
      BY <3>2 DEF EditsSurvive, Holds, In
    <3>4. CASE place[e] = Change.file
      <4>1. In(Change.before, e)
        BY <2>1, <3>3, <3>4 DEF EditInv
      <4> QED
        BY <3>1, <3>2, <3>4, <4>1, InAppend DEF After
    <3>5. CASE place[e] # Change.file
      BY <3>1, <3>2, <3>3, <3>5
    <3> QED
      BY <3>4, <3>5
  <2> QED
    BY <2>1, <2>2, <2>3, <2>4 DEF EditInv
<1>10. CASE PutItem
  <2>1. pc = "check" /\ pc' = "finish" /\ outbox' = outbox \cup {busy}
        /\ UNCHANGED <<page, journal, busy, at, history>>
    BY <1>10 DEF PutItem
  <2>2. WriterInv'
    BY <2>1 DEF WriterInv, Changes, Pending
  <2> QED
    BY <1>10, <2>1, <2>2, PutItemKeeps, EditsStay DEF EditInv
<1>11. CASE Finish
  <2>1. pc = "finish" /\ busy \in outbox
    BY <1>11 DEF Finish, WriterInv
  <2> QED
    BY <1>3, <1>11, <2>1 DEF Finish
<1>12. ASSUME NEW e \in Edits, NEW f \in Files, EditByHand(e, f) PROVE Goal
  <2>1. /\ UNCHANGED <<journal, outbox, writer>> /\ place[e] = NoFile
        /\ place' = [place EXCEPT ![e] = f]
        /\ raced' = IF pc = "write" /\ Change.file = f THEN raced \cup {e} ELSE raced
    BY <1>12 DEF EditByHand
  <2>2. Kept' /\ \A g \in Files : \A x : In(page'[g], x) <=> In(page[g], x) \/ (g = f /\ x = e)
    BY <1>12, EditKeeps
  <2>3. place \in [Edits -> Files \cup {NoFile}]
    BY DEF TypeInv, GitTypeOK, StoreTypeOK
  <2>4. WriterInv'
    <3>1. pc # "idle" => \A i \in DOMAIN Changes : Changes[i].file \in Files
      BY Applying, RowTypes DEF Changes, RowOf
    <3> QED
      BY <2>1, <2>2, <3>1 DEF WriterInv, Changes, Pending
  <2>5. EditInv'
    <3> SUFFICES ASSUME pc = "write", NEW d \in Edits \ raced', In(page'[Change.file], d)
                 PROVE  In(Change.before, d)
      BY <2>1 DEF EditInv, Change, Changes
    <3>1. Change.file \in Files
      BY Applying, RowTypes DEF WriterInv, Change, Changes, RowOf
    <3>2. d \notin raced /\ ~(Change.file = f /\ d = e)
      BY <2>1
    <3> QED
      BY <2>2, <3>1, <3>2 DEF EditInv
  <2>6. EditsSurvive'
    <3> SUFFICES ASSUME NEW d \in Edits \ raced', place'[d] # NoFile PROVE In(page'[place'[d]], d)
      BY DEF EditsSurvive, Holds, In
    <3>1. CASE d = e
      BY <2>1, <2>2, <2>3, <3>1
    <3>2. CASE d # e
      <4>1. place'[d] = place[d] /\ place[d] \in Files /\ d \notin raced
        BY <2>1, <2>3, <3>2
      <4>2. In(page[place[d]], d)
        BY <4>1 DEF EditsSurvive, Holds, In
      <4> QED
        BY <2>2, <4>1, <4>2
    <3> QED
      BY <3>1, <3>2
  <2> QED
    BY <2>2, <2>4, <2>5, <2>6
<1>13. ASSUME NEW s \in Sources, SelectContext(s) \/ DropContext(s) PROVE Goal
  BY <1>1, <1>13 DEF SelectContext, DropContext
<1>14. CASE StoreFails \/ StoreStops
  BY <1>1, <1>2, <1>14 DEF StoreFails, StoreStops
<1> QED
  BY <1>4, <1>5, <1>7, <1>8, <1>9, <1>10, <1>11, <1>12, <1>13, <1>14 DEF StoreNext, Apply

-----------------------------------------------------------------------------
(* The steps of the publisher.                                             *)

\* A file that has the hash of the latest item shows, besides its publication,
\* only what that one was built upon.
LEMMA HashShows ==
  ASSUME TypeInv, Kept, Published(outbox), NEW f \in Named(outbox),
         NEW s \in Sources, In(page[f], s)
  PROVE  s \in outbox \/ Status(s) \in {"done", "conflict"}
<1> DEFINE X == {t \in outbox : f \in Changed(t)}
           row == [t \in X |-> journal[t].row]
           last == Latest(outbox, f)
           c == CHOOSE i \in DOMAIN RowOf(last) : RowOf(last)[i].file = f
<1>1. outbox \subseteq Sources
  BY DEF TypeInv, GitTypeOK, StoreTypeOK
<1>2. X # {} /\ IsFiniteSet(X) /\ \A t \in X : row[t] \in Nat /\ row[t] = journal[t].row
  <2>1. X # {}
    BY DEF Named
  <2>2. X \in SUBSET Sources
    BY <1>1
  <2>3. IsFiniteSet(X)
    BY <2>2, KnowledgeStoreAssumption, FS_Subset
  <2>4. \A t \in X : row[t] \in Nat
    BY <1>1, RowTypes
  <2> QED
    BY <2>1, <2>3, <2>4
<1>3. PICK t \in X : \A u \in X : row[u] <= row[t]
  <2> HIDE DEF X, row
  <2> QED
    BY <1>2, LastOne
<1>4. /\ t \in outbox /\ f \in Changed(t)
      /\ \A u \in outbox : f \in Changed(u) => journal[u].row <= journal[t].row
  BY <1>2, <1>3
<1>5. last \in outbox /\ f \in Changed(last)
  BY <1>4 DEF Latest
<1>6. c \in DOMAIN RowOf(last) /\ RowOf(last)[c].file = f
  BY <1>5 DEF Changed, RowOf
<1>7. page[f] = After(RowOf(last)[c], last)
  BY DEF Published, Hashed, RowOf
<1> HIDE DEF last, c
<1>8. RowOf(last)[c].before \in Content /\ last \in Sources
  BY <1>1, <1>5, <1>6, RowTypes
<1>9. In(RowOf(last)[c].before, s) \/ s = last
  BY <1>7, <1>8, InAppend DEF After
<1> QED
  BY <1>5, <1>6, <1>8, <1>9 DEF Kept, KnownInv

\* While a pass runs the store is idle.
LEMMA Passing ==
  ASSUME TypeInv, gpc # "idle" \/ lock = "free"
  PROVE  pc = "idle"
  BY DEF TypeInv, GitTypeOK, StoreTypeOK

LEMMA GitReadsKeeps ==
  ASSUME TypeInv, Kept, GitReads
  PROVE  Kept'
<1>1. UNCHANGED <<page, journal, outbox, head, remote>>
  BY DEF GitReads
<1>2. KnownInv' /\ WholeInv' /\ SentInv' /\ HalfInv'
  BY <1>1 DEF Kept, KnownInv, WholeInv, SentInv, HalfInv, Status, RowOf, Left, Pending, Changed
<1>3. PassInv'
  <2>1. CASE Published(outbox) /\ gpc' = "commit" /\ tasks' = outbox
    <3>1. \A s \in Sources, f \in Named(outbox) :
            In(page[f], s) => s \in outbox \/ Status(s) \in {"done", "conflict"}
      BY <2>1, HashShows
    <3>2. Named(tasks)' = Named(outbox) /\ \A s \in Sources : Status(s)' = Status(s)
      BY <1>1, <2>1 DEF Named, Changed, Status
    <3> QED
      BY <1>1, <2>1, <3>1, <3>2 DEF PassInv
  <2>2. CASE UNCHANGED <<gpc, tasks>>
    BY <1>1, <2>2 DEF Kept, PassInv, Named, Changed, Status
  <2> QED
    BY <2>1, <2>2 DEF GitReads, Read
<1> QED
  BY <1>2, <1>3 DEF Kept

\* What a pass commits is whole: what is in one of its files has an item, or is
\* over, and then it is in the others too.
LEMMA GitCommitsKeeps ==
  ASSUME TypeInv, WriterInv, Kept, GitCommits
  PROVE  Kept'
<1>1. /\ UNCHANGED <<page, journal, outbox, remote, tasks>>
      /\ gpc = "commit" /\ gpc' = "push" /\ tasks = outbox
      /\ outbox \subseteq Sources
      /\ \A f \in Files : head'[f] = IF f \in Named(outbox) THEN page[f] ELSE head[f]
  BY DEF GitCommits, AfterCommit, Kept, PassInv, TypeInv, GitTypeOK, StoreTypeOK
<1>2. \A s \in Sources :
        /\ Status(s)' = Status(s) /\ RowOf(s)' = RowOf(s) /\ Changed(s)' = Changed(s)
        /\ Pending(s)' = Pending(s) /\ Changed(s) \subseteq Files
        /\ Status(s) \in {"none", "pending", "done", "conflict"}
  BY <1>1, RowTypes DEF Status, RowOf, Changed, Pending
<1>3. \A s \in outbox : Changed(s) \subseteq Named(outbox)
  BY DEF Named
<1>4. \A s \in Sources, f \in Named(outbox) :
        In(page[f], s) => s \in outbox \/ Status(s) \in {"done", "conflict"}
  BY <1>1 DEF Kept, PassInv
<1>5. \A s \in Sources : s \in outbox \/ Status(s) = "done" =>
        \A f \in Changed(s) : In(page[f], s)
  BY DEF Kept, WholeInv, Left
<1>6. KnownInv'
  <2>1. \A s \in Sources, f \in Files : In(head'[f], s) => Status(s) # "none"
    BY <1>1 DEF Kept, KnownInv
  <2> QED
    BY <1>1, <1>2, <2>1 DEF Kept, KnownInv
<1>7. \A s \in Sources : Left(s)' => Left(s)
  <2> SUFFICES ASSUME NEW s \in Sources, Pending(s), NEW f \in Files, In(head'[f], s)
               PROVE  Left(s)
    BY <1>1, <1>2 DEF Left
  <2>1. CASE f \in Named(outbox)
    <3>1. In(page[f], s) /\ Status(s) = "pending"
      BY <1>1, <2>1 DEF Pending, Status
    <3> QED
      BY <1>4, <2>1, <3>1 DEF Left
  <2>2. CASE f \notin Named(outbox)
    BY <1>1, <2>2 DEF Left
  <2> QED
    BY <2>1, <2>2
<1>8. WholeInv'
  BY <1>1, <1>2, <1>7 DEF Kept, WholeInv
<1>9. PassInv'
  <2>1. \A s \in outbox : \A f \in Changed(s) : In(head'[f], s)
    BY <1>1, <1>2, <1>3, <1>5
  <2> QED
    BY <1>1, <1>2, <2>1 DEF PassInv
<1>10. SentInv'
  <2>1. ASSUME NEW s \in Sources, Status(s) = "done", s \notin outbox, NEW f \in Changed(s)
        PROVE  In(head'[f], s) /\ In(remote[f], s)
    <3>1. In(head[f], s) /\ In(remote[f], s)
      BY <2>1 DEF Kept, SentInv
    <3>2. In(page[f], s)
      BY <1>5, <2>1
    <3> QED
      BY <1>1, <1>2, <3>1, <3>2
  <2> QED
    BY <1>1, <1>2, <2>1 DEF SentInv
<1>11. HalfInv'
  <2>1. ASSUME NEW s \in Sources, Status(s) # "conflict",
               NEW f \in Changed(s), NEW g \in Changed(s), In(head'[f], s)
        PROVE  In(head'[g], s)
    <3>0. f \in Files /\ g \in Files
      BY <1>2
    <3>1. CASE f \in Named(outbox)
      <4>1. s \in outbox \/ Status(s) = "done"
        BY <1>1, <1>4, <2>1, <3>0, <3>1
      <4>2. In(page[g], s)
        BY <1>5, <4>1
      <4>3. CASE g \notin Named(outbox)
        <5>1. Status(s) = "done" /\ s \notin outbox
          BY <1>3, <4>1, <4>3
        <5>2. In(head[g], s)
          BY <5>1 DEF Kept, SentInv
        <5> QED
          BY <1>1, <3>0, <4>3, <5>2
      <4> QED
        BY <1>1, <3>0, <4>2, <4>3
    <3>2. CASE f \notin Named(outbox)
      <4>1. In(head[f], s)
        BY <1>1, <2>1, <3>0, <3>2
      <4>2. In(head[g], s)
        BY <2>1, <4>1 DEF Kept, HalfInv
      <4>3. Status(s) \in {"pending", "done"}
        BY <1>2, <2>1, <3>0, <4>1 DEF Kept, KnownInv
      <4>4. Left(s)
        BY <3>0, <4>1, <4>3 DEF Left, Pending, Status
      <4>5. In(page[g], s)
        BY <4>4 DEF Kept, WholeInv
      <4> QED
        BY <1>1, <3>0, <4>2, <4>5
    <3> QED
      BY <3>1, <3>2
  <2> QED
    BY <1>1, <1>2, <2>1 DEF Kept, HalfInv
<1> QED
  BY <1>6, <1>8, <1>9, <1>10, <1>11 DEF Kept

LEMMA GitPushesKeeps ==
  ASSUME TypeInv, Kept, GitPushes
  PROVE  Kept'
<1>1. /\ UNCHANGED <<page, journal, outbox, head, tasks>>
      /\ gpc = "push" /\ gpc' = "unlink" /\ remote' = head
      /\ tasks \subseteq outbox /\ outbox \subseteq Sources
  BY DEF GitPushes, TypeInv, GitTypeOK, StoreTypeOK
<1>2. \A s \in Sources :
        /\ Status(s)' = Status(s) /\ RowOf(s)' = RowOf(s) /\ Changed(s)' = Changed(s)
        /\ Pending(s)' = Pending(s) /\ Left(s)' = Left(s)
  BY <1>1 DEF Status, RowOf, Changed, Pending, Left
<1>3. KnownInv' /\ WholeInv'
  BY <1>1, <1>2 DEF Kept, KnownInv, WholeInv
<1>4. PassInv'
  BY <1>1, <1>2 DEF Kept, PassInv
<1>5. SentInv' /\ HalfInv'
  BY <1>1, <1>2 DEF Kept, SentInv, HalfInv
<1> QED
  BY <1>3, <1>4, <1>5 DEF Kept

LEMMA GitUnlinksKeeps ==
  ASSUME TypeInv, Kept, NEW s \in Sources, GitUnlinks(s)
  PROVE  Kept'
<1>1. /\ UNCHANGED <<page, journal, head, remote>>
      /\ gpc = "unlink" /\ gpc' \in {"unlink", "idle"} /\ s \in tasks
      /\ outbox' = outbox \ {s} /\ tasks' = tasks \ {s}
      /\ tasks \subseteq outbox /\ outbox \subseteq Sources
  BY DEF GitUnlinks, TypeInv, GitTypeOK, StoreTypeOK
<1>2. \A t \in Sources :
        /\ Status(t)' = Status(t) /\ RowOf(t)' = RowOf(t) /\ Changed(t)' = Changed(t)
        /\ Pending(t)' = Pending(t)
        /\ Left(t)' => Left(t)
  BY <1>1 DEF Status, RowOf, Changed, Pending, Left
<1>3. KnownInv' /\ WholeInv'
  BY <1>1, <1>2 DEF Kept, KnownInv, WholeInv
<1>4. PassInv'
  BY <1>1, <1>2 DEF Kept, PassInv
<1>5. SentInv' /\ HalfInv'
  BY <1>1, <1>2 DEF Kept, SentInv, HalfInv, PassInv
<1> QED
  BY <1>3, <1>4, <1>5 DEF Kept

LEMMA GitFailsKeeps ==
  ASSUME TypeInv, Kept, GitFails
  PROVE  Kept'
<1>1. UNCHANGED <<page, journal, outbox, head, remote>> /\ gpc' = "idle"
  BY DEF GitFails
<1> QED
  BY <1>1 DEF Kept, KnownInv, WholeInv, PassInv, SentInv, HalfInv, Status, RowOf, Left, Pending,
              Changed

LEMMA GitStep ==
  ASSUME TypeInv, WriterInv, Kept, EditInv, EditsSurvive, GitNext
  PROVE  WriterInv' /\ Kept' /\ EditInv' /\ EditsSurvive'
<1>1. pc = "idle" /\ pc' = "idle" /\ UNCHANGED <<page, journal, history>>
  BY Passing DEF GitNext, GitReads, GitCommits, GitPushes, GitUnlinks, GitFails
<1>2. WriterInv' /\ EditInv' /\ EditsSurvive'
  BY <1>1, EditsStay DEF WriterInv, Pending, EditInv
<1> QED
  BY <1>2, GitReadsKeeps, GitCommitsKeeps, GitPushesKeeps, GitUnlinksKeeps, GitFailsKeeps
     DEF GitNext

-----------------------------------------------------------------------------
IInv == TypeInv /\ WriterInv /\ Kept /\ EditInv /\ EditsSurvive

LEMMA InitHolds == Init => IInv
<1> SUFFICES ASSUME Init PROVE IInv
  OBVIOUS
<1>1. /\ pc = "idle" /\ gpc = "idle" /\ outbox = {}
      /\ \A s \in Sources : Status(s) = "none" /\ RowOf(s) = <<>> /\ Changed(s) = {} /\ ~Pending(s)
      /\ \A f \in Files : \A x : ~In(page[f], x) /\ ~In(head[f], x) /\ ~In(remote[f], x)
      /\ \A e \in Edits : place[e] = NoFile
  BY EmptyContent, NoRowType DEF Init, StoreInit, Status, RowOf, Changed, Pending
<1>2. WriterInv /\ EditInv /\ EditsSurvive
  BY <1>1 DEF WriterInv, EditInv, EditsSurvive
<1>3. Kept
  <2>1. \A s \in Sources : ~Left(s)
    BY <1>1 DEF Left
  <2> QED
    BY <1>1, <2>1 DEF Kept, KnownInv, WholeInv, PassInv, SentInv, HalfInv
<1> QED
  BY <1>2, <1>3, InitTypes DEF IInv

LEMMA StepHolds == IInv /\ [Next]_vars => IInv'
<1> SUFFICES ASSUME IInv, [Next]_vars PROVE IInv'
  OBVIOUS
<1>1. CASE StoreNext /\ UNCHANGED git
  BY <1>1, StoreKeepsTypes, StoreStep DEF IInv
<1>2. CASE GitNext
  BY <1>2, GitKeepsTypes, GitStep DEF IInv
<1>3. CASE UNCHANGED vars
  <2>1. UNCHANGED <<store, writer, context, history>> /\ UNCHANGED git
    BY <1>3 DEF vars
  <2>2. TypeInv'
    BY <2>1 DEF IInv, TypeInv, GitTypeOK, StoreTypeOK
  <2>3. WriterInv' /\ Kept'
    BY <2>1, NoteWriter, NothingMoves DEF IInv
  <2>4. EditInv' /\ EditsSurvive'
    BY <2>1, EditsStay DEF IInv, EditInv, Change, Changes, In
  <2> QED
    BY <2>2, <2>3, <2>4 DEF IInv
<1> QED
  BY <1>1, <1>2, <1>3 DEF Next

\* Files, journal, outbox and pass keep to their types, and the lock has one
\* holder (knowledge.py, git_sync.py).
THEOREM VaultTypeCorrect == Spec => []GitTypeOK
<1>1. IInv => GitTypeOK
  BY DEF IInv, TypeInv
<1> QED
  BY InitHolds, StepHolds, <1>1, PTL DEF Spec

\* An edit by hand survives publications, failed writes, stops and replays.
THEOREM EditsAreKept == Spec => []EditsSurvive
<1>1. IInv => EditsSurvive
  BY DEF IInv
<1> QED
  BY InitHolds, StepHolds, <1>1, PTL DEF Spec

\* A publication that is done waits in the outbox or has reached origin,
\* whatever fails or stops on the way.
THEOREM PublicationsReachOrigin == Spec => []NothingForgotten
<1>1. IInv => NothingForgotten
  BY DEF IInv, Kept, SentInv, NothingForgotten, Status, In
<1> QED
  BY InitHolds, StepHolds, <1>1, PTL DEF Spec

\* Origin shows a publication with all its files or not at all.
THEOREM OriginIsWhole == Spec => []NeverHalfPushed
<1>1. IInv => NeverHalfPushed
  BY DEF IInv, Kept, HalfInv, NeverHalfPushed, Status, In
<1> QED
  BY InitHolds, StepHolds, <1>1, PTL DEF Spec
=============================================================================
