--------------------------- MODULE KnowledgeStore ---------------------------
(* agent/memory/long_term.py: the long-term knowledge and its vector index.  *)
(* The knowledge is a list of items; the vectors are a matrix whose row i is *)
(* the embedding of the content of item i; each is replaced, saved and       *)
(* loaded on its own.  The thread of the conversation and the learner thread *)
(* add knowledge without a lock, embeddings and saves can fail, and the      *)
(* process can die between any two steps.                                    *)
EXTENDS Naturals, Sequences, FiniteSets

CONSTANTS Thread, Main,  \* the threads; Main is the one of the conversation
          Text,          \* what can be learned: ten characters or more, and no
                         \* text contains another
          Topic,         \* Topic[t] = Topic[u]: t and u are more than 0.85 similar
          MaxCalls,      \* bound: operations called
          MaxFaults,     \* bound: embeddings and saves that fail
          MaxCrashes     \* bound: deaths of the process

ASSUME ThreadAssumption == Main \in Thread
ASSUME TopicAssumption == DOMAIN Topic = Text
ASSUME BoundAssumption == MaxCalls \in Nat /\ MaxFaults \in Nat /\ MaxCrashes \in Nat

Id == 1..MaxCalls

VARIABLES kb,         \* knowledge_base, as the ids of its items
          content,    \* the content of each item: the texts merged into it
          vecs,       \* _vectors: row i is the content row i was made of; None is <<>>
          kbFile,     \* knowledge_base.json
          vecFile,    \* vectors.npy
          vecWhole,   \* it can be read
          metaLen,    \* how many entries vectors_meta.json has
          pc, job,    \* where each thread stands, and its local variables
          booting,    \* the store is being loaded
          items,      \* how many items there have been
          calls,      \* how many operations were called
          reported,   \* history: texts add_knowledge reported, and not cleaned up
          disturbed,  \* history: two threads were in the store at once, or a
                      \* cleanup emptied it
          clashed,    \* history: two merges into one item disturbed, or a cleanup
                      \* and another operation
          faults, crashes

vars == <<kb, content, vecs, kbFile, vecFile, vecWhole, metaLen, pc, job, booting,
          items, calls, reported, disturbed, clashed, faults, crashes>>
memory == <<kb, content, vecs, items>>
files == <<kbFile, vecFile, vecWhole, metaLen>>
history == <<calls, reported, disturbed, clashed, crashes>>

NoText == "none"
\* op: the operation; text: its argument; id: the item; at: its row; old: a content that was read;
\* rows: a matrix that was read; kept: the positions cleanup keeps.
NoJob == [op |-> "none", text |-> NoText, id |-> 0, at |-> 0, old |-> {}, rows |-> <<>>, kept |-> {}]

\* The elements of a sequence at some of its positions.
Pick(s, at) ==
  LET nth(n) == CHOOSE i \in at : Cardinality({j \in at : j <= i}) = n
  IN  [n \in 1..Cardinality(at) |-> s[nth(n)]]
Texts(ids) == UNION {content[i] : i \in ids}
ItemsOf(s) == {s[i] : i \in DOMAIN s}

Init ==
  /\ kb = <<>> /\ vecs = <<>> /\ content = [i \in Id |-> {}]
  /\ kbFile = <<>> /\ vecFile = <<>> /\ vecWhole = TRUE /\ metaLen = 0
  /\ pc = [th \in Thread |-> "idle"] /\ job = [th \in Thread |-> NoJob]
  /\ booting = FALSE /\ items = 0 /\ calls = 0
  /\ reported = {} /\ disturbed = FALSE /\ clashed = FALSE
  /\ faults = 0 /\ crashes = 0

-----------------------------------------------------------------------------
Begin(th, j, to) ==
  /\ ~booting /\ pc[th] = "idle" /\ calls < MaxCalls
  /\ calls' = calls + 1
  /\ pc' = [pc EXCEPT ![th] = to] /\ job' = [job EXCEPT ![th] = j]
  /\ LET others == {u \in Thread : pc[u] # "idle"} IN
       /\ disturbed' = (disturbed \/ others # {} \/ (to = "replace" /\ j.kept = {}))
       /\ clashed' = (clashed \/ \E u \in others : "replace" \in {to, job[u].op})
  /\ UNCHANGED <<memory, files, booting, reported, faults, crashes>>

Go(th, j, to) ==
  /\ pc' = [pc EXCEPT ![th] = to] /\ job' = [job EXCEPT ![th] = j]
  /\ UNCHANGED <<booting, history>>

\* The operation ends; an add reports its text.
Finish(th) ==
  /\ pc' = [pc EXCEPT ![th] = "idle"] /\ job' = [job EXCEPT ![th] = NoJob]
  /\ reported' = reported \union ({job[th].text} \ {NoText})
  /\ booting' = FALSE
  /\ UNCHANGED <<calls, disturbed, clashed, crashes>>

\* An exception leaves the operation, which reports nothing.
Raise(th) ==
  /\ pc' = [pc EXCEPT ![th] = "idle"] /\ job' = [job EXCEPT ![th] = NoJob]
  /\ UNCHANGED <<booting, history>>

Fault == faults < MaxFaults /\ faults' = faults + 1

\* add_knowledge, first _find_duplicate: the first item that contains the text,
\* or else, if there are vectors, the item at the row most similar to it.
AddKnowledge(th, t) == Begin(th, [NoJob EXCEPT !.text = t], "lookUp")

LookUp(th) ==
  /\ pc[th] = "lookUp"
  /\ LET holds == {i \in DOMAIN kb : job[th].text \in content[kb[i]]}
     IN  IF holds # {}
         THEN \E i \in holds : /\ \A j \in holds : i <= j
                               /\ Go(th, [job[th] EXCEPT !.id = kb[i]], "merge")
         ELSE Go(th, job[th], IF vecs = <<>> \/ kb = <<>> THEN "append" ELSE "compare")
  /\ UNCHANGED <<memory, files, faults>>

\* The embedding has come: a row beyond the list is an IndexError, which counts
\* as no duplicate, and so does an embedding that fails.
Compare(th) ==
  /\ pc[th] = "compare"
  /\ LET close == {i \in DOMAIN vecs : \E t \in vecs[i] : Topic[t] = Topic[job[th].text]}
     IN  \/ /\ close \ DOMAIN kb # {} \/ close = {}
            /\ Go(th, job[th], "append")
         \/ \E i \in close \intersect DOMAIN kb :
              Go(th, [job[th] EXCEPT !.id = kb[i]], "merge")
  /\ UNCHANGED <<memory, files, faults>>
CompareFails(th) ==
  /\ pc[th] = "compare" /\ Fault
  /\ Go(th, job[th], "append")
  /\ UNCHANGED <<memory, files>>

\* Merging reads the content of the duplicate and assigns the merged one.
ReadOld(th) ==
  /\ pc[th] = "merge"
  /\ pc' = [pc EXCEPT ![th] = "write"]
  /\ job' = [job EXCEPT ![th].old = content[job[th].id]]
  /\ clashed' = (clashed \/ \E u \in Thread : pc[u] = "write" /\ job[u].id = job[th].id)
  /\ UNCHANGED <<memory, files, booting, calls, reported, disturbed,
                 faults, crashes>>
\* Mutant: the new text replaces the old content.
WriteOver(th) ==
  /\ pc[th] = "write"
  /\ content' = [content EXCEPT ![job[th].id] = {job[th].text}]
  /\ Go(th, job[th], "saveMerge")
  /\ UNCHANGED <<kb, vecs, items, files, faults>>
WriteMerged(th) ==
  /\ pc[th] = "write"
  /\ content' = [content EXCEPT ![job[th].id] = job[th].old \union {job[th].text}]
  /\ Go(th, job[th], "saveMerge")
  /\ UNCHANGED <<kb, vecs, items, files, faults>>

\* Mutant: ids that begin at zero.
AppendFromZero(th) ==
  /\ pc[th] = "append"
  /\ kb' = Append(kb, items)
  /\ items' = items + 1
  /\ Go(th, [job[th] EXCEPT !.id = items], "saveAdd")
  /\ UNCHANGED <<content, vecs, files, faults>>
AppendItem(th) ==
  /\ pc[th] = "append"
  /\ items' = items + 1
  /\ kb' = Append(kb, items')
  /\ content' = [content EXCEPT ![items'] = {job[th].text}]
  /\ Go(th, [job[th] EXCEPT !.id = items'], "saveAdd")
  /\ UNCHANGED <<vecs, files, faults>>

\* search_knowledge counts the accesses of what it finds and saves the list.
SearchKnowledge(th) == kb # <<>> /\ Begin(th, NoJob, "saveSearch")

\* save_json writes the list as it is by then: atomically, or it raises.
AfterSave == [saveMerge |-> "findRow", saveAdd |-> "embed", saveKept |-> "slice"]
SaveKnowledge(th) ==
  /\ pc[th] \in DOMAIN AfterSave \union {"saveSearch"}
  /\ kbFile' = [i \in DOMAIN kb |-> [id |-> kb[i], content |-> content[kb[i]]]]
  /\ IF pc[th] = "saveSearch" THEN Finish(th) ELSE Go(th, job[th], AfterSave[pc[th]])
  /\ UNCHANGED <<memory, vecFile, vecWhole, metaLen, faults>>
SaveRaises(th) ==
  /\ pc[th] \in DOMAIN AfterSave \union {"saveSearch"} /\ Fault
  /\ Raise(th)
  /\ UNCHANGED <<memory, files>>

-----------------------------------------------------------------------------
\* _rebuild_vector_for: the row of the merged item, if it has one, ...
FindRow(th) ==
  /\ pc[th] = "findRow"
  /\ LET rows == {i \in DOMAIN kb \intersect DOMAIN vecs : kb[i] = job[th].id}
     IN  IF rows = {} THEN Finish(th)
         ELSE \E i \in rows :
                Go(th, [job[th] EXCEPT !.at = i, !.old = content[job[th].id]], "reembed")
  /\ UNCHANGED <<memory, files, faults>>
\* ... is assigned once the embedding has come.
Reembed(th) ==
  /\ pc[th] = "reembed"
  /\ IF job[th].at \in DOMAIN vecs
     THEN /\ vecs' = [vecs EXCEPT ![job[th].at] = job[th].old]
          /\ Go(th, job[th], "saveVectors")
     ELSE Finish(th) /\ UNCHANGED vecs
  /\ UNCHANGED <<kb, content, items, files, faults>>

\* _append_vector reads the matrix when the embedding has come, and assigns the
\* stacked one.
ReadMatrix(th) ==
  /\ pc[th] = "embed"
  /\ Go(th, [job[th] EXCEPT !.rows = vecs], "stack")
  /\ UNCHANGED <<memory, files, faults>>
Stack(th) ==
  /\ pc[th] = "stack"
  /\ vecs' = Append(job[th].rows, {job[th].text})
  /\ Go(th, job[th], "saveVectors")
  /\ UNCHANGED <<kb, content, items, files, faults>>

\* An embedding that fails is logged; the add is reported all the same.
EmbedFails(th) ==
  /\ pc[th] \in {"reembed", "embed"} /\ Fault
  /\ Finish(th)
  /\ UNCHANGED <<memory, files>>

\* cleanup_stale_knowledge picks what to keep, replaces the list, saves it, and
\* then keeps the same rows of the matrix, if the matrix has them.
CleanupStaleKnowledge ==
  \E kept \in (SUBSET DOMAIN kb) \ {DOMAIN kb} :
    Begin(Main, [NoJob EXCEPT !.op = "replace", !.kept = kept, !.rows = kb], "replace")
Replace ==
  /\ pc[Main] = "replace"
  /\ LET was == job[Main].rows IN
       /\ kb' = Pick(was, job[Main].kept)
       /\ reported' = reported \ (Texts(ItemsOf(was)) \ Texts(ItemsOf(kb')))
  /\ pc' = [pc EXCEPT ![Main] = "saveKept"]
  /\ UNCHANGED <<job, content, vecs, items, files, booting, calls, disturbed, clashed,
                 faults, crashes>>
Slice ==
  /\ pc[Main] = "slice"
  /\ LET kept == job[Main].kept IN
       CASE vecs = <<>> -> Finish(Main) /\ UNCHANGED vecs
         [] vecs # <<>> /\ kept = {} -> Finish(Main) /\ vecs' = <<>>
         [] kept # {} /\ kept \subseteq DOMAIN vecs ->
              vecs' = Pick(vecs, kept) /\ Go(Main, job[Main], "saveVectors")
         [] OTHER -> Raise(Main) /\ UNCHANGED vecs
  /\ UNCHANGED <<kb, content, items, files, faults>>

\* _save_vectors: the matrix, which is written in place, and then its index.
WriteVectors(th) ==
  /\ pc[th] = "saveVectors"
  /\ IF vecs = <<>> THEN Finish(th)
     ELSE Go(th, [job[th] EXCEPT !.rows = vecs], "writing")
  /\ UNCHANGED <<memory, files, faults>>
VectorsWritten(th) ==
  /\ pc[th] = "writing"
  /\ vecFile' = job[th].rows /\ vecWhole' = TRUE
  /\ Go(th, job[th], "saveMeta")
  /\ UNCHANGED <<memory, kbFile, metaLen, faults>>
\* A save that raises: a rebuild forgets its vectors, the other operations have
\* nothing left to do.  A write leaves part of the matrix.
SavingFails(th) ==
  /\ Fault
  /\ vecs' = IF booting THEN <<>> ELSE vecs
  /\ Finish(th)
  /\ UNCHANGED <<kb, content, items>>
WriteRaises(th) ==
  /\ pc[th] = "writing" /\ SavingFails(th)
  /\ vecWhole' = FALSE
  /\ UNCHANGED <<kbFile, vecFile, metaLen>>
SaveMeta(th) ==
  /\ pc[th] = "saveMeta"
  /\ metaLen' = Len(kb)
  /\ Finish(th)
  /\ UNCHANGED <<memory, kbFile, vecFile, vecWhole, faults>>
SaveMetaRaises(th) == pc[th] = "saveMeta" /\ SavingFails(th) /\ UNCHANGED files

-----------------------------------------------------------------------------
\* The process dies and is started again.
Crash ==
  /\ crashes < MaxCrashes /\ crashes' = crashes + 1
  /\ kb' = [i \in DOMAIN kbFile |-> kbFile[i].id]
  /\ content' = [n \in Id |-> UNION {f.content : f \in {g \in ItemsOf(kbFile) : g.id = n}}]
  /\ vecs' = <<>> /\ booting' = TRUE
  /\ vecWhole' = (vecWhole /\ \A th \in Thread : pc[th] # "writing")
  /\ pc' = [th \in Thread |-> IF th = Main THEN "load" ELSE "idle"]
  /\ job' = [th \in Thread |-> NoJob]
  /\ UNCHANGED <<items, calls, kbFile, vecFile, metaLen, reported, disturbed, clashed, faults>>

\* Mutant: the rows are compared with the index only.
LoadUnchecked ==
  /\ pc[Main] = "load"
  /\ IF vecWhole /\ metaLen = Len(vecFile) /\ vecFile # <<>>
     THEN vecs' = vecFile /\ Finish(Main)
     ELSE /\ UNCHANGED vecs
          /\ IF kb = <<>> THEN Finish(Main) ELSE Go(Main, NoJob, "rebuild")
  /\ UNCHANGED <<kb, content, items, files, faults>>

\* __init__: the vectors, if they can be read and all three lengths agree; or
\* else all of them are made again.
Load ==
  /\ pc[Main] = "load"
  /\ IF vecWhole /\ metaLen = Len(kb) /\ metaLen = Len(vecFile) /\ vecFile # <<>>
     THEN vecs' = vecFile /\ Finish(Main)
     ELSE /\ UNCHANGED vecs
          /\ IF kb = <<>> THEN Finish(Main) ELSE Go(Main, NoJob, "rebuild")
  /\ UNCHANGED <<kb, content, items, files, faults>>
Rebuild ==
  /\ pc[Main] = "rebuild"
  /\ vecs' = [i \in DOMAIN kb |-> content[kb[i]]]
  /\ Go(Main, NoJob, "saveVectors")
  /\ UNCHANGED <<kb, content, items, files, faults>>
RebuildFails ==
  /\ pc[Main] = "rebuild" /\ Fault
  /\ Finish(Main)
  /\ UNCHANGED <<memory, files>>

Step(th) ==
  \/ LookUp(th) \/ Compare(th) \/ CompareFails(th) \/ ReadOld(th) \/ WriteMerged(th)
  \/ AppendItem(th) \/ SaveKnowledge(th) \/ SaveRaises(th) \/ FindRow(th) \/ Reembed(th)
  \/ ReadMatrix(th) \/ Stack(th) \/ EmbedFails(th)
  \/ WriteVectors(th) \/ VectorsWritten(th) \/ WriteRaises(th) \/ SaveMeta(th)
  \/ SaveMetaRaises(th)
Next ==
  \/ \E th \in Thread : SearchKnowledge(th) \/ Step(th) \/ \E t \in Text : AddKnowledge(th, t)
  \/ CleanupStaleKnowledge \/ Replace \/ Slice
  \/ Crash \/ Load \/ Rebuild \/ RebuildFails
Spec == Init /\ [][Next]_vars

-----------------------------------------------------------------------------
TypeOK ==
  /\ kb \in Seq(Id) /\ content \in [Id -> SUBSET Text] /\ items \in 0..MaxCalls
  /\ calls \in 0..MaxCalls
  /\ vecs \in Seq(SUBSET Text) /\ vecFile \in Seq(SUBSET Text)
  /\ kbFile \in Seq([id : Id, content : SUBSET Text])
  /\ vecWhole \in BOOLEAN /\ metaLen \in 0..MaxCalls /\ booting \in BOOLEAN
  /\ reported \subseteq Text /\ disturbed \in BOOLEAN /\ clashed \in BOOLEAN
  /\ faults \in 0..MaxFaults /\ crashes \in 0..MaxCrashes

\* Between operations each row of the matrix is of the item at its position,
\* wherever a crash cut the saves of the three files apart, as long as nothing
\* failed, the threads never met and no cleanup emptied the list; and without a
\* crash every row is up to date.
AlignedUnlessDisturbed ==
  (faults = 0 /\ ~disturbed /\ \A th \in Thread : pc[th] = "idle") =>
    /\ Len(vecs) = Len(kb)
    /\ \A i \in DOMAIN kb : /\ vecs[i] # {} /\ vecs[i] \subseteq content[kb[i]]
                            /\ crashes = 0 => vecs[i] = content[kb[i]]

\* What add_knowledge has reported is on disk, in whatever item, until a cleanup
\* drops that item: through failing embeddings and saves, misplaced rows, adds
\* of two threads at once and crashes, as long as no two merges into one item
\* overlap and no cleanup meets another operation.
ReportedIsKept ==
  ~clashed => reported \subseteq UNION {f.content : f \in ItemsOf(kbFile)}

\* README.md:19 -- semantically similar knowledge is merged: a text is merged
\* into an item only if the item holds something similar to it.
MergesSimilar ==
  \A th \in Thread : pc[th] = "merge" =>
    \E t \in content[job[th].id] : Topic[t] = Topic[job[th].text]
=============================================================================
