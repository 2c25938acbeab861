------------------------ MODULE KnowledgeStoreProofs ------------------------
(* For any threads, texts and bounds on calls, faults and crashes: the store *)
(* keeps its types, what add_knowledge reported is not lost, and the rows of *)
(* the matrix stay those of the items.                                       *)
EXTENDS KnowledgeStore, FiniteSetTheorems, SequenceTheorems, TLAPS

\* A function on 1..n is a sequence.
LEMMA SeqOfFunction ==
  ASSUME NEW S, NEW n \in Nat, NEW f \in [1..n -> S]
  PROVE  f \in Seq(S) /\ Len(f) = n /\ DOMAIN f = 1..n
<1>1. f \in Seq(S)
  BY Z3
<1> QED BY <1>1, LenProperties

Nth(at, n) == CHOOSE i \in at : Cardinality({j \in at : j <= i}) = n

LEMMA NthOf ==
  ASSUME NEW m \in Nat, NEW at \in SUBSET (1..m)
  PROVE  /\ Cardinality(at) \in 0..m /\ (at # 1..m => Cardinality(at) < m)
         /\ at # {} => Cardinality(at) > 0
         /\ \A n \in 1..Cardinality(at) : Nth(at, n) \in at
         /\ \A n, k \in 1..Cardinality(at) : Nth(at, n) = Nth(at, k) => n = k
<1> DEFINE upTo(i) == {j \in at : j <= i}
           rank == [i \in at |-> Cardinality(upTo(i))]
<1>1. /\ IsFiniteSet(at) /\ Cardinality(at) \in 0..m /\ (at # 1..m => Cardinality(at) < m)
      /\ at # {} => Cardinality(at) > 0
  <2>1. IsFiniteSet(1..m) /\ Cardinality(1..m) = m
    BY FS_Interval
  <2>2. IsFiniteSet(at) /\ Cardinality(at) <= m /\ (Cardinality(at) = m => at = 1..m)
    BY <2>1, FS_Subset
  <2>3. Cardinality(at) \in Nat
    BY <2>2, FS_CardinalityType
  <2>4. at # {} => Cardinality(at) # 0
    BY <2>2, FS_EmptySet
  <2> QED BY <2>2, <2>3, <2>4
<1>2. \A i \in at : IsFiniteSet(upTo(i)) /\ Cardinality(upTo(i)) \in 1..Cardinality(at)
  <2> SUFFICES ASSUME NEW i \in at
               PROVE  IsFiniteSet(upTo(i)) /\ Cardinality(upTo(i)) \in 1..Cardinality(at)
    OBVIOUS
  <2>1. IsFiniteSet(upTo(i)) /\ Cardinality(upTo(i)) <= Cardinality(at)
    BY <1>1, FS_Subset
  <2>2. i \in upTo(i) /\ Cardinality(upTo(i)) \in Nat
    BY <2>1, FS_CardinalityType
  <2>3. Cardinality(upTo(i)) # 0
    BY <2>1, <2>2, FS_EmptySet
  <2> QED BY <1>1, <2>1, <2>2, <2>3
<1>3. \A i, k \in at : i < k => Cardinality(upTo(i)) < Cardinality(upTo(k))
  <2> SUFFICES ASSUME NEW i \in at, NEW k \in at, i < k
               PROVE  Cardinality(upTo(i)) < Cardinality(upTo(k))
    OBVIOUS
  <2>0. i \in Nat /\ k \in Nat /\ \A j \in at : j \in Nat
    OBVIOUS
  <2>1. upTo(i) \in SUBSET upTo(k) /\ k \in upTo(k) /\ k \notin upTo(i)
    <3>1. \A j \in at : j <= i => j <= k
      BY <2>0
    <3>2. k <= k /\ ~(k <= i)
      BY <2>0
    <3> QED BY <3>1, <3>2
  <2>2. Cardinality(upTo(i)) <= Cardinality(upTo(k)) /\ Cardinality(upTo(k)) # Cardinality(upTo(i))
    BY <1>2, <2>1, FS_Subset
  <2>3. Cardinality(upTo(i)) \in Nat /\ Cardinality(upTo(k)) \in Nat
    BY <1>2, FS_CardinalityType
  <2> QED BY <2>2, <2>3
<1> HIDE DEF upTo
<1>4. rank \in [at -> 1..Cardinality(at)] /\ \A i, k \in at : rank[i] = rank[k] => i = k
  <2>1. rank \in [at -> 1..Cardinality(at)]
    BY <1>2
  <2>2. ASSUME NEW i \in at, NEW k \in at, rank[i] = rank[k] PROVE i = k
    <3>1. Cardinality(upTo(i)) = Cardinality(upTo(k)) /\ Cardinality(upTo(i)) \in Nat
      BY <1>2, <2>2
    <3>2. ~(i < k) /\ ~(k < i)
      BY <1>3, <3>1
    <3> QED BY <3>2
  <2> QED BY <2>1, <2>2
<1>5. rank \in Surjection(at, 1..Cardinality(at))
  <2>1. rank \in Injection(at, 1..Cardinality(at))
    BY <1>4 DEF Injection, IsInjective
  <2>2. IsFiniteSet(1..Cardinality(at)) /\ Cardinality(1..Cardinality(at)) = Cardinality(at)
    BY <1>1, FS_Interval
  <2> QED BY <2>1, <2>2, FS_Injection
<1>6. \A n \in 1..Cardinality(at) : \E i \in at : Cardinality(upTo(i)) = n
  BY <1>5 DEF Surjection
<1>7. \A n \in 1..Cardinality(at) : Nth(at, n) \in at /\ Cardinality(upTo(Nth(at, n))) = n
  BY <1>6 DEF Nth, upTo
<1> QED BY <1>1, <1>7

\* Picking from two sequences picks the same positions of both.
LEMMA PickOf ==
  ASSUME NEW S, NEW s \in Seq(S), NEW at \in SUBSET DOMAIN s
  PROVE  /\ Pick(s, at) \in Seq(S) /\ DOMAIN Pick(s, at) = 1..Cardinality(at)
         /\ Len(Pick(s, at)) = Cardinality(at)
         /\ \A n \in 1..Cardinality(at) : Nth(at, n) \in at /\ Pick(s, at)[n] = s[Nth(at, n)]
<1>1. Len(s) \in Nat /\ DOMAIN s = 1..Len(s)
  OBVIOUS
<1>2. /\ Cardinality(at) \in Nat
      /\ \A n \in 1..Cardinality(at) : Nth(at, n) \in at
  BY <1>1, NthOf
<1>3. Pick(s, at) = [n \in 1..Cardinality(at) |-> s[Nth(at, n)]]
  BY DEF Pick, Nth
<1>4. \A n \in 1..Cardinality(at) : s[Nth(at, n)] \in S
  BY <1>1, <1>2
<1>5. Pick(s, at) \in [1..Cardinality(at) -> S]
  BY <1>3, <1>4
<1> HIDE DEF Nth
<1> QED BY <1>2, <1>3, <1>5, SeqOfFunction
-----------------------------------------------------------------------------
\* Types: what each thread's local variables may hold, and why ids never run out.

Labels == {"idle", "lookUp", "compare", "append", "merge", "write", "saveMerge", "saveAdd",
           "saveKept", "saveSearch", "findRow", "reembed", "embed", "stack", "saveVectors",
           "writing", "saveMeta", "replace", "slice", "load", "rebuild"}
BeforeAppend == {"lookUp", "compare", "append"}

\* Ids grow along with the items and are given once.
Numbered(s, n) ==
  /\ s \in Seq(Id) /\ Len(s) <= n
  /\ \A i \in DOMAIN s : s[i] <= n
  /\ \A i, k \in DOMAIN s : s[i] = s[k] => i = k

Job == [op : {"none", "replace"}, text : Text \union {NoText}, id : Id \union {0}, at : Nat,
        old : SUBSET Text, rows : Seq(Id) \union Seq(SUBSET Text), kept : SUBSET Nat]
JobFits(p, j, n) ==
  /\ p \in {"lookUp", "compare", "append", "saveAdd", "embed", "stack", "merge", "write"} =>
       j.text \in Text
  /\ p \in {"merge", "write"} => j.id \in Id
  /\ p \in {"stack", "writing"} => j.rows \in Seq(SUBSET Text)
  /\ p = "replace" => Numbered(j.rows, n) /\ j.kept \subseteq DOMAIN j.rows
ThreadsOK ==
  /\ pc \in [Thread -> Labels] /\ job \in [Thread -> Job]
  /\ \A th \in Thread : JobFits(pc[th], job[th], items)

FileIds == [i \in DOMAIN kbFile |-> kbFile[i].id]
DataOK ==
  /\ Numbered(kb, items) /\ Numbered(FileIds, items)
  /\ content \in [Id -> SUBSET Text]
  /\ vecs \in Seq(SUBSET Text) /\ vecFile \in Seq(SUBSET Text)
  /\ kbFile \in Seq([id : Id, content : SUBSET Text]) /\ metaLen \in 0..MaxCalls
  /\ reported \subseteq Text /\ faults \in 0..MaxFaults /\ crashes \in 0..MaxCrashes
FlagsOK == vecWhole \in BOOLEAN /\ booting \in BOOLEAN /\ disturbed \in BOOLEAN /\ clashed \in BOOLEAN

\* Every add that may still append an item was called, and so was that of every
\* item there is.
Adding == {th \in Thread : pc[th] \in BeforeAppend}
CountersOK ==
  /\ items \in Nat /\ calls \in 0..MaxCalls
  /\ IsFiniteSet(Adding) /\ items + Cardinality(Adding) <= calls

TypesIInv == DataOK /\ FlagsOK /\ CountersOK /\ ThreadsOK

LEMMA ItemsBounded ==
  ASSUME CountersOK
  PROVE  /\ items \in 0..MaxCalls /\ MaxCalls \in Nat
         /\ \A th \in Thread : pc[th] \in BeforeAppend => items + 1 \in Id /\ items < calls
<1>1. Cardinality(Adding) \in Nat
  BY FS_CardinalityType DEF CountersOK
<1>2. items \in 0..MaxCalls /\ MaxCalls \in Nat
  BY <1>1, BoundAssumption DEF CountersOK
<1>3. ASSUME NEW th \in Thread, pc[th] \in BeforeAppend
      PROVE  items + 1 \in Id /\ items < calls
  <2>1. Adding # {}
    BY <1>3 DEF Adding
  <2>2. Cardinality(Adding) # 0
    BY <2>1, FS_EmptySet DEF CountersOK
  <2> QED BY <1>1, <2>2, BoundAssumption DEF CountersOK, Id
<1> QED BY <1>2, <1>3

LEMMA IdsOf ==
  ASSUME NEW s, NEW n, Numbered(s, n)
  PROVE  \A i \in DOMAIN s : s[i] <= n /\ s[i] \in Id /\ s[i] \in Nat
<1>1. \A i \in DOMAIN s : s[i] <= n
  BY DEF Numbered
<1>2. \A i \in DOMAIN s : s[i] \in Id
  <2>1. s \in Seq(Id)
    BY DEF Numbered
  <2>2. \A i \in 1..Len(s) : s[i] \in Id
    BY <2>1, ElementOfSeq
  <2>3. DOMAIN s = 1..Len(s)
    BY <2>1, LenProperties
  <2> QED BY <2>2, <2>3
<1>3. \A i \in Id : i \in Nat
  BY BoundAssumption DEF Id
<1> QED BY <1>1, <1>2, <1>3

LEMMA NumberedAppend ==
  ASSUME NEW n \in Nat, n + 1 \in Id, NEW s, Numbered(s, n)
  PROVE  Numbered(Append(s, n + 1), n + 1)
<1> DEFINE a == Append(s, n + 1)
<1>1. s \in Seq(Id) /\ Len(s) \in Nat /\ DOMAIN s = 1..Len(s)
  BY DEF Numbered
<1>2. /\ a \in Seq(Id) /\ Len(a) = Len(s) + 1 /\ DOMAIN a = 1..(Len(s) + 1)
      /\ \A i \in 1..Len(s) : a[i] = s[i]
      /\ a[Len(s) + 1] = n + 1
  BY <1>1
<1> HIDE DEF a
<1>3. \A i \in DOMAIN s : s[i] <= n /\ s[i] \in Nat
  BY IdsOf
<1>4. Len(s) <= n
  BY DEF Numbered
<1>5. Len(a) <= n + 1
  BY <1>1, <1>2, <1>4
<1>6. ASSUME NEW i \in DOMAIN a
      PROVE  /\ a[i] <= n + 1
             /\ i # Len(s) + 1 => i \in DOMAIN s /\ a[i] = s[i] /\ a[i] # n + 1
  <2>1. CASE i = Len(s) + 1
    BY <1>2, <2>1
  <2>2. CASE i # Len(s) + 1
    <3>1. i \in 1..Len(s)
      BY <1>1, <1>2, <2>2
    <3>2. a[i] = s[i] /\ s[i] <= n /\ s[i] \in Nat
      BY <1>1, <1>2, <1>3, <3>1
    <3> QED BY <1>1, <3>1, <3>2
  <2> QED BY <2>1, <2>2
<1>7. ASSUME NEW i \in DOMAIN a, NEW k \in DOMAIN a, a[i] = a[k] PROVE i = k
  <2>1. CASE i = Len(s) + 1 \/ k = Len(s) + 1
    BY <1>2, <1>6, <1>7, <2>1
  <2>2. CASE ~(i = Len(s) + 1 \/ k = Len(s) + 1)
    BY <1>6, <1>7, <2>2 DEF Numbered
  <2> QED BY <2>1, <2>2
<1>8. Numbered(a, n + 1)
  BY <1>2, <1>5, <1>6, <1>7 DEF Numbered
<1> QED BY <1>8 DEF a

LEMMA NumberedPick ==
  ASSUME NEW n \in Nat, NEW s, Numbered(s, n), NEW at \in SUBSET DOMAIN s
  PROVE  Numbered(Pick(s, at), n)
<1> DEFINE p == Pick(s, at)
<1>1. s \in Seq(Id) /\ Len(s) \in Nat /\ DOMAIN s = 1..Len(s) /\ Len(s) <= n
  BY DEF Numbered
<1>2. /\ p \in Seq(Id) /\ DOMAIN p = 1..Cardinality(at) /\ Len(p) = Cardinality(at)
      /\ \A m \in 1..Cardinality(at) : Nth(at, m) \in at /\ p[m] = s[Nth(at, m)]
  BY <1>1, PickOf
<1>3. /\ Cardinality(at) \in 0..Len(s)
      /\ \A m, k \in 1..Cardinality(at) : Nth(at, m) = Nth(at, k) => m = k
  BY <1>1, NthOf
<1> HIDE DEF p
<1>4. Len(p) <= n
  BY <1>1, <1>2, <1>3
<1>5. \A i \in DOMAIN p : p[i] <= n
  BY <1>2 DEF Numbered
<1>6. \A i, k \in DOMAIN p : p[i] = p[k] => i = k
  BY <1>2, <1>3 DEF Numbered
<1> QED BY <1>2, <1>4, <1>5, <1>6 DEF Numbered, p

LEMMA NumberedGrows ==
  ASSUME NEW n \in Nat, NEW m \in Nat, n <= m, NEW s, Numbered(s, n)
  PROVE  Numbered(s, m)
<1>1. s \in Seq(Id) /\ Len(s) \in Nat /\ Len(s) <= n /\ DOMAIN s = 1..Len(s)
  BY DEF Numbered
<1>2. \A i \in DOMAIN s : s[i] <= n /\ s[i] \in Nat
  BY IdsOf
<1>3. \A i \in DOMAIN s : s[i] <= m
  BY <1>2
<1>4. Len(s) <= m
  BY <1>1
<1> QED BY <1>1, <1>3, <1>4 DEF Numbered

LEMMA TypesImplied == TypesIInv => TypeOK
<1> SUFFICES ASSUME TypesIInv PROVE TypeOK
  OBVIOUS
<1>1. items \in 0..MaxCalls
  BY ItemsBounded DEF TypesIInv
<1> QED BY <1>1 DEF TypesIInv, DataOK, CountersOK, FlagsOK, Numbered, TypeOK

\* A step of one thread that appends nothing.
LEMMA ThreadMoves ==
  ASSUME ThreadsOK, CountersOK, NEW th \in Thread, NEW to \in Labels, NEW j \in Job,
         JobFits(to, j, items), to \in BeforeAppend => pc[th] \in BeforeAppend,
         pc' = [pc EXCEPT ![th] = to], job' = [job EXCEPT ![th] = j],
         UNCHANGED <<items, calls>>
  PROVE  ThreadsOK' /\ CountersOK'
<1>1. ThreadsOK'
  BY DEF ThreadsOK
<1>2. Adding' \subseteq Adding
  BY DEF ThreadsOK, Adding, BeforeAppend
<1>3. /\ IsFiniteSet(Adding') /\ Cardinality(Adding') <= Cardinality(Adding)
      /\ Cardinality(Adding) \in Nat /\ Cardinality(Adding') \in Nat
  BY <1>2, FS_Subset, FS_CardinalityType DEF CountersOK
<1>4. items + Cardinality(Adding') <= calls
  BY <1>3 DEF CountersOK
<1> QED BY <1>1, <1>3, <1>4 DEF CountersOK

\* An operation begins.
LEMMA BeginTypes ==
  ASSUME TypesIInv, NEW th \in Thread, NEW to \in Labels, NEW j \in Job,
         JobFits(to, j, items), Begin(th, j, to)
  PROVE  DataOK' /\ CountersOK' /\ ThreadsOK'
<1> USE DEF TypesIInv
<1>1. /\ pc' = [pc EXCEPT ![th] = to] /\ job' = [job EXCEPT ![th] = j]
      /\ UNCHANGED <<kb, content, vecs, items, kbFile, vecFile, metaLen, reported, faults, crashes>>
      /\ calls' = calls + 1 /\ calls < MaxCalls
  BY DEF Begin, memory, files
<1>2. ThreadsOK'
  BY <1>1 DEF ThreadsOK
<1>3. DataOK'
  BY <1>1 DEF DataOK, FileIds
<1>4. Adding' \subseteq Adding \union {th}
  BY <1>1 DEF ThreadsOK, Adding, BeforeAppend
<1>5. /\ IsFiniteSet(Adding \union {th})
      /\ Cardinality(Adding \union {th}) \in Nat
      /\ Cardinality(Adding \union {th}) <= Cardinality(Adding) + 1
      /\ Cardinality(Adding) \in Nat
  <2>1. IsFiniteSet(Adding) /\ Cardinality(Adding) \in Nat
    BY FS_CardinalityType DEF CountersOK
  <2>2. /\ IsFiniteSet(Adding \union {th})
        /\ Cardinality(Adding \union {th}) \in {Cardinality(Adding), Cardinality(Adding) + 1}
    <3> HIDE DEF Adding
    <3> DEFINE A == Adding
    <3>1. IsFiniteSet(A)
      BY <2>1
    <3> HIDE DEF A
    <3>2. /\ IsFiniteSet(A \union {th})
          /\ Cardinality(A \union {th}) = IF th \in A THEN Cardinality(A) ELSE Cardinality(A) + 1
      BY <3>1, FS_AddElement
    <3> QED BY <3>2 DEF A
  <2> QED BY <2>1, <2>2
<1>6. /\ IsFiniteSet(Adding') /\ Cardinality(Adding') \in Nat
      /\ Cardinality(Adding') <= Cardinality(Adding \union {th})
  BY <1>4, <1>5, FS_Subset, FS_CardinalityType
<1>7. calls' \in 0..MaxCalls /\ items + Cardinality(Adding') <= calls'
  BY <1>1, <1>5, <1>6, BoundAssumption DEF CountersOK
<1> QED BY <1>1, <1>2, <1>3, <1>6, <1>7 DEF CountersOK

LEMMA JobsFit ==
  ASSUME TypesIInv, NEW th \in Thread
  PROVE  /\ pc[th] \in Labels /\ job[th] \in Job /\ JobFits(pc[th], job[th], items)
         /\ NoJob \in Job /\ \A p \in Labels : p = "idle" => JobFits(p, NoJob, items)
<1>1. {} \subseteq Nat /\ <<>> \in Seq(Id)
  OBVIOUS
<1>2. NoJob \in Job
  BY <1>1 DEF NoJob, Job
<1> QED BY <1>2 DEF TypesIInv, ThreadsOK, JobFits

\* The store as a step leaves it that changes neither the list nor its file.
LEMMA SameData ==
  ASSUME DataOK, UNCHANGED <<kb, content, items, kbFile, crashes>>,
         vecs' \in Seq(SUBSET Text), vecFile' \in Seq(SUBSET Text), metaLen' \in 0..MaxCalls,
         reported' \subseteq Text, faults' \in 0..MaxFaults
  PROVE  DataOK'
<1>1. FileIds' = FileIds
  BY DEF FileIds
<1> QED BY <1>1 DEF DataOK

LEMMA Faulty == ASSUME TypesIInv, Fault PROVE faults' \in 0..MaxFaults
BY BoundAssumption DEF TypesIInv, DataOK, Fault

LEMMA GoTypes ==
  ASSUME TypesIInv, NEW th \in Thread, NEW to \in Labels, NEW j \in Job, Go(th, j, to),
         JobFits(to, j, items), to \in BeforeAppend => pc[th] \in BeforeAppend, UNCHANGED items
  PROVE  ThreadsOK' /\ CountersOK'
<1>1. /\ pc' = [pc EXCEPT ![th] = to] /\ job' = [job EXCEPT ![th] = j]
      /\ UNCHANGED <<items, calls>>
  BY DEF Go, history
<1> QED BY <1>1, ThreadMoves DEF TypesIInv

LEMMA FinishTypes ==
  ASSUME TypesIInv, NEW th \in Thread, Finish(th), UNCHANGED items
  PROVE  ThreadsOK' /\ CountersOK' /\ reported' \subseteq Text
<1>1. ThreadsOK' /\ CountersOK'
  <2>1. /\ pc' = [pc EXCEPT ![th] = "idle"] /\ job' = [job EXCEPT ![th] = NoJob]
        /\ UNCHANGED <<items, calls>>
    BY DEF Finish
  <2>2. NoJob \in Job /\ "idle" \in Labels /\ JobFits("idle", NoJob, items) /\ "idle" \notin BeforeAppend
    BY JobsFit DEF Labels, BeforeAppend
  <2> QED BY <2>1, <2>2, ThreadMoves DEF TypesIInv
<1>2. job[th].text \in Text \union {NoText}
  BY JobsFit DEF Job
<1>3. reported' \subseteq Text
  BY <1>2 DEF Finish, TypesIInv, DataOK
<1> QED BY <1>1, <1>3

LEMMA RaiseTypes ==
  ASSUME TypesIInv, NEW th \in Thread, Raise(th), UNCHANGED items
  PROVE  ThreadsOK' /\ CountersOK' /\ UNCHANGED reported
<1>1. /\ pc' = [pc EXCEPT ![th] = "idle"] /\ job' = [job EXCEPT ![th] = NoJob]
      /\ UNCHANGED <<items, calls, reported>>
  BY DEF Raise, history
<1>2. NoJob \in Job /\ "idle" \in Labels /\ JobFits("idle", NoJob, items) /\ "idle" \notin BeforeAppend
  BY JobsFit DEF Labels, BeforeAppend
<1> QED BY <1>1, <1>2, ThreadMoves DEF TypesIInv

\* The shapes a job takes.
LEMMA NextJobs ==
  ASSUME NEW j \in Job
  PROVE  /\ \A i \in Id : [j EXCEPT !.id = i] \in Job /\ [j EXCEPT !.id = i].id = i
         /\ \A o \in SUBSET Text : [j EXCEPT !.old = o] \in Job
         /\ \A r \in Seq(SUBSET Text) : [j EXCEPT !.rows = r] \in Job
         /\ \A i \in Nat, o \in SUBSET Text : [j EXCEPT !.at = i, !.old = o] \in Job
BY DEF Job

\* What the add looks up is an item of the list.
LEMMA ItemAt ==
  ASSUME DataOK, NEW i \in DOMAIN kb
  PROVE  kb[i] \in Id /\ i \in Nat /\ i \in 1..Len(kb) /\ Len(kb) \in Nat /\ kb[i] <= items
<1>1. Numbered(kb, items) /\ DOMAIN kb = 1..Len(kb) /\ Len(kb) \in Nat
  BY LenProperties DEF DataOK, Numbered
<1> QED BY <1>1, IdsOf

LEMMA LookUpTypes ==
  ASSUME TypesIInv, NEW th \in Thread, LookUp(th)
  PROVE  DataOK' /\ CountersOK' /\ ThreadsOK'
<1> DEFINE holds == {i \in DOMAIN kb : job[th].text \in content[kb[i]]}
<1>1. /\ pc[th] = "lookUp" /\ job[th] \in Job /\ job[th].text \in Text
      /\ UNCHANGED <<kb, content, vecs, items, kbFile, vecFile, metaLen, faults>>
  BY JobsFit DEF LookUp, JobFits, memory, files
<1>2. \/ \E i \in DOMAIN kb : Go(th, [job[th] EXCEPT !.id = kb[i]], "merge")
      \/ \E to \in {"append", "compare"} : Go(th, job[th], to)
  <2>1. CASE holds # {}
    BY <2>1 DEF LookUp
  <2>2. CASE holds = {}
    BY <2>2 DEF LookUp
  <2> QED BY <2>1, <2>2
<1>3. DataOK'
  <2>1. reported' = reported /\ crashes' = crashes
    BY <1>2 DEF Go, history
  <2> QED BY <1>1, <2>1, SameData DEF TypesIInv, DataOK
<1>4. ASSUME NEW i \in DOMAIN kb, Go(th, [job[th] EXCEPT !.id = kb[i]], "merge")
      PROVE  CountersOK' /\ ThreadsOK'
  <2>1. kb[i] \in Id
    BY ItemAt DEF TypesIInv
  <2> DEFINE j == [job[th] EXCEPT !.id = kb[i]]
  <2>2. j \in Job /\ j.id = kb[i] /\ j.text = job[th].text
    BY <1>1, <2>1, NextJobs DEF Job
  <2>3. Go(th, j, "merge")
    BY <1>4
  <2> HIDE DEF j
  <2>4. JobFits("merge", j, items) /\ "merge" \in Labels /\ "merge" \notin BeforeAppend
    BY <1>1, <2>1, <2>2 DEF JobFits, Labels, BeforeAppend
  <2> QED BY <1>1, <2>2, <2>3, <2>4, GoTypes
<1>5. ASSUME NEW to \in {"append", "compare"}, Go(th, job[th], to)
      PROVE  CountersOK' /\ ThreadsOK'
  <2>1. JobFits(to, job[th], items) /\ to \in Labels /\ pc[th] \in BeforeAppend
    BY <1>1 DEF JobFits, Labels, BeforeAppend
  <2> QED BY <1>1, <1>5, <2>1, GoTypes
<1> QED BY <1>2, <1>3, <1>4, <1>5

Replacing(j, k, r) == [j EXCEPT !.op = "replace", !.kept = k, !.rows = r]
LEMMA ReplaceJob ==
  ASSUME NEW j \in Job, NEW k \in SUBSET Nat, NEW r \in Seq(Id)
  PROVE  /\ Replacing(j, k, r) \in Job /\ Replacing(j, k, r).rows = r /\ Replacing(j, k, r).kept = k
         /\ Replacing(j, k, r).op = "replace" /\ Replacing(j, k, r).text = j.text
BY DEF Job, Replacing

LEMMA CompareTypes ==
  ASSUME TypesIInv, NEW th \in Thread, Compare(th) \/ CompareFails(th)
  PROVE  DataOK' /\ CountersOK' /\ ThreadsOK'
<1>1. /\ pc[th] = "compare" /\ job[th] \in Job /\ job[th].text \in Text
      /\ UNCHANGED <<kb, content, vecs, items, kbFile, vecFile, metaLen>>
  BY JobsFit DEF Compare, CompareFails, JobFits, memory, files
<1>2. \/ \E i \in DOMAIN kb : Go(th, [job[th] EXCEPT !.id = kb[i]], "merge")
      \/ Go(th, job[th], "append")
  BY DEF Compare, CompareFails
<1>3. DataOK'
  <2>1. reported' = reported /\ crashes' = crashes
    BY <1>2 DEF Go, history
  <2>2. faults' \in 0..MaxFaults
    BY Faulty DEF Compare, CompareFails, TypesIInv, DataOK
  <2> QED BY <1>1, <2>1, <2>2, SameData DEF TypesIInv, DataOK
<1>4. ASSUME NEW i \in DOMAIN kb, Go(th, [job[th] EXCEPT !.id = kb[i]], "merge")
      PROVE  CountersOK' /\ ThreadsOK'
  <2>1. kb[i] \in Id
    BY ItemAt DEF TypesIInv
  <2> DEFINE j == [job[th] EXCEPT !.id = kb[i]]
  <2>2. j \in Job /\ j.id = kb[i] /\ j.text = job[th].text
    BY <1>1, <2>1, NextJobs DEF Job
  <2>3. Go(th, j, "merge")
    BY <1>4
  <2> HIDE DEF j
  <2>4. JobFits("merge", j, items) /\ "merge" \in Labels /\ "merge" \notin BeforeAppend
    BY <1>1, <2>1, <2>2 DEF JobFits, Labels, BeforeAppend
  <2> QED BY <1>1, <2>2, <2>3, <2>4, GoTypes
<1>5. ASSUME Go(th, job[th], "append") PROVE CountersOK' /\ ThreadsOK'
  <2>1. JobFits("append", job[th], items) /\ "append" \in Labels /\ pc[th] \in BeforeAppend
    BY <1>1 DEF JobFits, Labels, BeforeAppend
  <2> QED BY <1>1, <1>5, <2>1, GoTypes
<1> QED BY <1>2, <1>3, <1>4, <1>5

LEMMA MergeTypes ==
  ASSUME TypesIInv, NEW th \in Thread, ReadOld(th) \/ WriteMerged(th)
  PROVE  DataOK' /\ CountersOK' /\ ThreadsOK'
<1>1. /\ pc[th] \in {"merge", "write"} /\ job[th] \in Job
      /\ job[th].text \in Text /\ job[th].id \in Id
      /\ UNCHANGED <<kb, vecs, items, kbFile, vecFile, metaLen, faults, calls, reported, crashes>>
  <2>1. pc[th] \in {"merge", "write"}
    BY DEF ReadOld, WriteMerged
  <2>2. UNCHANGED <<kb, vecs, items, kbFile, vecFile, metaLen, faults, calls, reported, crashes>>
    BY DEF ReadOld, WriteMerged, memory, files, Go, history
  <2> QED BY <2>1, <2>2, JobsFit DEF JobFits
<1>2. content' \in [Id -> SUBSET Text]
  <2>1. CASE ReadOld(th)
    BY <2>1 DEF ReadOld, memory, TypesIInv, DataOK
  <2>2. CASE WriteMerged(th)
    BY <1>1, <2>2 DEF WriteMerged, TypesIInv, DataOK, Job
  <2> QED BY <2>1, <2>2
<1>3. DataOK'
  <2>1. FileIds' = FileIds
    BY <1>1 DEF FileIds
  <2> QED BY <1>1, <1>2, <2>1 DEF TypesIInv, DataOK
<1>4. CASE ReadOld(th)
  <2> DEFINE j == [job[th] EXCEPT !.old = content[job[th].id]]
  <2>1. content[job[th].id] \in SUBSET Text
    BY <1>1 DEF TypesIInv, DataOK
  <2>2. j \in Job /\ j.id = job[th].id /\ j.text = job[th].text
    BY <1>1, <2>1, NextJobs DEF Job
  <2>3. pc' = [pc EXCEPT ![th] = "write"] /\ job' = [job EXCEPT ![th] = j]
    <3>1. job \in [Thread -> Job]
      BY DEF TypesIInv, ThreadsOK
    <3> QED BY <1>4, <3>1 DEF ReadOld
  <2> HIDE DEF j
  <2>4. JobFits("write", j, items) /\ "write" \in Labels /\ "write" \notin BeforeAppend
    BY <1>1, <2>2 DEF JobFits, Labels, BeforeAppend
  <2> QED BY <1>1, <1>3, <2>2, <2>3, <2>4, ThreadMoves DEF TypesIInv
<1>5. CASE WriteMerged(th)
  <2>1. Go(th, job[th], "saveMerge") /\ "saveMerge" \in Labels /\ "saveMerge" \notin BeforeAppend
    BY <1>5 DEF WriteMerged, Labels, BeforeAppend
  <2>2. JobFits("saveMerge", job[th], items)
    BY DEF JobFits
  <2> QED BY <1>1, <1>3, <2>1, <2>2, GoTypes
<1> QED BY <1>4, <1>5

LEMMA AppendTypes ==
  ASSUME TypesIInv, NEW th \in Thread, AppendItem(th)
  PROVE  DataOK' /\ CountersOK' /\ ThreadsOK'
<1>1. /\ pc[th] = "append" /\ job[th] \in Job /\ job[th].text \in Text
      /\ items' = items + 1 /\ kb' = Append(kb, items + 1)
      /\ content' = [content EXCEPT ![items + 1] = {job[th].text}]
      /\ pc' = [pc EXCEPT ![th] = "saveAdd"]
      /\ job' = [job EXCEPT ![th] = [job[th] EXCEPT !.id = items + 1]]
      /\ UNCHANGED <<vecs, kbFile, vecFile, metaLen, faults, calls, reported, crashes>>
  <2>1. items' = items + 1
    BY DEF AppendItem
  <2> QED BY <2>1, JobsFit DEF AppendItem, JobFits, files, Go, history
<1>2. items \in Nat /\ items + 1 \in Id /\ items + 1 \in Nat /\ items <= items + 1
  <2>1. pc[th] \in BeforeAppend
    BY <1>1 DEF BeforeAppend
  <2>2. items \in Nat
    BY DEF TypesIInv, CountersOK
  <2> QED BY <2>1, <2>2, ItemsBounded DEF TypesIInv
<1>3. DataOK'
  <2>1. Numbered(kb', items')
    BY <1>1, <1>2, NumberedAppend DEF TypesIInv, DataOK
  <2>2. Numbered(FileIds', items')
    <3>1. FileIds' = FileIds
      BY <1>1 DEF FileIds
    <3> QED BY <1>1, <1>2, <3>1, NumberedGrows DEF TypesIInv, DataOK
  <2>3. content' \in [Id -> SUBSET Text]
    BY <1>1, <1>2 DEF TypesIInv, DataOK
  <2> QED BY <1>1, <2>1, <2>2, <2>3 DEF TypesIInv, DataOK
<1>4. CountersOK'
  <2>1. Adding' = Adding \ {th} /\ th \in Adding
    BY <1>1 DEF TypesIInv, ThreadsOK, Adding, BeforeAppend
  <2>2. IsFiniteSet(Adding) /\ Cardinality(Adding) \in Nat
    BY FS_CardinalityType DEF TypesIInv, CountersOK
  <2>3. /\ IsFiniteSet(Adding')
        /\ Cardinality(Adding') = Cardinality(Adding) - 1
    <3> DEFINE A == Adding
    <3>1. IsFiniteSet(A) /\ th \in A
      BY <2>1, <2>2
    <3> HIDE DEF A
    <3>2. IsFiniteSet(A \ {th}) /\ Cardinality(A \ {th}) = Cardinality(A) - 1
      BY <3>1, FS_RemoveElement
    <3> QED BY <2>1, <3>2 DEF A
  <2>4. calls \in 0..MaxCalls /\ items + Cardinality(Adding) <= calls
    BY DEF TypesIInv, CountersOK
  <2>5. items' \in Nat /\ items' + Cardinality(Adding') <= calls'
    BY <1>1, <1>2, <2>2, <2>3, <2>4
  <2> QED BY <1>1, <2>3, <2>4, <2>5 DEF CountersOK
<1>5. ThreadsOK'
  <2> DEFINE j == [job[th] EXCEPT !.id = items + 1]
  <2>1. j \in Job /\ j.text = job[th].text
    BY <1>1, <1>2, NextJobs DEF Job
  <2>2. job' = [job EXCEPT ![th] = j]
    BY <1>1
  <2> HIDE DEF j
  <2>3. pc' \in [Thread -> Labels] /\ job' \in [Thread -> Job]
    BY <1>1, <2>1, <2>2 DEF TypesIInv, ThreadsOK, Labels
  <2>4. JobFits("saveAdd", j, items')
    BY <1>1, <2>1 DEF JobFits
  <2>5. ASSUME NEW u \in Thread, u # th PROVE JobFits(pc[u], job[u], items')
    <3>1. JobFits(pc[u], job[u], items)
      BY JobsFit
    <3>2. Numbered(job[u].rows, items) => Numbered(job[u].rows, items')
      BY <1>1, <1>2, NumberedGrows
    <3> QED BY <3>1, <3>2 DEF JobFits
  <2>6. \A u \in Thread : JobFits(pc'[u], job'[u], items')
    BY <1>1, <2>2, <2>4, <2>5 DEF TypesIInv, ThreadsOK
  <2> QED BY <2>3, <2>6 DEF ThreadsOK
<1> QED BY <1>3, <1>4, <1>5

LEMMA SearchTypes ==
  ASSUME TypesIInv, NEW th \in Thread,
         SearchKnowledge(th) \/ \E t \in Text : AddKnowledge(th, t)
  PROVE  DataOK' /\ CountersOK' /\ ThreadsOK'
<1>1. CASE SearchKnowledge(th)
  <2>1. JobFits("saveSearch", NoJob, items) /\ "saveSearch" \in Labels /\ NoJob \in Job
    BY JobsFit DEF JobFits, Labels
  <2> QED BY <1>1, <2>1, BeginTypes DEF SearchKnowledge
<1>2. ASSUME NEW t \in Text, AddKnowledge(th, t) PROVE DataOK' /\ CountersOK' /\ ThreadsOK'
  <2> DEFINE j == [NoJob EXCEPT !.text = t]
  <2>1. j \in Job /\ j.text \in Text
    BY JobsFit DEF Job, NoJob
  <2>2. Begin(th, j, "lookUp")
    BY <1>2 DEF AddKnowledge
  <2> HIDE DEF j
  <2>3. JobFits("lookUp", j, items) /\ "lookUp" \in Labels
    BY <2>1 DEF JobFits, Labels
  <2> QED BY <2>1, <2>2, <2>3, BeginTypes
<1> QED BY <1>1, <1>2

\* What save_json writes is a list of items, numbered as the one in memory.
LEMMA Written ==
  ASSUME DataOK, kbFile' = [i \in DOMAIN kb |-> [id |-> kb[i], content |-> content[kb[i]]]]
  PROVE  /\ kbFile' \in Seq([id : Id, content : SUBSET Text])
         /\ FileIds' = kb /\ DOMAIN kbFile' = DOMAIN kb /\ Len(kbFile') = Len(kb)
<1>1. kb \in Seq(Id) /\ Len(kb) \in Nat /\ DOMAIN kb = 1..Len(kb)
  BY LenProperties DEF DataOK, Numbered
<1>2. \A i \in 1..Len(kb) : kb[i] \in Id
  BY <1>1, ItemAt
<1>3. kbFile' \in [1..Len(kb) -> [id : Id, content : SUBSET Text]]
  BY <1>1, <1>2 DEF DataOK
<1>4. kbFile' \in Seq([id : Id, content : SUBSET Text]) /\ Len(kbFile') = Len(kb)
  BY <1>1, <1>3, SeqOfFunction
<1>5. FileIds' = [i \in 1..Len(kb) |-> kb[i]]
  BY <1>1 DEF FileIds
<1>6. kb = [i \in 1..Len(kb) |-> kb[i]]
  BY <1>1
<1> QED BY <1>1, <1>3, <1>4, <1>5, <1>6

LEMMA SaveTypes ==
  ASSUME TypesIInv, NEW th \in Thread, SaveKnowledge(th)
  PROVE  DataOK' /\ CountersOK' /\ ThreadsOK'
<1>1. /\ pc[th] \in {"saveMerge", "saveAdd", "saveKept", "saveSearch"} /\ job[th] \in Job
      /\ kbFile' = [i \in DOMAIN kb |-> [id |-> kb[i], content |-> content[kb[i]]]]
      /\ UNCHANGED <<kb, content, vecs, items, vecFile, metaLen, faults>>
  BY JobsFit DEF SaveKnowledge, AfterSave, memory
<1>2. \/ Finish(th)
      \/ \E to \in {"findRow", "embed", "slice"} :
           /\ Go(th, job[th], to)
           /\ to = "findRow" => pc[th] = "saveMerge"
           /\ to = "embed" => pc[th] = "saveAdd"
  BY <1>1 DEF SaveKnowledge, AfterSave
<1>3. reported' \subseteq Text /\ crashes' = crashes
  <2>1. CASE Finish(th)
    BY <1>1, <2>1, FinishTypes DEF Finish
  <2>2. CASE ~Finish(th)
    BY <1>2, <2>2 DEF Go, history, TypesIInv, DataOK
  <2> QED BY <2>1, <2>2
<1>4. DataOK'
  <2>1. DataOK
    BY DEF TypesIInv
  <2>2. kbFile' \in Seq([id : Id, content : SUBSET Text]) /\ FileIds' = kb
    BY <1>1, <2>1, Written
  <2> QED BY <1>1, <1>3, <2>1, <2>2 DEF DataOK
<1>5. ASSUME NEW to \in {"findRow", "embed", "slice"}, Go(th, job[th], to),
             to = "findRow" => pc[th] = "saveMerge", to = "embed" => pc[th] = "saveAdd"
      PROVE  CountersOK' /\ ThreadsOK'
  <2>1. to \in Labels /\ to \notin BeforeAppend
    BY DEF Labels, BeforeAppend
  <2>2. pc[th] = "saveAdd" => job[th].text \in Text
    BY JobsFit DEF JobFits
  <2>3. JobFits(to, job[th], items)
    BY <1>5, <2>2 DEF JobFits
  <2> QED BY <1>1, <1>5, <2>1, <2>3, GoTypes
<1> QED BY <1>1, <1>2, <1>4, <1>5, FinishTypes

LEMMA SaveFailsTypes ==
  ASSUME TypesIInv, NEW th \in Thread, SaveRaises(th) \/ EmbedFails(th)
  PROVE  DataOK' /\ CountersOK' /\ ThreadsOK'
<1>1. /\ UNCHANGED <<kb, content, vecs, items, kbFile, vecFile, metaLen>>
      /\ faults' \in 0..MaxFaults
  BY Faulty DEF SaveRaises, EmbedFails, memory, files
<1>2. Finish(th) \/ Raise(th)
  BY DEF SaveRaises, EmbedFails
<1>3. CountersOK' /\ ThreadsOK' /\ reported' \subseteq Text /\ crashes' = crashes
  <2>1. CASE Finish(th)
    BY <1>1, <2>1, FinishTypes DEF Finish
  <2>2. CASE Raise(th)
    BY <1>1, <2>2, RaiseTypes DEF Raise, history, TypesIInv, DataOK
  <2> QED BY <1>2, <2>1, <2>2
<1>4. DataOK'
  BY <1>1, <1>3, SameData DEF TypesIInv, DataOK
<1> QED BY <1>3, <1>4

\* A step that goes on or ends the operation, and may change the matrix.
LEMMA VectorStep ==
  ASSUME TypesIInv, NEW th \in Thread, NEW to \in Labels \ BeforeAppend, NEW j \in Job,
         Go(th, j, to) \/ Finish(th), JobFits(to, j, items),
         UNCHANGED <<kb, content, items, kbFile, faults>>,
         vecs' \in Seq(SUBSET Text), vecFile' \in Seq(SUBSET Text), metaLen' \in 0..MaxCalls
  PROVE  DataOK' /\ CountersOK' /\ ThreadsOK'
<1>1. CountersOK' /\ ThreadsOK' /\ reported' \subseteq Text /\ crashes' = crashes
  <2>1. CASE Go(th, j, to)
    <3>1. reported' \subseteq Text /\ crashes' = crashes
      BY <2>1 DEF Go, history, TypesIInv, DataOK
    <3> QED BY <2>1, <3>1, GoTypes
  <2>2. CASE Finish(th)
    BY <2>2, FinishTypes DEF Finish
  <2> QED BY <2>1, <2>2
<1>2. DataOK'
  BY <1>1, SameData DEF TypesIInv, DataOK
<1> QED BY <1>1, <1>2

LEMMA RowTypes ==
  ASSUME TypesIInv, NEW th \in Thread, FindRow(th) \/ Reembed(th)
  PROVE  DataOK' /\ CountersOK' /\ ThreadsOK'
<1>0. /\ vecs \in Seq(SUBSET Text) /\ vecFile \in Seq(SUBSET Text) /\ metaLen \in 0..MaxCalls
      /\ job[th] \in Job
  BY JobsFit DEF TypesIInv, DataOK
<1>1. CASE FindRow(th)
  <2> DEFINE jobAt(i) == [job[th] EXCEPT !.at = i, !.old = content[job[th].id]]
             rows == {i \in DOMAIN kb \intersect DOMAIN vecs : kb[i] = job[th].id}
  <2>1. UNCHANGED <<kb, content, vecs, items, kbFile, vecFile, metaLen, faults>>
    BY <1>1 DEF FindRow, memory, files
  <2>2. ASSUME NEW i \in rows, Go(th, jobAt(i), "reembed")
        PROVE  DataOK' /\ CountersOK' /\ ThreadsOK'
    <3>1. i \in Nat /\ kb[i] \in Id /\ kb[i] = job[th].id
      BY ItemAt DEF TypesIInv
    <3>2. content[job[th].id] \in SUBSET Text
      BY <3>1 DEF TypesIInv, DataOK
    <3>3. jobAt(i) \in Job
      BY <1>0, <3>1, <3>2, NextJobs
    <3> HIDE DEF jobAt
    <3>4. JobFits("reembed", jobAt(i), items) /\ "reembed" \in Labels \ BeforeAppend
      BY DEF JobFits, Labels, BeforeAppend
    <3> QED BY <1>0, <2>1, <2>2, <3>3, <3>4, VectorStep
  <2>3. CASE Finish(th)
    <3>1. JobFits("idle", NoJob, items) /\ "idle" \in Labels \ BeforeAppend /\ NoJob \in Job
      BY JobsFit DEF Labels, BeforeAppend
    <3> QED BY <1>0, <2>1, <2>3, <3>1, VectorStep
  <2>4. Finish(th) \/ \E i \in rows : Go(th, jobAt(i), "reembed")
    BY <1>1 DEF FindRow
  <2> QED BY <2>2, <2>3, <2>4
<1>2. CASE Reembed(th)
  <2>1. /\ UNCHANGED <<kb, content, items, kbFile, vecFile, metaLen, faults>>
        /\ Go(th, job[th], "saveVectors") \/ Finish(th)
        /\ vecs' = vecs \/ vecs' = [vecs EXCEPT ![job[th].at] = job[th].old]
    BY <1>2 DEF Reembed, files
  <2>2. vecs' \in Seq(SUBSET Text)
    <3>1. job[th].old \in SUBSET Text
      BY <1>0 DEF Job
    <3> QED BY <1>0, <2>1, <3>1
  <2>3. JobFits("saveVectors", job[th], items) /\ "saveVectors" \in Labels \ BeforeAppend
    BY DEF JobFits, Labels, BeforeAppend
  <2> QED BY <1>0, <2>1, <2>2, <2>3, VectorStep
<1> QED BY <1>1, <1>2

LEMMA StackTypes ==
  ASSUME TypesIInv, NEW th \in Thread, ReadMatrix(th) \/ Stack(th)
  PROVE  DataOK' /\ CountersOK' /\ ThreadsOK'
<1>0. /\ vecs \in Seq(SUBSET Text) /\ vecFile \in Seq(SUBSET Text) /\ metaLen \in 0..MaxCalls
      /\ job[th] \in Job
  BY JobsFit DEF TypesIInv, DataOK
<1>1. CASE ReadMatrix(th)
  <2> DEFINE j == [job[th] EXCEPT !.rows = vecs]
  <2>1. /\ Go(th, j, "stack") /\ pc[th] = "embed"
        /\ UNCHANGED <<kb, content, vecs, items, kbFile, vecFile, metaLen, faults>>
    BY <1>1 DEF ReadMatrix, memory, files
  <2>2. j \in Job /\ j.rows = vecs /\ j.text = job[th].text
    BY <1>0, NextJobs DEF Job
  <2>3. job[th].text \in Text
    BY <2>1, JobsFit DEF JobFits
  <2> HIDE DEF j
  <2>4. JobFits("stack", j, items) /\ "stack" \in Labels \ BeforeAppend
    BY <1>0, <2>2, <2>3 DEF JobFits, Labels, BeforeAppend
  <2> QED BY <1>0, <2>1, <2>2, <2>4, VectorStep
<1>2. CASE Stack(th)
  <2>1. /\ Go(th, job[th], "saveVectors") /\ pc[th] = "stack"
        /\ UNCHANGED <<kb, content, items, kbFile, vecFile, metaLen, faults>>
        /\ vecs' = Append(job[th].rows, {job[th].text})
    BY <1>2 DEF Stack, files
  <2>2. job[th].text \in Text /\ job[th].rows \in Seq(SUBSET Text)
    BY <2>1, JobsFit DEF JobFits
  <2>3. vecs' \in Seq(SUBSET Text)
    <3>1. {job[th].text} \in SUBSET Text
      BY <2>2
    <3> QED BY <2>1, <2>2, <3>1
  <2>4. JobFits("saveVectors", job[th], items) /\ "saveVectors" \in Labels \ BeforeAppend
    BY DEF JobFits, Labels, BeforeAppend
  <2> QED BY <1>0, <2>1, <2>3, <2>4, VectorStep
<1> QED BY <1>1, <1>2

LEMMA WriteTypes ==
  ASSUME TypesIInv, NEW th \in Thread,
         WriteVectors(th) \/ VectorsWritten(th) \/ SaveMeta(th)
  PROVE  DataOK' /\ CountersOK' /\ ThreadsOK'
<1>0. /\ vecs \in Seq(SUBSET Text) /\ vecFile \in Seq(SUBSET Text) /\ metaLen \in 0..MaxCalls
      /\ job[th] \in Job
  BY JobsFit DEF TypesIInv, DataOK
<1>1. CASE WriteVectors(th)
  <2> DEFINE j == [job[th] EXCEPT !.rows = vecs]
  <2>1. /\ Go(th, j, "writing") \/ Finish(th)
        /\ UNCHANGED <<kb, content, vecs, items, kbFile, vecFile, metaLen, faults>>
    BY <1>1 DEF WriteVectors, memory, files
  <2>2. j \in Job /\ j.rows = vecs
    BY <1>0, NextJobs DEF Job
  <2> HIDE DEF j
  <2>3. JobFits("writing", j, items) /\ "writing" \in Labels \ BeforeAppend
    BY <1>0, <2>2 DEF JobFits, Labels, BeforeAppend
  <2> QED BY <1>0, <2>1, <2>2, <2>3, VectorStep
<1>2. CASE VectorsWritten(th)
  <2>1. /\ Go(th, job[th], "saveMeta") /\ pc[th] = "writing"
        /\ UNCHANGED <<kb, content, vecs, items, kbFile, metaLen, faults>>
        /\ vecFile' = job[th].rows
    BY <1>2 DEF VectorsWritten, memory
  <2>2. vecFile' \in Seq(SUBSET Text)
    BY <2>1, JobsFit DEF JobFits
  <2>3. JobFits("saveMeta", job[th], items) /\ "saveMeta" \in Labels \ BeforeAppend
    BY DEF JobFits, Labels, BeforeAppend
  <2> QED BY <1>0, <2>1, <2>2, <2>3, VectorStep
<1>3. CASE SaveMeta(th)
  <2>1. /\ Finish(th) /\ metaLen' = Len(kb)
        /\ UNCHANGED <<kb, content, vecs, items, kbFile, vecFile, faults>>
    BY <1>3 DEF SaveMeta, memory
  <2>2. Len(kb) \in 0..MaxCalls
    <3>1. Len(kb) \in Nat /\ Len(kb) <= items
      BY LenProperties DEF TypesIInv, DataOK, Numbered
    <3> QED BY <3>1, ItemsBounded DEF TypesIInv
  <2>3. JobFits("idle", NoJob, items) /\ "idle" \in Labels \ BeforeAppend /\ NoJob \in Job
    BY JobsFit DEF Labels, BeforeAppend
  <2> QED BY <1>0, <2>1, <2>2, <2>3, VectorStep
<1> QED BY <1>1, <1>2, <1>3

LEMMA SavingFailsTypes ==
  ASSUME TypesIInv, NEW th \in Thread, WriteRaises(th) \/ SaveMetaRaises(th)
  PROVE  DataOK' /\ CountersOK' /\ ThreadsOK'
<1>1. /\ UNCHANGED <<kb, content, items, kbFile, vecFile, metaLen>> /\ Finish(th)
      /\ vecs' = IF booting THEN <<>> ELSE vecs
      /\ faults' \in 0..MaxFaults
  BY Faulty DEF WriteRaises, SaveMetaRaises, SavingFails, files
<1>2. CountersOK' /\ ThreadsOK' /\ reported' \subseteq Text /\ crashes' = crashes
  BY <1>1, FinishTypes DEF Finish
<1>3. vecs' \in Seq(SUBSET Text)
  BY <1>1 DEF TypesIInv, DataOK
<1>4. DataOK'
  BY <1>1, <1>2, <1>3, SameData DEF TypesIInv, DataOK
<1> QED BY <1>2, <1>4

LEMMA CleanupTypes ==
  ASSUME TypesIInv, CleanupStaleKnowledge
  PROVE  DataOK' /\ CountersOK' /\ ThreadsOK'
<1>1. PICK kept \in SUBSET DOMAIN kb : Begin(Main, Replacing(NoJob, kept, kb), "replace")
  BY DEF CleanupStaleKnowledge, Replacing
<1> DEFINE j == Replacing(NoJob, kept, kb)
<1>2. kb \in Seq(Id) /\ kept \in SUBSET Nat /\ Numbered(kb, items)
  <2>1. Numbered(kb, items) /\ kb \in Seq(Id)
    BY DEF TypesIInv, DataOK, Numbered
  <2> QED BY <2>1
<1>3. j \in Job /\ j.rows = kb /\ j.kept = kept
  BY <1>2, JobsFit, ThreadAssumption, ReplaceJob
<1>4. Begin(Main, j, "replace")
  BY <1>1
<1> HIDE DEF j
<1>5. JobFits("replace", j, items) /\ "replace" \in Labels
  BY <1>2, <1>3 DEF JobFits, Labels
<1> QED BY <1>3, <1>4, <1>5, ThreadAssumption, BeginTypes

LEMMA ReplaceTypes ==
  ASSUME TypesIInv, Replace
  PROVE  DataOK' /\ CountersOK' /\ ThreadsOK'
<1> DEFINE was == job[Main].rows
           kept == job[Main].kept
<1>1. /\ pc[Main] = "replace" /\ kb' = Pick(was, kept)
      /\ pc' = [pc EXCEPT ![Main] = "saveKept"]
      /\ UNCHANGED <<job, content, vecs, items, kbFile, vecFile, metaLen, calls, faults, crashes>>
      /\ reported' \subseteq reported
  BY DEF Replace, files
<1>2. Numbered(was, items) /\ kept \in SUBSET DOMAIN was /\ job[Main] \in Job
  BY <1>1, JobsFit, ThreadAssumption DEF JobFits
<1>3. DataOK'
  <2>1. Numbered(kb', items)
    BY <1>1, <1>2, NumberedPick DEF TypesIInv, CountersOK
  <2>2. FileIds' = FileIds
    BY <1>1 DEF FileIds
  <2> QED BY <1>1, <2>1, <2>2 DEF TypesIInv, DataOK
<1>4. CountersOK' /\ ThreadsOK'
  <2>1. job' = [job EXCEPT ![Main] = job[Main]]
    BY <1>1, ThreadAssumption DEF TypesIInv, ThreadsOK
  <2>2. "saveKept" \in Labels /\ "saveKept" \notin BeforeAppend /\ JobFits("saveKept", job[Main], items)
    BY DEF Labels, BeforeAppend, JobFits
  <2> QED BY <1>1, <1>2, <2>1, <2>2, ThreadAssumption, ThreadMoves DEF TypesIInv
<1> QED BY <1>3, <1>4

LEMMA SliceTypes ==
  ASSUME TypesIInv, Slice
  PROVE  DataOK' /\ CountersOK' /\ ThreadsOK'
<1> DEFINE kept == job[Main].kept
<1>0. /\ vecs \in Seq(SUBSET Text) /\ vecFile \in Seq(SUBSET Text) /\ metaLen \in 0..MaxCalls
      /\ job[Main] \in Job
  BY JobsFit, ThreadAssumption DEF TypesIInv, DataOK
<1>1. /\ UNCHANGED <<kb, content, items, kbFile, vecFile, metaLen, faults>>
      /\ \/ Finish(Main) /\ (vecs' = vecs \/ vecs' = <<>>)
         \/ kept \subseteq DOMAIN vecs /\ vecs' = Pick(vecs, kept) /\ Go(Main, job[Main], "saveVectors")
         \/ Raise(Main) /\ vecs' = vecs
  BY DEF Slice, files
<1>2. JobFits("saveVectors", job[Main], items) /\ "saveVectors" \in Labels \ BeforeAppend
  BY DEF JobFits, Labels, BeforeAppend
<1>3. CASE Finish(Main) /\ (vecs' = vecs \/ vecs' = <<>>)
  <2>1. <<>> \in Seq(SUBSET Text)
    OBVIOUS
  <2>2. vecs' \in Seq(SUBSET Text)
    BY <1>0, <1>3, <2>1, Zenon
  <2> QED BY <1>0, <1>1, <1>2, <1>3, <2>2, ThreadAssumption, VectorStep
<1>4. CASE kept \subseteq DOMAIN vecs /\ vecs' = Pick(vecs, kept) /\ Go(Main, job[Main], "saveVectors")
  <2>1. vecs' \in Seq(SUBSET Text)
    BY <1>0, <1>4, PickOf
  <2> QED BY <1>0, <1>1, <1>2, <1>4, <2>1, ThreadAssumption, VectorStep
<1>5. CASE Raise(Main) /\ vecs' = vecs
  <2>1. CountersOK' /\ ThreadsOK' /\ reported' = reported /\ crashes' = crashes
    BY <1>1, <1>5, RaiseTypes, ThreadAssumption DEF Raise, history
  <2> QED BY <1>0, <1>1, <1>5, <2>1, SameData DEF TypesIInv, DataOK
<1> QED BY <1>1, <1>3, <1>4, <1>5

LEMMA LoadTypes ==
  ASSUME TypesIInv, Load \/ Rebuild
  PROVE  DataOK' /\ CountersOK' /\ ThreadsOK'
<1>0. /\ vecs \in Seq(SUBSET Text) /\ vecFile \in Seq(SUBSET Text) /\ metaLen \in 0..MaxCalls
      /\ NoJob \in Job /\ Main \in Thread
  BY JobsFit, ThreadAssumption DEF TypesIInv, DataOK
<1>1. /\ UNCHANGED <<kb, content, items, kbFile, vecFile, metaLen, faults>>
      /\ \E to \in {"rebuild", "saveVectors"} : Finish(Main) \/ Go(Main, NoJob, to)
      /\ vecs' \in {vecs, vecFile, [i \in DOMAIN kb |-> content[kb[i]]]}
  BY DEF Load, Rebuild, files
<1>2. [i \in DOMAIN kb |-> content[kb[i]]] \in Seq(SUBSET Text)
  <2>1. kb \in Seq(Id) /\ Len(kb) \in Nat /\ DOMAIN kb = 1..Len(kb)
    BY LenProperties DEF TypesIInv, DataOK, Numbered
  <2>2. \A i \in 1..Len(kb) : content[kb[i]] \in SUBSET Text
    BY <2>1, ItemAt DEF TypesIInv, DataOK
  <2>3. [i \in 1..Len(kb) |-> content[kb[i]]] \in [1..Len(kb) -> SUBSET Text]
    BY <2>2
  <2>4. [i \in 1..Len(kb) |-> content[kb[i]]] \in Seq(SUBSET Text)
    BY <2>1, <2>3, SeqOfFunction
  <2> QED BY <2>1, <2>4
<1>3. \A to \in {"rebuild", "saveVectors"} : JobFits(to, NoJob, items) /\ to \in Labels \ BeforeAppend
  BY DEF JobFits, Labels, BeforeAppend
<1> QED BY <1>0, <1>1, <1>2, <1>3, VectorStep

LEMMA RebuildFailsTypes ==
  ASSUME TypesIInv, RebuildFails
  PROVE  DataOK' /\ CountersOK' /\ ThreadsOK'
<1>1. /\ UNCHANGED <<kb, content, vecs, items, kbFile, vecFile, metaLen>> /\ Finish(Main)
      /\ faults' \in 0..MaxFaults
  BY Faulty DEF RebuildFails, memory, files
<1>2. CountersOK' /\ ThreadsOK' /\ reported' \subseteq Text /\ crashes' = crashes
  BY <1>1, FinishTypes, ThreadAssumption DEF Finish
<1> QED BY <1>1, <1>2, SameData DEF TypesIInv, DataOK

\* What the process reads back after a crash is as well numbered as what it lost.
LEMMA CrashTypes ==
  ASSUME TypesIInv, Crash
  PROVE  DataOK' /\ CountersOK' /\ ThreadsOK'
<1>1. /\ kb' = FileIds
      /\ content' = [n \in Id |-> UNION {f.content : f \in {g \in ItemsOf(kbFile) : g.id = n}}]
      /\ vecs' = <<>> /\ crashes < MaxCrashes /\ crashes' = crashes + 1
      /\ pc' = [th \in Thread |-> IF th = Main THEN "load" ELSE "idle"]
      /\ job' = [th \in Thread |-> NoJob]
      /\ UNCHANGED <<items, calls, kbFile, vecFile, metaLen, reported, faults>>
  BY DEF Crash, FileIds
<1>2. content' \in [Id -> SUBSET Text]
  <2>1. \A f \in ItemsOf(kbFile) : f.content \in SUBSET Text
    <3>1. kbFile \in Seq([id : Id, content : SUBSET Text])
      BY DEF TypesIInv, DataOK
    <3>2. \A i \in DOMAIN kbFile : kbFile[i] \in [id : Id, content : SUBSET Text]
      BY <3>1, ElementOfSeq, LenProperties
    <3> QED BY <3>2 DEF ItemsOf
  <2>2. \A n \in Id : UNION {f.content : f \in {g \in ItemsOf(kbFile) : g.id = n}} \in SUBSET Text
    BY <2>1
  <2> QED BY <1>1, <2>2
<1>3. FileIds' = FileIds
  BY <1>1 DEF FileIds
<1>4. crashes' \in 0..MaxCrashes
  BY <1>1, BoundAssumption DEF TypesIInv, DataOK
<1>5. DataOK'
  <2>1. vecs' \in Seq(SUBSET Text)
    BY <1>1
  <2> QED BY <1>1, <1>2, <1>3, <1>4, <2>1 DEF TypesIInv, DataOK
<1>6. CountersOK'
  <2>1. Adding' = {}
    BY <1>1 DEF Adding, BeforeAppend
  <2>2. IsFiniteSet(Adding') /\ Cardinality(Adding') = 0
    BY <2>1, FS_EmptySet
  <2>3. Cardinality(Adding) \in Nat
    BY FS_CardinalityType DEF TypesIInv, CountersOK
  <2>4. items + Cardinality(Adding') <= calls
    BY <2>2, <2>3 DEF TypesIInv, CountersOK
  <2> QED BY <1>1, <2>2, <2>4 DEF TypesIInv, CountersOK
<1>7. ThreadsOK'
  <2>1. NoJob \in Job
    BY JobsFit, ThreadAssumption
  <2>2. JobFits("load", NoJob, items') /\ JobFits("idle", NoJob, items')
    BY DEF JobFits
  <2> QED BY <1>1, <2>1, <2>2 DEF ThreadsOK, Labels
<1> QED BY <1>5, <1>6, <1>7

LEMMA FlagsStep == ASSUME TypesIInv, Next PROVE FlagsOK'
<1> USE DEF TypesIInv, FlagsOK
<1>1. ASSUME NEW th \in Thread, NEW j, NEW to, Begin(th, j, to) PROVE FlagsOK'
  BY <1>1, Zenon DEF Begin, files
<1>2. ASSUME NEW th \in Thread, NEW j, NEW to, Go(th, j, to) \/ Finish(th) \/ Raise(th)
      PROVE  booting' \in BOOLEAN /\ disturbed' \in BOOLEAN /\ clashed' \in BOOLEAN
  BY <1>2, Zenon DEF Go, Finish, Raise, history
<1>3. ASSUME NEW th \in Thread, SearchKnowledge(th) \/ \E t \in Text : AddKnowledge(th, t) PROVE FlagsOK'
  BY <1>1, <1>3, Zenon DEF SearchKnowledge, AddKnowledge
<1>4. CASE CleanupStaleKnowledge
  BY <1>1, <1>4, ThreadAssumption, Zenon DEF CleanupStaleKnowledge
<1>5. CASE Replace \/ Crash
  BY <1>5, Zenon DEF Replace, Crash, files
<1>6. CASE Slice
  <2>1. vecWhole' = vecWhole
    BY <1>6 DEF Slice, files
  <2>2. Go(Main, job[Main], "saveVectors") \/ Finish(Main) \/ Raise(Main)
    BY <1>6 DEF Slice
  <2> QED BY <1>2, <2>1, <2>2, ThreadAssumption, Zenon
<1>7. CASE Load \/ Rebuild \/ RebuildFails
  <2>1. vecWhole' = vecWhole
    BY <1>7, Zenon DEF Load, Rebuild, RebuildFails, files
  <2>2. \E to : Go(Main, NoJob, to) \/ Finish(Main)
    BY <1>7, Zenon DEF Load, Rebuild, RebuildFails
  <2> QED BY <1>2, <2>1, <2>2, ThreadAssumption, Zenon
<1>8. ASSUME NEW th \in Thread, Step(th) PROVE FlagsOK'
  <2>1. CASE ReadOld(th)
    BY <2>1, Zenon DEF ReadOld, files
  <2>2. CASE ~ReadOld(th)
    <3>1. vecWhole' \in BOOLEAN
      BY <1>8, <2>2, Zenon DEF Step, LookUp, Compare, CompareFails, WriteMerged, AppendItem,
         SaveKnowledge, SaveRaises, FindRow, Reembed, ReadMatrix, Stack, EmbedFails,
         WriteVectors, VectorsWritten, WriteRaises, SaveMeta, SaveMetaRaises, files
    <3>2. (\E j, to : Go(th, j, to)) \/ Finish(th) \/ Raise(th)
      BY <1>8, <2>2 DEF Step, LookUp, Compare, CompareFails, WriteMerged, AppendItem,
         SaveKnowledge, SaveRaises, FindRow, Reembed, ReadMatrix, Stack, EmbedFails,
         WriteVectors, VectorsWritten, WriteRaises, SaveMeta, SaveMetaRaises, SavingFails
    <3> QED BY <1>2, <3>1, <3>2, Zenon
  <2> QED BY <2>1, <2>2
<1> QED BY <1>3, <1>4, <1>5, <1>6, <1>7, <1>8, Zenon DEF Next

LEMMA TypesStep == ASSUME TypesIInv, Next PROVE TypesIInv'
<1>1. FlagsOK'
  BY FlagsStep
<1>2. ASSUME NEW th \in Thread, SearchKnowledge(th) \/ \E t \in Text : AddKnowledge(th, t)
      PROVE  DataOK' /\ CountersOK' /\ ThreadsOK'
  BY <1>2, SearchTypes
<1>3. ASSUME NEW th \in Thread, Step(th)
      PROVE  DataOK' /\ CountersOK' /\ ThreadsOK'
  BY <1>3, LookUpTypes, CompareTypes, MergeTypes, AppendTypes, SaveTypes, SaveFailsTypes,
     RowTypes, StackTypes, WriteTypes, SavingFailsTypes, Zenon DEF Step
<1>4. CASE CleanupStaleKnowledge \/ Replace \/ Slice
  BY <1>1, <1>4, CleanupTypes, ReplaceTypes, SliceTypes DEF TypesIInv
<1>5. CASE Crash \/ Load \/ Rebuild \/ RebuildFails
  BY <1>1, <1>5, CrashTypes, LoadTypes, RebuildFailsTypes DEF TypesIInv
<1> QED BY <1>1, <1>2, <1>3, <1>4, <1>5, Zenon DEF Next, TypesIInv

LEMMA TypesInit == ASSUME Init PROVE TypesIInv
<1>1. Adding = {}
  BY DEF Init, Adding, BeforeAppend
<1>2. IsFiniteSet(Adding) /\ Cardinality(Adding) = 0
  BY <1>1, FS_EmptySet
<1>3. DataOK
  <2>1. FileIds = <<>>
    BY DEF Init, FileIds
  <2>2. Numbered(<<>>, 0)
    BY DEF Numbered
  <2> QED BY <2>1, <2>2, BoundAssumption DEF Init, DataOK
<1>4. ThreadsOK
  <2>1. NoJob \in Job
    <3>1. {} \subseteq Nat /\ <<>> \in Seq(Id)
      OBVIOUS
    <3> QED BY <3>1 DEF NoJob, Job
  <2> QED BY <2>1 DEF Init, ThreadsOK, Labels, JobFits
<1>5. CountersOK
  BY <1>2, BoundAssumption DEF Init, CountersOK
<1>6. FlagsOK
  BY Zenon DEF Init, FlagsOK
<1> QED BY <1>3, <1>4, <1>5, <1>6 DEF TypesIInv

\* Every variable and every local of a thread keeps its type; the list and its
\* file number their items upwards and never give a number twice.
THEOREM TypesInvariance == Spec => []TypesIInv
<1>1. ASSUME TypesIInv, [Next]_vars PROVE TypesIInv'
  <2>1. CASE UNCHANGED vars
    BY <1>1, <2>1 DEF vars, TypesIInv, DataOK, FileIds, FlagsOK, CountersOK, Adding, ThreadsOK
  <2> QED BY <1>1, <2>1, TypesStep
<1> QED BY <1>1, TypesInit, PTL DEF Spec

\* long_term.py: what the store holds, on disk and in memory, is always of the
\* kind its operations expect, whatever fails and whenever the process dies.
THEOREM TypeCorrect == Spec => []TypeOK
BY TypesInvariance, TypesImplied, PTL
-----------------------------------------------------------------------------
\* ReportedIsKept.  A text that was reported is in the file and in the list; a
\* crash falls back on the file, a save copies the list.

InFile(t, file) == \E i \in DOMAIN file : t \in file[i].content
InList(t, list, texts) == \E i \in DOMAIN list : t \in texts[list[i]]
Kept(t, list, texts, file) == InFile(t, file) /\ InList(t, list, texts)
Listed(x, list) == \E i \in DOMAIN list : list[i] = x

Merging == {"merge", "write", "saveMerge", "saveAdd"}
Saved == {"findRow", "reembed", "embed", "stack", "saveVectors", "writing", "saveMeta"}
NoAdd == {"saveSearch", "saveKept", "replace", "slice", "load", "rebuild"}
\* What a thread that stands at p has done or read of the store.
Holds(p, j, list, texts, file) ==
  /\ p \in Merging => Listed(j.id, list)
  /\ p = "write" => j.old = texts[j.id]
  /\ p \in {"saveMerge", "saveAdd"} => j.text \in texts[j.id]
  /\ p \in Saved => j.text = NoText \/ Kept(j.text, list, texts, file)
  /\ p = "replace" => j.rows = list /\ j.op = "replace"
  /\ p \in NoAdd => j.text = NoText
  /\ p = "idle" => j = NoJob
OneReplaces == \A th, u \in Thread : job[th].op = "replace" /\ pc[u] # "idle" => th = u
OneWrites ==
  \A th, u \in Thread : pc[th] = "write" /\ pc[u] = "write" /\ job[th].id = job[u].id => th = u
Safe ==
  /\ \A t \in reported : Kept(t, kb, content, kbFile)
  /\ \A th \in Thread : Holds(pc[th], job[th], kb, content, kbFile)
  /\ OneReplaces /\ OneWrites
ReportedIInv == ~clashed => Safe

LEMMA SafeImplies == ReportedIInv => ReportedIsKept
<1> SUFFICES ASSUME ReportedIInv, ~clashed, NEW t \in reported
             PROVE  t \in UNION {f.content : f \in ItemsOf(kbFile)}
  BY DEF ReportedIsKept
<1>1. PICK i \in DOMAIN kbFile : t \in kbFile[i].content
  BY DEF ReportedIInv, Safe, Kept, InFile
<1>2. kbFile[i] \in ItemsOf(kbFile)
  BY DEF ItemsOf
<1> QED BY <1>1, <1>2

\* A step of one thread that has a place in the store to go to.
LEMMA SafeStep ==
  ASSUME TypesIInv, Safe, NEW th \in Thread, pc[th] # "idle", NEW to, NEW j,
         pc' = [pc EXCEPT ![th] = to], job' = [job EXCEPT ![th] = j],
         j.op = job[th].op \/ j.op = "none",
         to = "write" => \A u \in Thread \ {th} : ~(pc[u] = "write" /\ job[u].id = j.id),
         \A t \in reported' : Kept(t, kb', content', kbFile'),
         Holds(to, j, kb', content', kbFile'),
         \A u \in Thread \ {th} : Holds(pc[u], job[u], kb', content', kbFile')
  PROVE  Safe'
<1>1. /\ \A u \in Thread \ {th} : pc'[u] = pc[u] /\ job'[u] = job[u]
      /\ pc'[th] = to /\ job'[th] = j
  BY DEF TypesIInv, ThreadsOK
<1>2. \A u \in Thread : Holds(pc'[u], job'[u], kb', content', kbFile')
  BY <1>1
<1>3. OneReplaces'
  <2> SUFFICES ASSUME NEW u \in Thread, NEW v \in Thread, job'[u].op = "replace", pc'[v] # "idle"
               PROVE  u = v
    BY DEF OneReplaces
  <2>1. job[u].op = "replace"
    BY <1>1
  <2>2. pc[v] # "idle"
    BY <1>1
  <2> QED BY <2>1, <2>2 DEF Safe, OneReplaces
<1>4. OneWrites'
  <2> SUFFICES ASSUME NEW u \in Thread, NEW v \in Thread, pc'[u] = "write", pc'[v] = "write",
                      job'[u].id = job'[v].id
               PROVE  u = v
    BY DEF OneWrites
  <2>1. CASE u # th /\ v # th
    BY <1>1, <2>1 DEF Safe, OneWrites
  <2>2. CASE u = th \/ v = th
    BY <1>1, <2>2
  <2> QED BY <2>1, <2>2
<1> QED BY <1>2, <1>3, <1>4 DEF Safe

\* ... and that leaves the list, its contents and its file as they are.
LEMMA QuietStep ==
  ASSUME TypesIInv, Safe, NEW th \in Thread, pc[th] # "idle", NEW to, NEW j,
         Go(th, j, to), UNCHANGED <<kb, content, kbFile>>, to # "write",
         j.op = job[th].op \/ j.op = "none", Holds(to, j, kb, content, kbFile)
  PROVE  Safe'
<1>1. /\ pc' = [pc EXCEPT ![th] = to] /\ job' = [job EXCEPT ![th] = j]
      /\ reported' = reported
  BY DEF Go, history
<1>2. \A t \in reported' : Kept(t, kb', content', kbFile')
  BY <1>1 DEF Safe
<1>3. /\ Holds(to, j, kb', content', kbFile')
      /\ \A u \in Thread \ {th} : Holds(pc[u], job[u], kb', content', kbFile')
  BY DEF Safe
<1> QED BY <1>1, <1>2, <1>3, SafeStep

Ending == Saved \union NoAdd
LEMMA EndStep ==
  ASSUME TypesIInv, Safe, NEW th \in Thread,
         (Raise(th) /\ pc[th] # "idle") \/ (Finish(th) /\ pc[th] \in Ending),
         UNCHANGED <<kb, content>>,
         \A t : InFile(t, kbFile) /\ InList(t, kb, content) => InFile(t, kbFile')
  PROVE  Safe'
<1>1. /\ pc' = [pc EXCEPT ![th] = "idle"] /\ job' = [job EXCEPT ![th] = NoJob]
      /\ pc[th] # "idle"
      /\ \/ reported' = reported
         \/ pc[th] \in Ending /\ reported' = reported \union ({job[th].text} \ {NoText})
  BY DEF Raise, Finish, history, Ending, Saved, NoAdd
<1>2. \A t : Kept(t, kb, content, kbFile) => Kept(t, kb', content', kbFile')
  BY DEF Kept
<1>3. \A t \in reported' : Kept(t, kb', content', kbFile')
  <2>1. pc[th] \in Ending => job[th].text = NoText \/ Kept(job[th].text, kb, content, kbFile)
    BY DEF Safe, Holds, Ending
  <2> QED BY <1>1, <1>2, <2>1 DEF Safe
<1>4. NoJob.op = "none" /\ Holds("idle", NoJob, kb', content', kbFile')
  BY DEF Holds, NoJob, Merging, Saved, NoAdd
<1>5. ASSUME NEW u \in Thread \ {th} PROVE Holds(pc[u], job[u], kb', content', kbFile')
  <2>1. Holds(pc[u], job[u], kb, content, kbFile)
    BY DEF Safe
  <2> QED BY <1>2, <2>1 DEF Holds
<1> QED BY <1>1, <1>3, <1>4, <1>5, SafeStep

LEMMA SameFile ==
  ASSUME UNCHANGED kbFile
  PROVE  \A t : InFile(t, kbFile) /\ InList(t, kb, content) => InFile(t, kbFile')
OBVIOUS

LEMMA SearchSafe ==
  ASSUME TypesIInv, ReportedIInv, NEW th \in Thread, NEW to, NEW j, Begin(th, j, to),
         \/ to = "lookUp" /\ j.op = "none"
         \/ to = "saveSearch" /\ j = NoJob
         \/ to = "replace" /\ j.op = "replace" /\ j.rows = kb /\ j.text = NoText
  PROVE  ReportedIInv'
<1> SUFFICES ASSUME ~clashed' PROVE Safe'
  BY DEF ReportedIInv
<1>1. /\ pc' = [pc EXCEPT ![th] = to] /\ job' = [job EXCEPT ![th] = j] /\ pc[th] = "idle"
      /\ UNCHANGED <<kb, content, kbFile, reported>>
      /\ clashed' = (clashed \/ \E u \in {v \in Thread : pc[v] # "idle"} : "replace" \in {to, job[u].op})
  BY DEF Begin, memory, files
<1>2. ~clashed /\ Safe /\ \A u \in Thread : pc[u] # "idle" => to # "replace" /\ job[u].op # "replace"
  BY <1>1, Zenon DEF ReportedIInv
<1>3. /\ \A u \in Thread \ {th} : pc'[u] = pc[u] /\ job'[u] = job[u]
      /\ pc'[th] = to /\ job'[th] = j
  BY <1>1 DEF TypesIInv, ThreadsOK
<1>4. NoJob.op = "none" /\ NoJob.text = NoText
  BY DEF NoJob
<1>5. \A u \in Thread : Holds(pc'[u], job'[u], kb', content', kbFile')
  <2>1. Holds(to, j, kb', content', kbFile')
    BY <1>1, <1>4 DEF Holds, Merging, Saved, NoAdd
  <2>2. \A u \in Thread \ {th} : Holds(pc[u], job[u], kb', content', kbFile')
    BY <1>1, <1>2 DEF Safe
  <2> QED BY <1>3, <2>1, <2>2
<1>6. OneReplaces'
  <2> SUFFICES ASSUME NEW u \in Thread, NEW v \in Thread, job'[u].op = "replace", pc'[v] # "idle"
               PROVE  u = v
    BY DEF OneReplaces
  <2>1. CASE u = th
    <3>1. to = "replace"
      BY <1>3, <1>4, <2>1
    <3> QED BY <1>2, <1>3, <2>1, <3>1
  <2>2. CASE u # th
    <3>1. job[u].op = "replace" /\ Holds(pc[u], job[u], kb, content, kbFile)
      BY <1>2, <1>3, <2>2 DEF Safe
    <3>2. pc[u] = "idle"
      BY <1>2, <3>1
    <3> QED BY <1>4, <3>1, <3>2 DEF Holds
  <2> QED BY <2>1, <2>2
<1>7. OneWrites'
  <2>1. to # "write"
    OBVIOUS
  <2> QED BY <1>2, <1>3, <2>1 DEF Safe, OneWrites
<1>8. \A t \in reported' : Kept(t, kb', content', kbFile')
  BY <1>1, <1>2 DEF Safe
<1> QED BY <1>5, <1>6, <1>7, <1>8 DEF Safe

\* What a step does to the job of its thread leaves the rest of the job alone.
LEMMA JobEdits ==
  ASSUME NEW j \in Job
  PROVE  /\ \A i : LET k == [j EXCEPT !.id = i] IN k.id = i /\ k.op = j.op /\ k.text = j.text
         /\ \A o : LET k == [j EXCEPT !.old = o]
                   IN  k.old = o /\ k.id = j.id /\ k.op = j.op /\ k.text = j.text
         /\ \A r : LET k == [j EXCEPT !.rows = r] IN k.op = j.op /\ k.text = j.text
         /\ \A i, o : LET k == [j EXCEPT !.at = i, !.old = o] IN k.op = j.op /\ k.text = j.text
BY DEF Job

LEMMA LookUpSafe ==
  ASSUME TypesIInv, Safe, NEW th \in Thread, LookUp(th) \/ Compare(th) \/ CompareFails(th)
  PROVE  Safe'
<1>1. /\ pc[th] \in {"lookUp", "compare"} /\ UNCHANGED <<kb, content, kbFile>> /\ job[th] \in Job
  BY JobsFit DEF LookUp, Compare, CompareFails, memory, files
<1>2. \/ \E i \in DOMAIN kb : Go(th, [job[th] EXCEPT !.id = kb[i]], "merge")
      \/ \E to \in {"append", "compare"} : Go(th, job[th], to)
  <2> DEFINE holds == {i \in DOMAIN kb : job[th].text \in content[kb[i]]}
  <2>1. CASE LookUp(th)
    <3>1. CASE holds # {}
      BY <2>1, <3>1 DEF LookUp
    <3>2. CASE holds = {}
      BY <2>1, <3>2 DEF LookUp
    <3> QED BY <3>1, <3>2
  <2>2. CASE Compare(th) \/ CompareFails(th)
    BY <2>2 DEF Compare, CompareFails
  <2> QED BY <2>1, <2>2
<1>3. ASSUME NEW i \in DOMAIN kb, Go(th, [job[th] EXCEPT !.id = kb[i]], "merge") PROVE Safe'
  <2> DEFINE j == [job[th] EXCEPT !.id = kb[i]]
  <2>1. j.id = kb[i] /\ j.op = job[th].op
    BY <1>1, JobEdits
  <2>2. Go(th, j, "merge")
    BY <1>3
  <2> HIDE DEF j
  <2>3. Holds("merge", j, kb, content, kbFile)
    BY <2>1 DEF Holds, Listed, Merging, Saved, NoAdd
  <2> QED BY <1>1, <2>1, <2>2, <2>3, QuietStep
<1>4. ASSUME NEW to \in {"append", "compare"}, Go(th, job[th], to) PROVE Safe'
  <2>1. Holds(to, job[th], kb, content, kbFile)
    BY DEF Holds, Merging, Saved, NoAdd
  <2> QED BY <1>1, <1>4, <2>1, QuietStep
<1> QED BY <1>2, <1>3, <1>4

LEMMA ReadOldSafe ==
  ASSUME TypesIInv, Safe, NEW th \in Thread, ReadOld(th), ~clashed'
  PROVE  Safe'
<1> DEFINE j == [job[th] EXCEPT !.old = content[job[th].id]]
<1>1. /\ pc[th] = "merge" /\ UNCHANGED <<kb, content, kbFile, reported>> /\ job[th] \in Job
      /\ pc' = [pc EXCEPT ![th] = "write"]
      /\ clashed' = (clashed \/ \E u \in Thread : pc[u] = "write" /\ job[u].id = job[th].id)
  BY JobsFit DEF ReadOld, memory, files
<1>2. job' = [job EXCEPT ![th] = j]
  <2>1. job \in [Thread -> Job]
    BY DEF TypesIInv, ThreadsOK
  <2> QED BY <2>1 DEF ReadOld
<1>3. j.old = content[job[th].id] /\ j.id = job[th].id /\ j.op = job[th].op
  BY <1>1, JobEdits
<1> HIDE DEF j
<1>4. \A u \in Thread : ~(pc[u] = "write" /\ job[u].id = j.id)
  BY <1>1, <1>3, Zenon
<1>5. Listed(job[th].id, kb)
  BY <1>1 DEF Safe, Holds, Merging
<1>6. Holds("write", j, kb', content', kbFile')
  BY <1>1, <1>3, <1>5 DEF Holds, Merging, Saved, NoAdd
<1>7. /\ \A u \in Thread \ {th} : Holds(pc[u], job[u], kb', content', kbFile')
      /\ \A t \in reported' : Kept(t, kb', content', kbFile')
  BY <1>1 DEF Safe
<1> QED BY <1>1, <1>2, <1>3, <1>4, <1>6, <1>7, SafeStep

LEMMA WriteMergedSafe ==
  ASSUME TypesIInv, Safe, NEW th \in Thread, WriteMerged(th)
  PROVE  Safe'
<1> DEFINE x == job[th].id
           t0 == job[th].text
<1>1. /\ pc[th] = "write" /\ UNCHANGED <<kb, kbFile, reported>>
      /\ content' = [content EXCEPT ![x] = job[th].old \union {t0}]
      /\ pc' = [pc EXCEPT ![th] = "saveMerge"] /\ job' = [job EXCEPT ![th] = job[th]]
  BY DEF WriteMerged, files, Go, history
<1>2. x \in Id /\ Listed(x, kb) /\ job[th].old = content[x]
  BY <1>1, JobsFit DEF JobFits, Safe, Holds, Merging
<1>3. /\ content'[x] = content[x] \union {t0}
      /\ \A y \in Id : y # x => content'[y] = content[y]
  BY <1>1, <1>2 DEF TypesIInv, DataOK
<1> HIDE DEF x, t0
<1>4. \A y \in Id : content[y] \subseteq content'[y]
  BY <1>3
<1>5. \A t : Kept(t, kb, content, kbFile) => Kept(t, kb', content', kbFile')
  <2>1. \A i \in DOMAIN kb : kb[i] \in Id
    BY ItemAt DEF TypesIInv
  <2> QED BY <1>1, <1>4, <2>1 DEF Kept, InFile, InList
<1>6. \A t \in reported' : Kept(t, kb', content', kbFile')
  BY <1>1, <1>5 DEF Safe
<1>7. Holds("saveMerge", job[th], kb', content', kbFile')
  BY <1>1, <1>2, <1>3 DEF Holds, Merging, Saved, NoAdd, x, t0
<1>8. ASSUME NEW u \in Thread \ {th} PROVE Holds(pc[u], job[u], kb', content', kbFile')
  <2>1. Holds(pc[u], job[u], kb, content, kbFile)
    BY DEF Safe
  <2>2. \A y : Listed(y, kb) => y \in Id
    BY ItemAt DEF TypesIInv, Listed
  <2>3. pc[u] = "write" => job[u].id # x
    BY <1>1 DEF Safe, OneWrites, x
  <2>4. pc[u] = "write" => job[u].old = content'[job[u].id]
    BY <1>3, <2>1, <2>2, <2>3 DEF Holds, Merging
  <2>5. pc[u] \in {"saveMerge", "saveAdd"} => job[u].text \in content'[job[u].id]
    BY <1>4, <2>1, <2>2 DEF Holds, Merging
  <2> QED BY <1>1, <1>5, <2>1, <2>4, <2>5 DEF Holds
<1> QED BY <1>1, <1>6, <1>7, <1>8, SafeStep

LEMMA AppendSafe ==
  ASSUME TypesIInv, Safe, NEW th \in Thread, AppendItem(th)
  PROVE  Safe'
<1> DEFINE n == items + 1
           j == [job[th] EXCEPT !.id = n]
<1>1. /\ pc[th] = "append" /\ UNCHANGED <<kbFile, reported>> /\ job[th] \in Job
      /\ kb' = Append(kb, n)
      /\ content' = [content EXCEPT ![n] = {job[th].text}]
      /\ pc' = [pc EXCEPT ![th] = "saveAdd"] /\ job' = [job EXCEPT ![th] = j]
  <2>1. items' = n
    BY DEF AppendItem
  <2> QED BY <2>1, JobsFit DEF AppendItem, files, Go, history
<1>2. n \in Id /\ items \in Nat
  <2>1. pc[th] \in BeforeAppend
    BY <1>1 DEF BeforeAppend
  <2>2. items \in Nat
    BY DEF TypesIInv, CountersOK
  <2> QED BY <2>1, <2>2, ItemsBounded DEF TypesIInv
<1>3. /\ \A i \in DOMAIN kb : i \in DOMAIN kb' /\ kb'[i] = kb[i] /\ kb[i] \in Id /\ kb[i] # n
      /\ \E i \in DOMAIN kb' : kb'[i] = n
  <2>1. kb \in Seq(Id) /\ Len(kb) \in Nat /\ DOMAIN kb = 1..Len(kb)
    BY LenProperties DEF TypesIInv, DataOK, Numbered
  <2>2. /\ DOMAIN kb' = 1..(Len(kb) + 1) /\ \A i \in 1..Len(kb) : kb'[i] = kb[i]
        /\ kb'[Len(kb) + 1] = n
    BY <1>1, <1>2, <2>1
  <2>3. \A i \in DOMAIN kb : kb[i] \in Nat /\ kb[i] <= items
    BY IdsOf DEF TypesIInv, DataOK
  <2>4. \A i \in DOMAIN kb : kb[i] # n
    BY <1>2, <2>3
  <2>5. \A i \in DOMAIN kb : kb[i] \in Id
    BY ItemAt DEF TypesIInv
  <2>6. \A i \in DOMAIN kb : i \in DOMAIN kb'
    BY <2>1, <2>2
  <2>7. Len(kb) + 1 \in DOMAIN kb'
    BY <2>1, <2>2
  <2> QED BY <2>1, <2>2, <2>4, <2>5, <2>6, <2>7
<1>4. content'[n] = {job[th].text} /\ \A y \in Id : y # n => content'[y] = content[y]
  BY <1>1, <1>2 DEF TypesIInv, DataOK
<1>5. j.id = n /\ j.op = job[th].op /\ j.text = job[th].text
  BY <1>1, JobEdits
<1> HIDE DEF n, j
<1>6. \A t : Kept(t, kb, content, kbFile) => Kept(t, kb', content', kbFile')
  <2>1. \A i \in DOMAIN kb : content'[kb'[i]] = content[kb[i]]
    BY <1>3, <1>4
  <2> QED BY <1>1, <1>3, <2>1 DEF Kept, InFile, InList
<1>7. \A t \in reported' : Kept(t, kb', content', kbFile')
  BY <1>1, <1>6 DEF Safe
<1>8. Holds("saveAdd", j, kb', content', kbFile')
  BY <1>1, <1>3, <1>4, <1>5 DEF Holds, Merging, Saved, NoAdd, Listed
<1>9. ASSUME NEW u \in Thread \ {th} PROVE Holds(pc[u], job[u], kb', content', kbFile')
  <2>1. Holds(pc[u], job[u], kb, content, kbFile)
    BY DEF Safe
  <2>2. \A y : Listed(y, kb) => y \in Id /\ y # n /\ Listed(y, kb')
    BY <1>3 DEF Listed
  <2>3. pc[u] # "replace"
    <3>1. pc[u] = "replace" => job[u].op = "replace"
      BY <2>1 DEF Holds
    <3>2. pc[th] # "idle"
      BY <1>1
    <3> QED BY <3>1, <3>2 DEF Safe, OneReplaces
  <2>4. pc[u] = "write" => job[u].old = content'[job[u].id]
    BY <1>4, <2>1, <2>2 DEF Holds, Merging
  <2>5. pc[u] \in {"saveMerge", "saveAdd"} => job[u].text \in content'[job[u].id]
    BY <1>4, <2>1, <2>2 DEF Holds, Merging
  <2> QED BY <1>1, <1>6, <2>1, <2>2, <2>3, <2>4, <2>5 DEF Holds
<1> QED BY <1>1, <1>5, <1>7, <1>8, <1>9, SafeStep

LEMMA SaveSafe ==
  ASSUME TypesIInv, Safe, NEW th \in Thread, SaveKnowledge(th)
  PROVE  Safe'
<1>1. /\ pc[th] \in {"saveMerge", "saveAdd", "saveKept", "saveSearch"} /\ job[th] \in Job
      /\ kbFile' = [i \in DOMAIN kb |-> [id |-> kb[i], content |-> content[kb[i]]]]
      /\ UNCHANGED <<kb, content>>
  BY JobsFit DEF SaveKnowledge, AfterSave, memory
<1>2. \/ Finish(th) /\ pc[th] = "saveSearch"
      \/ Go(th, job[th], "slice") /\ pc[th] = "saveKept"
      \/ \E to \in {"findRow", "embed"} : Go(th, job[th], to) /\ pc[th] \in {"saveMerge", "saveAdd"}
  BY <1>1 DEF SaveKnowledge, AfterSave
<1>3. \A t : InList(t, kb, content) => Kept(t, kb', content', kbFile')
  BY <1>1 DEF InList, Kept, InFile
<1>4. CASE Finish(th) /\ pc[th] = "saveSearch"
  BY <1>1, <1>3, <1>4, EndStep DEF Ending, NoAdd, Kept
<1>5. ASSUME NEW u \in Thread PROVE pc[u] # "idle" => Holds(pc[u], job[u], kb', content', kbFile')
  <2>1. Holds(pc[u], job[u], kb, content, kbFile)
    BY DEF Safe
  <2> QED BY <1>1, <1>3, <2>1 DEF Holds, Kept
<1>6. ASSUME NEW to \in {"findRow", "embed", "slice"}, Go(th, job[th], to),
             Holds(to, job[th], kb', content', kbFile')
      PROVE  Safe'
  <2>1. /\ pc' = [pc EXCEPT ![th] = to] /\ job' = [job EXCEPT ![th] = job[th]]
        /\ reported' = reported
    BY <1>6 DEF Go, history
  <2>2. \A t \in reported' : Kept(t, kb', content', kbFile')
    BY <1>3, <2>1 DEF Safe, Kept
  <2>3. \A u \in Thread \ {th} : Holds(pc[u], job[u], kb', content', kbFile')
    BY <1>1, <1>3, <1>5 DEF Safe, Holds, Merging, Saved, NoAdd
  <2> QED BY <1>1, <1>6, <2>1, <2>2, <2>3, SafeStep
<1>7. CASE Go(th, job[th], "slice") /\ pc[th] = "saveKept"
  <2>1. Holds("slice", job[th], kb', content', kbFile')
    BY <1>7 DEF Safe, Holds, NoAdd, Merging, Saved
  <2> QED BY <1>6, <1>7, <2>1
<1>8. ASSUME NEW to \in {"findRow", "embed"}, Go(th, job[th], to), pc[th] \in {"saveMerge", "saveAdd"}
      PROVE  Safe'
  <2>1. job[th].text \in content[job[th].id] /\ Listed(job[th].id, kb)
    BY <1>8 DEF Safe, Holds, Merging
  <2>2. InList(job[th].text, kb, content)
    BY <2>1 DEF Listed, InList
  <2>3. Holds(to, job[th], kb', content', kbFile')
    BY <1>3, <2>2 DEF Holds, NoAdd, Merging, Saved
  <2> QED BY <1>6, <1>8, <2>3
<1> QED BY <1>2, <1>4, <1>7, <1>8

\* The steps after the save of the list, whose text is in the store.
LEMMA VectorSafe ==
  ASSUME TypesIInv, Safe, NEW th \in Thread,
         \/ FindRow(th) \/ Reembed(th) \/ ReadMatrix(th) \/ Stack(th)
         \/ WriteVectors(th) \/ VectorsWritten(th) \/ SaveMeta(th)
         \/ EmbedFails(th) \/ WriteRaises(th) \/ SaveMetaRaises(th)
  PROVE  Safe'
<1>1. pc[th] \in Saved /\ job[th] \in Job
  BY JobsFit DEF FindRow, Reembed, ReadMatrix, Stack, WriteVectors, VectorsWritten, SaveMeta,
     EmbedFails, WriteRaises, SaveMetaRaises, Saved
<1>2. UNCHANGED <<kb, content, kbFile>>
  BY Zenon DEF FindRow, Reembed, ReadMatrix, Stack, WriteVectors, VectorsWritten, SaveMeta,
     EmbedFails, WriteRaises, SaveMetaRaises, SavingFails, memory, files
<1>3. \/ Finish(th)
      \/ \E to \in Saved : \E j \in {job[th], [job[th] EXCEPT !.rows = vecs]} \union
           {[job[th] EXCEPT !.at = i, !.old = content[job[th].id]] : i \in DOMAIN kb} :
           Go(th, j, to)
  <2>1. CASE FindRow(th)
    BY <2>1 DEF FindRow, Saved
  <2>2. CASE ReadMatrix(th) \/ WriteVectors(th)
    BY <2>2 DEF ReadMatrix, WriteVectors, Saved
  <2>3. CASE Reembed(th) \/ Stack(th) \/ VectorsWritten(th)
    BY <2>3 DEF Reembed, Stack, VectorsWritten, Saved
  <2>4. CASE SaveMeta(th) \/ EmbedFails(th) \/ WriteRaises(th) \/ SaveMetaRaises(th)
    BY <2>4 DEF SaveMeta, EmbedFails, WriteRaises, SaveMetaRaises, SavingFails
  <2> QED BY <2>1, <2>2, <2>3, <2>4
<1>4. CASE Finish(th)
  BY <1>1, <1>2, <1>4, EndStep DEF Ending
<1>5. ASSUME NEW to \in Saved, NEW j, Go(th, j, to), j.op = job[th].op, j.text = job[th].text
      PROVE  Safe'
  <2>1. job[th].text = NoText \/ Kept(job[th].text, kb, content, kbFile)
    BY <1>1 DEF Safe, Holds
  <2>2. Holds(to, j, kb, content, kbFile)
    BY <1>5, <2>1 DEF Holds, Merging, Saved, NoAdd
  <2>3. pc[th] # "idle" /\ to # "write"
    BY <1>1 DEF Saved
  <2> QED BY <1>2, <1>5, <2>2, <2>3, QuietStep
<1>6. ASSUME NEW to \in Saved, NEW j, Go(th, j, to),
             j \in {job[th], [job[th] EXCEPT !.rows = vecs]} \union
                   {[job[th] EXCEPT !.at = i, !.old = content[job[th].id]] : i \in DOMAIN kb}
      PROVE  Safe'
  <2>1. j.op = job[th].op /\ j.text = job[th].text
    <3>1. CASE j = job[th]
      BY <3>1
    <3>2. CASE j = [job[th] EXCEPT !.rows = vecs]
      BY <1>1, <3>2, JobEdits
    <3>3. CASE \E i \in DOMAIN kb : j = [job[th] EXCEPT !.at = i, !.old = content[job[th].id]]
      BY <1>1, <3>3, JobEdits
    <3> QED BY <1>6, <3>1, <3>2, <3>3
  <2> QED BY <1>5, <1>6, <2>1
<1> QED BY <1>3, <1>4, <1>6

LEMMA SaveRaisesSafe ==
  ASSUME TypesIInv, Safe, NEW th \in Thread, SaveRaises(th)
  PROVE  Safe'
<1>1. Raise(th) /\ pc[th] # "idle" /\ UNCHANGED <<kb, content, kbFile>>
  BY DEF SaveRaises, AfterSave, memory, files
<1>2. \A t : InFile(t, kbFile) /\ InList(t, kb, content) => InFile(t, kbFile')
  BY <1>1
<1> QED BY <1>1, <1>2, EndStep

\* Cleaning up takes from the reported texts those it drops.
LEMMA ReplaceSafe ==
  ASSUME TypesIInv, Safe, Replace
  PROVE  Safe'
<1> DEFINE was == job[Main].rows
<1>1. /\ pc[Main] = "replace" /\ UNCHANGED <<content, kbFile>>
      /\ reported' = reported \ (Texts(ItemsOf(was)) \ Texts(ItemsOf(kb')))
      /\ pc' = [pc EXCEPT ![Main] = "saveKept"]
  BY DEF Replace, files
<1>2. job' = [job EXCEPT ![Main] = job[Main]]
  BY ThreadAssumption DEF Replace, TypesIInv, ThreadsOK
<1>3. was = kb /\ job[Main].op = "replace" /\ job[Main].text = NoText
  BY <1>1, ThreadAssumption DEF Safe, Holds, NoAdd
<1>4. \A u \in Thread \ {Main} : pc[u] = "idle"
  BY <1>3, ThreadAssumption DEF Safe, OneReplaces
<1> HIDE DEF was
<1>5. \A t \in reported' : Kept(t, kb', content', kbFile')
  <2> SUFFICES ASSUME NEW t \in reported' PROVE Kept(t, kb', content', kbFile')
    OBVIOUS
  <2>1. Kept(t, kb, content, kbFile)
    BY <1>1 DEF Safe
  <2>2. t \in Texts(ItemsOf(was))
    BY <1>3, <2>1 DEF Kept, InList, Texts, ItemsOf
  <2>3. t \in Texts(ItemsOf(kb'))
    BY <1>1, <2>2
  <2>4. InList(t, kb', content)
    BY <2>3 DEF InList, Texts, ItemsOf
  <2> QED BY <1>1, <2>1, <2>4 DEF Kept
<1>6. Holds("saveKept", job[Main], kb', content', kbFile')
  BY <1>3 DEF Holds, Merging, Saved, NoAdd
<1>7. ASSUME NEW u \in Thread \ {Main} PROVE Holds(pc[u], job[u], kb', content', kbFile')
  <2>1. pc[u] = "idle" /\ Holds(pc[u], job[u], kb, content, kbFile)
    BY <1>4 DEF Safe
  <2> QED BY <2>1 DEF Holds, Merging, Saved, NoAdd
<1>8. pc[Main] # "idle" /\ "saveKept" # "write"
  BY <1>1
<1> QED BY <1>1, <1>2, <1>5, <1>6, <1>7, <1>8, ThreadAssumption, SafeStep

LEMMA MainSafe ==
  ASSUME TypesIInv, Safe, Slice \/ Load \/ Rebuild \/ RebuildFails
  PROVE  Safe'
<1>1. /\ pc[Main] \in {"slice", "load", "rebuild"} /\ UNCHANGED <<kb, content, kbFile>>
      /\ Main \in Thread /\ job[Main].text = NoText
  <2>1. pc[Main] \in {"slice", "load", "rebuild"}
    BY DEF Slice, Load, Rebuild, RebuildFails
  <2>2. UNCHANGED <<kb, content, kbFile>>
    BY Zenon DEF Slice, Load, Rebuild, RebuildFails, memory, files
  <2> QED BY <2>1, <2>2, ThreadAssumption DEF Safe, Holds, NoAdd
<1>2. \/ Finish(Main) \/ Raise(Main)
      \/ \E to \in {"saveVectors", "rebuild"}, j \in {job[Main], NoJob} : Go(Main, j, to)
  <2>1. CASE Slice
    BY <2>1 DEF Slice
  <2>2. CASE ~Slice
    BY <2>2 DEF Load, Rebuild, RebuildFails
  <2> QED BY <2>1, <2>2
<1>3. CASE Finish(Main) \/ Raise(Main)
  BY <1>1, <1>3, EndStep DEF Ending, NoAdd
<1>4. ASSUME NEW to \in {"saveVectors", "rebuild"}, NEW j \in {job[Main], NoJob}, Go(Main, j, to)
      PROVE  Safe'
  <2>1. j.text = NoText /\ (j.op = job[Main].op \/ j.op = "none")
    BY <1>1 DEF NoJob
  <2>2. Holds(to, j, kb, content, kbFile) /\ to # "write" /\ pc[Main] # "idle"
    BY <1>1, <2>1 DEF Holds, Merging, Saved, NoAdd
  <2> QED BY <1>1, <1>4, <2>1, <2>2, QuietStep
<1> QED BY <1>2, <1>3, <1>4

\* A crash falls back on the file.
LEMMA CrashSafe ==
  ASSUME TypesIInv, Safe, Crash
  PROVE  Safe'
<1>1. /\ kb' = [i \in DOMAIN kbFile |-> kbFile[i].id]
      /\ content' = [n \in Id |-> UNION {f.content : f \in {g \in ItemsOf(kbFile) : g.id = n}}]
      /\ pc' = [th \in Thread |-> IF th = Main THEN "load" ELSE "idle"]
      /\ job' = [th \in Thread |-> NoJob]
      /\ UNCHANGED <<kbFile, reported>>
  BY DEF Crash
<1>2. ASSUME NEW t, InFile(t, kbFile) PROVE InList(t, kb', content')
  <2>1. PICK i \in DOMAIN kbFile : t \in kbFile[i].content
    BY <1>2 DEF InFile
  <2>2. kbFile[i].id \in Id
    <3>1. kbFile \in Seq([id : Id, content : SUBSET Text])
      BY DEF TypesIInv, DataOK
    <3>2. kbFile[i] \in [id : Id, content : SUBSET Text]
      BY <3>1, ElementOfSeq, LenProperties
    <3> QED BY <3>2
  <2>3. kbFile[i] \in {g \in ItemsOf(kbFile) : g.id = kbFile[i].id}
    BY DEF ItemsOf
  <2>4. t \in content'[kbFile[i].id]
    BY <1>1, <2>1, <2>2, <2>3
  <2>5. i \in DOMAIN kb' /\ kb'[i] = kbFile[i].id
    BY <1>1
  <2> QED BY <2>4, <2>5 DEF InList
<1>3. \A t \in reported' : Kept(t, kb', content', kbFile')
  BY <1>1, <1>2 DEF Safe, Kept
<1>4. NoJob.text = NoText /\ NoJob.op = "none"
  BY DEF NoJob
<1>5. \A th \in Thread : Holds(pc'[th], job'[th], kb', content', kbFile')
  BY <1>1, <1>4 DEF Holds, Merging, Saved, NoAdd
<1>6. OneReplaces' /\ OneWrites'
  BY <1>1, <1>4 DEF OneReplaces, OneWrites
<1> QED BY <1>3, <1>5, <1>6 DEF Safe

LEMMA ClashedStays == ASSUME TypesIInv, Next, clashed PROVE clashed'
<1> USE DEF TypesIInv, FlagsOK
<1>1. ASSUME NEW th \in Thread, NEW j, NEW to,
             Begin(th, j, to) \/ Go(th, j, to) \/ Finish(th) \/ Raise(th)
      PROVE  clashed'
  BY <1>1, Zenon DEF Begin, Go, Finish, Raise, history
<1>2. ASSUME NEW th \in Thread, SearchKnowledge(th) \/ \E t \in Text : AddKnowledge(th, t) PROVE clashed'
  BY <1>1, <1>2, Zenon DEF SearchKnowledge, AddKnowledge
<1>3. CASE CleanupStaleKnowledge
  BY <1>1, <1>3, ThreadAssumption, Zenon DEF CleanupStaleKnowledge
<1>4. CASE Replace \/ Crash
  BY <1>4, Zenon DEF Replace, Crash
<1>5. CASE Slice
  <2>1. Go(Main, job[Main], "saveVectors") \/ Finish(Main) \/ Raise(Main)
    BY <1>5 DEF Slice
  <2> QED BY <1>1, <2>1, ThreadAssumption, Zenon
<1>6. CASE Load \/ Rebuild \/ RebuildFails
  BY <1>1, <1>6, ThreadAssumption, Zenon DEF Load, Rebuild, RebuildFails
<1>7. ASSUME NEW th \in Thread, Step(th) PROVE clashed'
  <2>1. CASE ReadOld(th)
    BY <2>1, Zenon DEF ReadOld
  <2>2. CASE ~ReadOld(th)
    <3>1. (\E j, to : Go(th, j, to)) \/ Finish(th) \/ Raise(th)
      BY <1>7, <2>2 DEF Step, LookUp, Compare, CompareFails, WriteMerged, AppendItem,
         SaveKnowledge, SaveRaises, FindRow, Reembed, ReadMatrix, Stack, EmbedFails,
         WriteVectors, VectorsWritten, WriteRaises, SaveMeta, SaveMetaRaises, SavingFails
    <3> QED BY <1>1, <3>1, Zenon
  <2> QED BY <2>1, <2>2
<1> QED BY <1>2, <1>3, <1>4, <1>5, <1>6, <1>7, Zenon DEF Next

LEMMA ReportedStep == ASSUME TypesIInv, ReportedIInv, Next PROVE ReportedIInv'
<1> SUFFICES ASSUME ~clashed' PROVE ReportedIInv'
  BY DEF ReportedIInv
<1>1. Safe
  BY ClashedStays, Zenon DEF ReportedIInv
<1>2. ASSUME NEW th \in Thread, SearchKnowledge(th) PROVE ReportedIInv'
  BY <1>2, SearchSafe DEF SearchKnowledge
<1>3. ASSUME NEW th \in Thread, NEW t \in Text, AddKnowledge(th, t) PROVE ReportedIInv'
  <2>1. [NoJob EXCEPT !.text = t].op = "none"
    BY DEF NoJob
  <2> QED BY <1>3, <2>1, SearchSafe DEF AddKnowledge
<1>4. CASE CleanupStaleKnowledge
  <2>1. PICK kept \in SUBSET DOMAIN kb : Begin(Main, Replacing(NoJob, kept, kb), "replace")
    BY <1>4 DEF CleanupStaleKnowledge, Replacing
  <2>2. kept \in SUBSET Nat /\ kb \in Seq(Id) /\ NoJob \in Job /\ NoJob.text = NoText
    <3>1. kb \in Seq(Id)
      BY DEF TypesIInv, DataOK, Numbered
    <3>2. NoJob.text = NoText
      BY DEF NoJob
    <3> QED BY <3>1, <3>2, JobsFit, ThreadAssumption
  <2> DEFINE j == Replacing(NoJob, kept, kb)
  <2>3. j.op = "replace" /\ j.rows = kb /\ j.text = NoText
    BY <2>2, ReplaceJob
  <2> HIDE DEF j
  <2> QED BY <2>1, <2>3, ThreadAssumption, SearchSafe DEF j
<1>5. ASSUME NEW th \in Thread, Step(th) PROVE Safe'
  BY <1>1, <1>5, LookUpSafe, ReadOldSafe, WriteMergedSafe, AppendSafe, SaveSafe, SaveRaisesSafe,
     VectorSafe, Zenon DEF Step
<1>6. CASE Replace \/ Slice \/ Crash \/ Load \/ Rebuild \/ RebuildFails
  BY <1>1, <1>6, ReplaceSafe, MainSafe, CrashSafe DEF ReportedIInv
<1> QED BY <1>2, <1>3, <1>4, <1>5, <1>6, Zenon DEF Next, ReportedIInv

LEMMA ReportedInit == ASSUME Init PROVE ReportedIInv
<1>1. NoJob.op = "none"
  BY DEF NoJob
<1> QED BY <1>1 DEF Init, ReportedIInv, Safe, Holds, Merging, Saved, NoAdd, OneReplaces, OneWrites

\* long_term.py add_knowledge: what it reported is in the file, through faults,
\* crashes and adds of other threads, unless a cleanup dropped it, two merges
\* into one item overlapped, or a cleanup met another operation.
THEOREM ReportedTextsKept == Spec => []ReportedIsKept
<1>1. ASSUME TypesIInv, ReportedIInv, [Next]_vars PROVE ReportedIInv'
  <2>1. CASE UNCHANGED vars
    BY <1>1, <2>1 DEF vars, ReportedIInv, Safe, Holds, Kept, InFile, InList, Listed,
       OneReplaces, OneWrites
  <2> QED BY <1>1, <2>1, ReportedStep
<1> QED BY <1>1, ReportedInit, TypesInvariance, SafeImplies, PTL DEF Spec
-----------------------------------------------------------------------------
\* AlignedUnlessDisturbed.  While nothing disturbs the store one thread at most
\* is in it, and where that thread stands says how far the list, its file, the
\* matrix and the files of the matrix are from each other.

Calm == faults = 0 /\ ~disturbed
Full == \A i \in DOMAIN kb : content[kb[i]] # {}
FileFull == \A i \in DOMAIN kbFile : kbFile[i].content # {}
Synced == kbFile = [i \in DOMAIN kb |-> [id |-> kb[i], content |-> content[kb[i]]]]
Even == Len(vecs) = Len(kb)
Behind == Len(kb) = Len(vecs) + 1
Rows == \A i \in DOMAIN vecs : vecs[i] # {} /\ vecs[i] \subseteq content[kb[i]]
Fresh == crashes = 0 => \A i \in DOMAIN vecs : vecs[i] = content[kb[i]]
OnDisk == vecWhole /\ vecFile = vecs /\ metaLen = Len(vecs)
Rest == Synced /\ Even /\ Rows /\ Fresh /\ OnDisk

\* The matrix in the file is of the list in the file if the lengths agree.
DiskOK ==
  /\ vecWhole /\ metaLen = Len(kbFile) /\ metaLen = Len(vecFile) =>
       \A i \in DOMAIN kbFile : vecFile[i] # {} /\ vecFile[i] \subseteq kbFile[i].content
  /\ kbFile = <<>> => vecWhole /\ metaLen = 0 /\ vecFile = <<>>

\* Only the row of the item that th merges into may be out of date.
FreshBut(th) ==
  crashes = 0 => \A i \in DOMAIN vecs : kb[i] # job[th].id => vecs[i] = content[kb[i]]
FileOlder ==
  FileIds = kb /\ \A i \in DOMAIN kb : kbFile[i].content \subseteq content[kb[i]]
Last(th) == content[kb[Len(kb)]] = {job[th].text}
Merged(th) == Listed(job[th].id, kb)
\* The rows are still those of the list that th is cleaning up.
Cleaning(th) ==
  /\ job[th].rows \in Seq(Id) /\ Len(job[th].rows) = Len(vecs)
  /\ job[th].kept # {} /\ job[th].kept \subseteq DOMAIN vecs /\ job[th].kept # DOMAIN vecs
  /\ kb = Pick(job[th].rows, job[th].kept)
  /\ \A i \in DOMAIN vecs : /\ vecs[i] # {} /\ vecs[i] \subseteq content[job[th].rows[i]]
                            /\ crashes = 0 => vecs[i] = content[job[th].rows[i]]

Phase(th) ==
  /\ pc[th] \in {"lookUp", "compare", "append", "saveSearch", "merge", "write", "replace"} => Rest
  /\ pc[th] \in {"merge", "write", "saveMerge", "findRow"} => Merged(th)
  /\ pc[th] = "write" => job[th].old = content[job[th].id]
  /\ pc[th] = "saveMerge" => Even /\ Rows /\ FreshBut(th) /\ OnDisk /\ FileOlder
  /\ pc[th] \in {"findRow", "reembed"} => Synced /\ Even /\ Rows /\ FreshBut(th)
  /\ pc[th] = "reembed" => /\ job[th].at \in DOMAIN kb /\ kb[job[th].at] = job[th].id
                           /\ job[th].old = content[job[th].id]
  /\ pc[th] = "saveAdd" => Behind /\ Rows /\ Fresh /\ OnDisk /\ Last(th)
  /\ pc[th] \in {"embed", "stack"} => Synced /\ Behind /\ Rows /\ Fresh /\ Last(th)
  /\ pc[th] = "replace" => /\ job[th].rows = kb /\ job[th].kept # {}
                           /\ job[th].kept \subseteq DOMAIN kb /\ job[th].kept # DOMAIN kb
  /\ pc[th] \in {"saveKept", "slice"} => Cleaning(th)
  /\ pc[th] = "saveKept" => OnDisk
  /\ pc[th] = "slice" => Synced
  /\ pc[th] \in {"saveVectors", "writing", "saveMeta"} =>
       Synced /\ Even /\ Rows /\ Fresh /\ kb # <<>>
  /\ pc[th] \in {"stack", "writing"} => job[th].rows = vecs
  /\ pc[th] = "saveMeta" => vecFile = vecs /\ vecWhole
  /\ pc[th] \in {"load", "rebuild"} => Synced /\ vecs = <<>> /\ crashes > 0
  /\ pc[th] = "rebuild" => kb # <<>>
Solo == \A th, u \in Thread : pc[th] # "idle" /\ pc[u] # "idle" => th = u
AtRest == (\A th \in Thread : pc[th] = "idle") => Rest
Undisturbed == Solo /\ DiskOK /\ FileFull /\ Full /\ AtRest /\ \A th \in Thread : Phase(th)
AlignedIInv == Calm => Undisturbed

LEMMA AlignedImplies == TypesIInv /\ AlignedIInv => AlignedUnlessDisturbed
<1> SUFFICES ASSUME TypesIInv, AlignedIInv, Calm, \A th \in Thread : pc[th] = "idle"
             PROVE  /\ Len(vecs) = Len(kb)
                    /\ \A i \in DOMAIN kb : /\ vecs[i] # {} /\ vecs[i] \subseteq content[kb[i]]
                                            /\ crashes = 0 => vecs[i] = content[kb[i]]
  BY DEF AlignedUnlessDisturbed, Calm
<1>1. Even /\ Rows /\ Fresh
  BY DEF AlignedIInv, Undisturbed, AtRest, Rest
<1>2. DOMAIN vecs = DOMAIN kb
  <2>1. DOMAIN vecs = 1..Len(vecs) /\ DOMAIN kb = 1..Len(kb)
    BY LenProperties DEF TypesIInv, DataOK, Numbered
  <2> QED BY <1>1, <2>1 DEF Even
<1> QED BY <1>1, <1>2 DEF Even, Rows, Fresh

\* A step of the thread in the store, that goes on ...
LEMMA AlignedGoes ==
  ASSUME TypesIInv, NEW th \in Thread, \A u \in Thread \ {th} : pc[u] = "idle",
         NEW to \in Labels \ {"idle"}, pc' = [pc EXCEPT ![th] = to],
         Phase(th)', DiskOK', FileFull', Full'
  PROVE  Undisturbed'
<1>1. pc'[th] = to /\ \A u \in Thread \ {th} : pc'[u] = "idle"
  BY DEF TypesIInv, ThreadsOK
<1>2. ASSUME NEW u \in Thread PROVE Phase(u)'
  <2>1. CASE u = th
    BY <2>1
  <2>2. CASE u # th
    <3>1. pc'[u] = "idle"
      BY <1>1, <2>2
    <3> QED BY <3>1 DEF Phase
  <2> QED BY <2>1, <2>2
<1>3. Solo' /\ AtRest'
  BY <1>1 DEF Solo, AtRest
<1> QED BY <1>2, <1>3 DEF Undisturbed

\* ... or leaves it.
LEMMA AlignedEnds ==
  ASSUME TypesIInv, NEW th \in Thread, \A u \in Thread \ {th} : pc[u] = "idle",
         pc' = [pc EXCEPT ![th] = "idle"], Rest', DiskOK', FileFull', Full'
  PROVE  Undisturbed'
<1>1. \A u \in Thread : pc'[u] = "idle"
  BY DEF TypesIInv, ThreadsOK
<1>2. \A u \in Thread : Phase(u)'
  BY <1>1 DEF Phase
<1>3. Solo' /\ AtRest'
  BY <1>1 DEF Solo, AtRest
<1> QED BY <1>2, <1>3 DEF Undisturbed

LEMMA Alone ==
  ASSUME Undisturbed, NEW th \in Thread, pc[th] # "idle"
  PROVE  Phase(th) /\ \A u \in Thread \ {th} : pc[u] = "idle"
BY DEF Undisturbed, Solo

LEMMA BeginAligned ==
  ASSUME TypesIInv, AlignedIInv, Calm', NEW th \in Thread, NEW to, NEW j, Begin(th, j, to),
         \/ to \in {"lookUp", "saveSearch"}
         \/ to = "replace" /\ j \in Job /\ j.rows = kb /\ j.kept \in (SUBSET DOMAIN kb) \ {DOMAIN kb}
  PROVE  Undisturbed'
<1>1. /\ pc' = [pc EXCEPT ![th] = to] /\ job' = [job EXCEPT ![th] = j] /\ pc[th] = "idle"
      /\ UNCHANGED <<kb, content, vecs, kbFile, vecFile, vecWhole, metaLen, faults, crashes>>
      /\ disturbed' = (disturbed \/ {u \in Thread : pc[u] # "idle"} # {}
                                 \/ (to = "replace" /\ j.kept = {}))
  BY DEF Begin, memory, files
<1>2. Calm /\ (\A u \in Thread : pc[u] = "idle") /\ (to = "replace" => j.kept # {})
  <2>1. faults' = 0 /\ ~disturbed'
    BY DEF Calm
  <2>2. ~disturbed /\ {u \in Thread : pc[u] # "idle"} = {} /\ (to = "replace" => j.kept # {})
    BY <1>1, <2>1, Zenon
  <2> QED BY <1>1, <2>1, <2>2 DEF Calm
<1>3. Rest /\ DiskOK /\ FileFull /\ Full
  BY <1>2 DEF AlignedIInv, Undisturbed, AtRest
<1>4. Rest' /\ DiskOK' /\ FileFull' /\ Full'
  BY <1>1, <1>3 DEF Rest, Synced, Even, Rows, Fresh, OnDisk, DiskOK, FileFull, Full
<1>5. pc'[th] = to /\ job'[th] = j
  BY <1>1 DEF TypesIInv, ThreadsOK
<1>6. to \in Labels \ {"idle"}
  BY DEF Labels
<1>7. Phase(th)'
  BY <1>1, <1>2, <1>4, <1>5 DEF Phase
<1> QED BY <1>1, <1>2, <1>4, <1>6, <1>7, AlignedGoes

LEMMA SameStore ==
  ASSUME DiskOK, FileFull, Full,
         UNCHANGED <<kb, content, kbFile, vecFile, vecWhole, metaLen>>
  PROVE  DiskOK' /\ FileFull' /\ Full'
BY DEF DiskOK, FileFull, Full

LEMMA LookUpAligned ==
  ASSUME TypesIInv, Undisturbed, NEW th \in Thread, LookUp(th) \/ Compare(th)
  PROVE  Undisturbed'
<1>1. /\ pc[th] \in {"lookUp", "compare"} /\ job[th] \in Job
      /\ UNCHANGED <<kb, content, vecs, kbFile, vecFile, vecWhole, metaLen>>
  BY JobsFit DEF LookUp, Compare, memory, files
<1>2. \/ \E i \in DOMAIN kb : Go(th, [job[th] EXCEPT !.id = kb[i]], "merge")
      \/ \E to \in {"append", "compare"} : Go(th, job[th], to)
  <2> DEFINE holds == {i \in DOMAIN kb : job[th].text \in content[kb[i]]}
  <2>1. CASE LookUp(th)
    <3>1. CASE holds # {}
      BY <2>1, <3>1 DEF LookUp
    <3>2. CASE holds = {}
      BY <2>1, <3>2 DEF LookUp
    <3> QED BY <3>1, <3>2
  <2>2. CASE Compare(th)
    BY <2>2 DEF Compare
  <2> QED BY <2>1, <2>2
<1>3. crashes' = crashes
  BY <1>2 DEF Go, history
<1>4. Rest /\ \A u \in Thread \ {th} : pc[u] = "idle"
  BY <1>1, Alone DEF Phase
<1>5. Rest' /\ DiskOK' /\ FileFull' /\ Full'
  <2>1. Rest'
    BY <1>1, <1>3, <1>4 DEF Rest, Synced, Even, Rows, Fresh, OnDisk
  <2> QED BY <1>1, <2>1, SameStore DEF Undisturbed
<1>6. ASSUME NEW i \in DOMAIN kb, Go(th, [job[th] EXCEPT !.id = kb[i]], "merge")
      PROVE  Undisturbed'
  <2>1. [job[th] EXCEPT !.id = kb[i]].id = kb[i]
    BY <1>1, JobEdits
  <2>2. pc' = [pc EXCEPT ![th] = "merge"] /\ pc'[th] = "merge" /\ job'[th].id = kb[i]
    BY <1>6, <2>1 DEF Go, TypesIInv, ThreadsOK
  <2>3. Phase(th)'
    BY <1>1, <1>5, <2>2 DEF Phase, Merged, Listed
  <2> QED BY <1>4, <1>5, <2>2, <2>3, AlignedGoes DEF Labels
<1>7. ASSUME NEW to \in {"append", "compare"}, Go(th, job[th], to)
      PROVE  Undisturbed'
  <2>1. pc' = [pc EXCEPT ![th] = to] /\ pc'[th] = to
    BY <1>7 DEF Go, TypesIInv, ThreadsOK
  <2>2. Phase(th)'
    BY <1>5, <2>1 DEF Phase
  <2> QED BY <1>4, <1>5, <2>1, <2>2, AlignedGoes DEF Labels
<1> QED BY <1>2, <1>6, <1>7

LEMMA ReadOldAligned ==
  ASSUME TypesIInv, Undisturbed, NEW th \in Thread, ReadOld(th)
  PROVE  Undisturbed'
<1> DEFINE j == [job[th] EXCEPT !.old = content[job[th].id]]
<1>1. /\ pc[th] = "merge" /\ job[th] \in Job
      /\ UNCHANGED <<kb, content, vecs, kbFile, vecFile, vecWhole, metaLen, crashes>>
      /\ pc' = [pc EXCEPT ![th] = "write"]
  BY JobsFit DEF ReadOld, memory, files
<1>2. pc'[th] = "write" /\ job'[th] = j
  <2>1. job \in [Thread -> Job] /\ pc \in [Thread -> Labels]
    BY DEF TypesIInv, ThreadsOK
  <2>2. job' = [job EXCEPT ![th] = j]
    BY <2>1 DEF ReadOld
  <2> QED BY <1>1, <2>1, <2>2
<1>3. j.old = content[job[th].id] /\ j.id = job[th].id
  BY <1>1, JobEdits
<1> HIDE DEF j
<1>4. Rest /\ Merged(th) /\ \A u \in Thread \ {th} : pc[u] = "idle"
  BY <1>1, Alone DEF Phase
<1>5. Rest' /\ DiskOK' /\ FileFull' /\ Full'
  <2>1. Rest'
    BY <1>1, <1>4 DEF Rest, Synced, Even, Rows, Fresh, OnDisk
  <2> QED BY <1>1, <2>1, SameStore DEF Undisturbed
<1>6. Phase(th)'
  BY <1>1, <1>2, <1>3, <1>4, <1>5 DEF Phase, Merged, Listed
<1> QED BY <1>1, <1>4, <1>5, <1>6, AlignedGoes DEF Labels

LEMMA Typed ==
  ASSUME TypesIInv
  PROVE  /\ kb \in Seq(Id) /\ Len(kb) \in Nat /\ DOMAIN kb = 1..Len(kb)
         /\ vecs \in Seq(SUBSET Text) /\ Len(vecs) \in Nat /\ DOMAIN vecs = 1..Len(vecs)
         /\ vecFile \in Seq(SUBSET Text) /\ Len(vecFile) \in Nat /\ DOMAIN vecFile = 1..Len(vecFile)
         /\ Len(kbFile) \in Nat /\ DOMAIN kbFile = 1..Len(kbFile)
         /\ content \in [Id -> SUBSET Text] /\ crashes \in Nat
         /\ \A i, k \in DOMAIN kb : kb[i] = kb[k] => i = k
         /\ \A i \in DOMAIN kb : kb[i] \in Id
BY LenProperties, ItemAt, BoundAssumption DEF TypesIInv, DataOK, Numbered

LEMMA WriteMergedAligned ==
  ASSUME TypesIInv, Undisturbed, NEW th \in Thread, WriteMerged(th)
  PROVE  Undisturbed'
<1> DEFINE x == job[th].id
<1>1. /\ pc[th] = "write"
      /\ UNCHANGED <<kb, vecs, kbFile, vecFile, vecWhole, metaLen, crashes>>
      /\ content' = [content EXCEPT ![x] = job[th].old \union {job[th].text}]
      /\ pc' = [pc EXCEPT ![th] = "saveMerge"] /\ job' = [job EXCEPT ![th] = job[th]]
  BY DEF WriteMerged, files, Go, history
<1>2. pc'[th] = "saveMerge" /\ job'[th] = job[th]
  BY <1>1 DEF TypesIInv, ThreadsOK
<1>3. /\ Rest /\ Merged(th) /\ job[th].old = content[x] /\ \A u \in Thread \ {th} : pc[u] = "idle"
      /\ DiskOK /\ FileFull /\ Full
  BY <1>1, Alone DEF Phase, Undisturbed
<1>4. x \in Id
  BY <1>1, JobsFit DEF JobFits
<1>5. /\ \A y \in Id : content[y] \subseteq content'[y]
      /\ \A y \in Id : y # x => content'[y] = content[y]
  BY <1>1, <1>3, <1>4, Typed
<1> HIDE DEF x
<1>6. DiskOK' /\ FileFull' /\ Full'
  <2>1. DiskOK' /\ FileFull'
    BY <1>1, <1>3 DEF DiskOK, FileFull
  <2>2. Full'
    BY <1>1, <1>3, <1>5, Typed DEF Full
  <2> QED BY <2>1, <2>2
<1>7. DOMAIN vecs = DOMAIN kb
  BY <1>3, Typed DEF Rest, Even
<1>8. Even' /\ Rows' /\ OnDisk'
  <2>1. Even' /\ OnDisk'
    BY <1>1, <1>3 DEF Rest, Even, OnDisk
  <2>2. Rows'
    BY <1>1, <1>3, <1>5, <1>7, Typed DEF Rest, Rows
  <2> QED BY <2>1, <2>2
<1>9. FreshBut(th)'
  BY <1>1, <1>2, <1>3, <1>5, <1>7, Typed DEF Rest, Fresh, FreshBut, x
<1>10. FileOlder' /\ Merged(th)'
  <2>1. Merged(th)'
    BY <1>1, <1>2, <1>3 DEF Merged, Listed
  <2>2. kbFile = [i \in DOMAIN kb |-> [id |-> kb[i], content |-> content[kb[i]]]]
    BY <1>3 DEF Rest, Synced
  <2>3. FileIds' = kb
    <3>1. FileIds = [i \in DOMAIN kb |-> kb[i]]
      BY <2>2 DEF FileIds
    <3>2. kb = [i \in DOMAIN kb |-> kb[i]]
      BY Typed
    <3> QED BY <1>1, <3>1, <3>2 DEF FileIds
  <2>4. \A i \in DOMAIN kb : kbFile[i].content \subseteq content'[kb[i]]
    BY <1>5, <2>2, Typed
  <2> QED BY <1>1, <2>1, <2>3, <2>4 DEF FileOlder
<1>11. Phase(th)'
  BY <1>2, <1>8, <1>9, <1>10 DEF Phase
<1> QED BY <1>1, <1>3, <1>6, <1>11, AlignedGoes DEF Labels

LEMMA AppendAligned ==
  ASSUME TypesIInv, Undisturbed, NEW th \in Thread, AppendItem(th)
  PROVE  Undisturbed'
<1> DEFINE n == items + 1
           j == [job[th] EXCEPT !.id = n]
<1>1. /\ pc[th] = "append" /\ job[th] \in Job
      /\ UNCHANGED <<vecs, kbFile, vecFile, vecWhole, metaLen, crashes>>
      /\ kb' = Append(kb, n)
      /\ content' = [content EXCEPT ![n] = {job[th].text}]
      /\ pc' = [pc EXCEPT ![th] = "saveAdd"] /\ job' = [job EXCEPT ![th] = j]
  <2>1. items' = n
    BY DEF AppendItem
  <2> QED BY <2>1, JobsFit DEF AppendItem, files, Go, history
<1>2. n \in Id /\ items \in Nat
  <2>1. pc[th] \in BeforeAppend
    BY <1>1 DEF BeforeAppend
  <2>2. items \in Nat
    BY DEF TypesIInv, CountersOK
  <2> QED BY <2>1, <2>2, ItemsBounded DEF TypesIInv
<1>3. pc'[th] = "saveAdd" /\ job'[th].text = job[th].text
  <2>1. job'[th] = j
    BY <1>1 DEF TypesIInv, ThreadsOK
  <2>2. j.text = job[th].text
    BY <1>1, JobEdits
  <2> QED BY <1>1, <2>1, <2>2 DEF TypesIInv, ThreadsOK
<1>4. /\ Rest /\ DiskOK /\ FileFull /\ Full /\ \A u \in Thread \ {th} : pc[u] = "idle"
  BY <1>1, Alone DEF Phase, Undisturbed
<1>5. /\ Len(kb') = Len(kb) + 1 /\ DOMAIN kb' = 1..(Len(kb) + 1)
      /\ \A i \in DOMAIN kb : i \in DOMAIN kb' /\ kb'[i] = kb[i] /\ content'[kb'[i]] = content[kb[i]]
      /\ kb'[Len(kb) + 1] = n /\ content'[n] = {job[th].text}
  <2>1. /\ Len(kb') = Len(kb) + 1 /\ DOMAIN kb' = 1..(Len(kb) + 1)
        /\ \A i \in 1..Len(kb) : kb'[i] = kb[i]
        /\ kb'[Len(kb) + 1] = n
    BY <1>1, <1>2, Typed
  <2>2. \A i \in DOMAIN kb : kb[i] \in Nat /\ kb[i] <= items
    BY IdsOf DEF TypesIInv, DataOK
  <2>3. \A i \in DOMAIN kb : kb[i] \in Id /\ kb[i] # n
    BY <1>2, <2>2, Typed
  <2>4. content'[n] = {job[th].text} /\ \A y \in Id : y # n => content'[y] = content[y]
    BY <1>1, <1>2, Typed
  <2>5. \A i \in DOMAIN kb : i \in DOMAIN kb' /\ kb'[i] = kb[i]
    BY <2>1, Typed
  <2> QED BY <2>1, <2>3, <2>4, <2>5
<1> HIDE DEF n, j
<1>6. DOMAIN vecs = DOMAIN kb
  BY <1>4, Typed DEF Rest, Even
<1>7. DiskOK' /\ FileFull' /\ Full'
  <2>1. DiskOK' /\ FileFull'
    BY <1>1, <1>4 DEF DiskOK, FileFull
  <2>2. ASSUME NEW i \in DOMAIN kb' PROVE content'[kb'[i]] # {}
    <3>1. CASE i \in DOMAIN kb
      BY <1>4, <1>5, <3>1 DEF Full
    <3>2. CASE i \notin DOMAIN kb
      <4>1. i = Len(kb) + 1
        BY <1>5, <3>2, Typed
      <4> QED BY <1>5, <4>1
    <3> QED BY <3>1, <3>2
  <2> QED BY <2>1, <2>2 DEF Full
<1>8. Behind' /\ OnDisk' /\ Last(th)'
  <2>1. Behind' /\ OnDisk'
    BY <1>1, <1>4, <1>5 DEF Rest, Even, Behind, OnDisk
  <2>2. Last(th)'
    BY <1>3, <1>5 DEF Last
  <2> QED BY <2>1, <2>2
<1>9. Rows' /\ Fresh'
  BY <1>1, <1>4, <1>5, <1>6 DEF Rest, Rows, Fresh
<1>10. Phase(th)'
  BY <1>3, <1>8, <1>9 DEF Phase
<1> QED BY <1>1, <1>4, <1>7, <1>10, AlignedGoes DEF Labels

\* The list is in its file once it is saved.
LEMMA ListSaved ==
  ASSUME TypesIInv, Full, UNCHANGED <<kb, content>>,
         kbFile' = [i \in DOMAIN kb |-> [id |-> kb[i], content |-> content[kb[i]]]]
  PROVE  /\ Synced' /\ FileFull' /\ Full' /\ Len(kbFile') = Len(kb) /\ DOMAIN kbFile' = DOMAIN kb
         /\ \A i \in DOMAIN kb : kbFile'[i].content = content[kb[i]]
<1>1. /\ DOMAIN kbFile' = DOMAIN kb /\ \A i \in DOMAIN kb : kbFile'[i].content = content[kb[i]]
  OBVIOUS
<1>2. Len(kbFile') = Len(kb)
  BY Written DEF TypesIInv
<1>3. Synced'
  BY DEF Synced
<1>4. FileFull' /\ Full'
  BY <1>1 DEF FileFull, Full
<1> QED BY <1>1, <1>2, <1>3, <1>4

LEMMA SaveAligned ==
  ASSUME TypesIInv, Undisturbed, NEW th \in Thread, SaveKnowledge(th)
  PROVE  Undisturbed'
<1>1. /\ pc[th] \in {"saveMerge", "saveAdd", "saveKept", "saveSearch"}
      /\ kbFile' = [i \in DOMAIN kb |-> [id |-> kb[i], content |-> content[kb[i]]]]
      /\ UNCHANGED <<kb, content, vecs, vecFile, vecWhole, metaLen, faults>>
  BY DEF SaveKnowledge, AfterSave, memory
<1>2. /\ Phase(th) /\ DiskOK /\ FileFull /\ Full /\ \A u \in Thread \ {th} : pc[u] = "idle"
  BY <1>1, Alone DEF Undisturbed
<1>3. /\ Synced' /\ FileFull' /\ Full' /\ Len(kbFile') = Len(kb) /\ DOMAIN kbFile' = DOMAIN kb
      /\ \A i \in DOMAIN kb : kbFile'[i].content = content[kb[i]]
  BY <1>1, <1>2, ListSaved
<1>4. ASSUME NEW to \in {"findRow", "embed", "slice"}, Go(th, job[th], to)
      PROVE  /\ pc' = [pc EXCEPT ![th] = to] /\ pc'[th] = to /\ job'[th] = job[th]
             /\ crashes' = crashes
  BY <1>4 DEF Go, history, TypesIInv, ThreadsOK
<1>5. CASE pc[th] = "saveSearch"
  <2>1. Finish(th) /\ pc' = [pc EXCEPT ![th] = "idle"] /\ crashes' = crashes
    BY <1>5 DEF SaveKnowledge, AfterSave, Finish
  <2>2. Rest /\ kbFile' = kbFile
    BY <1>1, <1>2, <1>5 DEF Phase, Rest, Synced
  <2>3. Rest' /\ DiskOK'
    BY <1>1, <1>2, <2>1, <2>2 DEF Rest, Synced, Even, Rows, Fresh, OnDisk, DiskOK
  <2> QED BY <1>2, <1>3, <2>1, <2>3, AlignedEnds
<1>6. CASE pc[th] = "saveMerge"
  <2>1. Go(th, job[th], "findRow")
    BY <1>6 DEF SaveKnowledge, AfterSave
  <2>2. /\ pc' = [pc EXCEPT ![th] = "findRow"] /\ pc'[th] = "findRow" /\ job'[th] = job[th]
        /\ crashes' = crashes
    BY <1>4, <2>1
  <2>3. Even /\ Rows /\ FreshBut(th) /\ OnDisk /\ Merged(th) /\ FileOlder
    BY <1>2, <1>6 DEF Phase
  <2>4. Even' /\ Rows' /\ FreshBut(th)' /\ Merged(th)'
    BY <1>1, <2>2, <2>3 DEF Even, Rows, FreshBut, Merged, Listed
  <2>5. DiskOK'
    <3>1. \A i \in DOMAIN kbFile' : vecFile'[i] # {} /\ vecFile'[i] \subseteq kbFile'[i].content
      BY <1>1, <1>3, <2>3, Typed DEF Even, Rows, OnDisk
    <3>2. kbFile' # <<>>
      <4>1. DOMAIN kb # {}
        BY <2>3 DEF Merged, Listed
      <4> QED BY <1>3, <4>1
    <3> QED BY <3>1, <3>2 DEF DiskOK
  <2>6. Phase(th)'
    BY <1>3, <2>2, <2>4 DEF Phase
  <2> QED BY <1>2, <1>3, <2>2, <2>5, <2>6, AlignedGoes DEF Labels
<1>7. CASE pc[th] = "saveAdd"
  <2>1. Go(th, job[th], "embed")
    BY <1>7 DEF SaveKnowledge, AfterSave
  <2>2. /\ pc' = [pc EXCEPT ![th] = "embed"] /\ pc'[th] = "embed" /\ job'[th] = job[th]
        /\ crashes' = crashes
    BY <1>4, <2>1
  <2>3. Behind /\ Rows /\ Fresh /\ OnDisk /\ Last(th)
    BY <1>2, <1>7 DEF Phase
  <2>4. Behind' /\ Rows' /\ Fresh' /\ Last(th)'
    BY <1>1, <2>2, <2>3 DEF Behind, Rows, Fresh, Last
  <2>5. DiskOK'
    <3>1. metaLen' # Len(kbFile') /\ Len(kbFile') # 0
      BY <1>1, <1>3, <2>3, Typed DEF Behind, OnDisk
    <3>2. kbFile' # <<>>
      BY <3>1
    <3> QED BY <3>1, <3>2 DEF DiskOK
  <2>6. Phase(th)'
    BY <1>3, <2>2, <2>4 DEF Phase
  <2> QED BY <1>2, <1>3, <2>2, <2>5, <2>6, AlignedGoes DEF Labels
<1>8. CASE pc[th] = "saveKept"
  <2>1. Go(th, job[th], "slice")
    BY <1>8 DEF SaveKnowledge, AfterSave
  <2>2. /\ pc' = [pc EXCEPT ![th] = "slice"] /\ pc'[th] = "slice" /\ job'[th] = job[th]
        /\ crashes' = crashes
    BY <1>4, <2>1
  <2>3. Cleaning(th) /\ OnDisk
    BY <1>2, <1>8 DEF Phase
  <2>4. Cleaning(th)'
    BY <1>1, <2>2, <2>3 DEF Cleaning
  <2>5. DiskOK'
    <3> DEFINE kept == job[th].kept
    <3>1. kept \in SUBSET (1..Len(vecs)) /\ kept # 1..Len(vecs) /\ kept # {} /\ Len(vecs) \in Nat
      BY <2>3, Typed DEF Cleaning
    <3>2. Cardinality(kept) \in 0..Len(vecs) /\ Cardinality(kept) < Len(vecs) /\ Cardinality(kept) > 0
      BY <3>1, NthOf
    <3>3. Len(kb) = Cardinality(kept)
      <4>1. DOMAIN job[th].rows = 1..Len(vecs) /\ job[th].rows \in Seq(Id)
        BY <2>3, LenProperties DEF Cleaning
      <4> QED BY <2>3, <3>1, <4>1, PickOf DEF Cleaning
    <3>4. metaLen' = Len(vecs)
      BY <1>1, <2>3 DEF OnDisk
    <3> HIDE DEF kept
    <3>5. metaLen' # Len(kbFile') /\ Len(kbFile') # 0
      BY <1>3, <3>1, <3>2, <3>3, <3>4
    <3>6. kbFile' # <<>>
      BY <3>5
    <3> QED BY <3>5, <3>6 DEF DiskOK
  <2>6. Phase(th)'
    BY <1>3, <2>2, <2>4 DEF Phase
  <2> QED BY <1>2, <1>3, <2>2, <2>5, <2>6, AlignedGoes DEF Labels
<1> QED BY <1>1, <1>5, <1>6, <1>7, <1>8

LEMMA FindRowAligned ==
  ASSUME TypesIInv, Undisturbed, NEW th \in Thread, FindRow(th)
  PROVE  Undisturbed'
<1> DEFINE rows == {i \in DOMAIN kb \intersect DOMAIN vecs : kb[i] = job[th].id}
           jobAt(i) == [job[th] EXCEPT !.at = i, !.old = content[job[th].id]]
<1>1. /\ pc[th] = "findRow" /\ job[th] \in Job
      /\ UNCHANGED <<kb, content, vecs, kbFile, vecFile, vecWhole, metaLen>>
  BY JobsFit DEF FindRow, memory, files
<1>2. /\ Synced /\ Even /\ Rows /\ FreshBut(th) /\ Merged(th)
      /\ DiskOK /\ FileFull /\ Full /\ \A u \in Thread \ {th} : pc[u] = "idle"
  BY <1>1, Alone DEF Phase, Undisturbed
<1>3. rows # {}
  <2>1. DOMAIN vecs = DOMAIN kb
    BY <1>2, Typed DEF Even
  <2> QED BY <1>2, <2>1 DEF Merged, Listed
<1>4. PICK i \in rows : Go(th, jobAt(i), "reembed")
  BY <1>3 DEF FindRow
<1>5. /\ jobAt(i).at = i /\ jobAt(i).old = content[job[th].id] /\ jobAt(i).id = job[th].id
  BY <1>1 DEF Job
<1>6. /\ pc' = [pc EXCEPT ![th] = "reembed"] /\ pc'[th] = "reembed" /\ job'[th] = jobAt(i)
      /\ crashes' = crashes
  BY <1>4 DEF Go, history, TypesIInv, ThreadsOK
<1> HIDE DEF jobAt
<1>7. Synced' /\ Even' /\ Rows' /\ FreshBut(th)'
  BY <1>1, <1>2, <1>5, <1>6 DEF Synced, Even, Rows, FreshBut
<1>8. job'[th].at \in DOMAIN kb' /\ kb'[job'[th].at] = job'[th].id /\ job'[th].old = content'[job'[th].id]
  BY <1>1, <1>5, <1>6
<1>9. Phase(th)'
  BY <1>6, <1>7, <1>8 DEF Phase
<1> QED BY <1>1, <1>2, <1>6, <1>9, SameStore, AlignedGoes DEF Labels

LEMMA ReembedAligned ==
  ASSUME TypesIInv, Undisturbed, NEW th \in Thread, Reembed(th)
  PROVE  Undisturbed'
<1> DEFINE at == job[th].at
<1>1. /\ pc[th] = "reembed"
      /\ UNCHANGED <<kb, content, kbFile, vecFile, vecWhole, metaLen>>
  BY DEF Reembed, files
<1>2. /\ Synced /\ Even /\ Rows /\ FreshBut(th)
      /\ at \in DOMAIN kb /\ kb[at] = job[th].id /\ job[th].old = content[job[th].id]
      /\ DiskOK /\ FileFull /\ Full /\ \A u \in Thread \ {th} : pc[u] = "idle"
  BY <1>1, Alone DEF Phase, Undisturbed
<1>3. DOMAIN vecs = DOMAIN kb
  BY <1>2, Typed DEF Even
<1>4. /\ vecs' = [vecs EXCEPT ![at] = content[kb[at]]] /\ Go(th, job[th], "saveVectors")
  BY <1>2, <1>3 DEF Reembed
<1>5. pc' = [pc EXCEPT ![th] = "saveVectors"] /\ pc'[th] = "saveVectors" /\ crashes' = crashes
  BY <1>4 DEF Go, history, TypesIInv, ThreadsOK
<1>6. /\ Len(vecs') = Len(vecs) /\ DOMAIN vecs' = DOMAIN vecs
      /\ vecs'[at] = content[kb[at]] /\ \A i \in DOMAIN vecs : i # at => vecs'[i] = vecs[i]
  <2>1. content[kb[at]] \in SUBSET Text
    BY <1>2, Typed
  <2>2. Len(vecs') = Len(vecs)
    BY <1>4, <2>1, Typed
  <2> QED BY <1>2, <1>3, <1>4, <2>2
<1>7. Even' /\ Synced' /\ kb' # <<>>
  <2>1. kb # <<>>
    BY <1>2
  <2> QED BY <1>1, <1>2, <1>6, <2>1 DEF Even, Synced
<1>8. Rows'
  BY <1>1, <1>2, <1>3, <1>6 DEF Rows, Full
<1>9. Fresh'
  <2> SUFFICES ASSUME crashes = 0, NEW i \in DOMAIN vecs PROVE vecs'[i] = content[kb[i]]
    BY <1>1, <1>5, <1>6 DEF Fresh
  <2>1. CASE i = at
    BY <1>6, <2>1
  <2>2. CASE i # at
    <3>1. kb[i] # job[th].id
      BY <1>2, <1>3, <2>2, Typed
    <3> QED BY <1>2, <1>6, <2>2, <3>1 DEF FreshBut
  <2> QED BY <2>1, <2>2
<1>10. Phase(th)'
  BY <1>5, <1>7, <1>8, <1>9 DEF Phase
<1> QED BY <1>1, <1>2, <1>5, <1>10, SameStore, AlignedGoes DEF Labels

LEMMA ReadMatrixAligned ==
  ASSUME TypesIInv, Undisturbed, NEW th \in Thread, ReadMatrix(th)
  PROVE  Undisturbed'
<1>1. /\ pc[th] = "embed" /\ job[th] \in Job
      /\ UNCHANGED <<kb, content, vecs, kbFile, vecFile, vecWhole, metaLen>>
      /\ Go(th, [job[th] EXCEPT !.rows = vecs], "stack")
  BY JobsFit DEF ReadMatrix, memory, files
<1>2. /\ Synced /\ Behind /\ Rows /\ Fresh /\ Last(th)
      /\ DiskOK /\ FileFull /\ Full /\ \A u \in Thread \ {th} : pc[u] = "idle"
  BY <1>1, Alone DEF Phase, Undisturbed
<1>3. [job[th] EXCEPT !.rows = vecs].rows = vecs /\ [job[th] EXCEPT !.rows = vecs].text = job[th].text
  BY <1>1 DEF Job
<1>4. /\ pc' = [pc EXCEPT ![th] = "stack"] /\ pc'[th] = "stack" /\ crashes' = crashes
      /\ job'[th].rows = vecs /\ job'[th].text = job[th].text
  BY <1>1, <1>3 DEF Go, history, TypesIInv, ThreadsOK
<1>5. Synced' /\ Behind' /\ Rows' /\ Fresh' /\ Last(th)'
  BY <1>1, <1>2, <1>4 DEF Synced, Behind, Rows, Fresh, Last
<1>6. Phase(th)'
  BY <1>1, <1>4, <1>5 DEF Phase
<1> QED BY <1>1, <1>2, <1>4, <1>6, SameStore, AlignedGoes DEF Labels

LEMMA StackAligned ==
  ASSUME TypesIInv, Undisturbed, NEW th \in Thread, Stack(th)
  PROVE  Undisturbed'
<1> DEFINE row == {job[th].text}
<1>1. /\ pc[th] = "stack" /\ Go(th, job[th], "saveVectors")
      /\ UNCHANGED <<kb, content, kbFile, vecFile, vecWhole, metaLen>>
      /\ vecs' = Append(job[th].rows, row)
  BY DEF Stack, files
<1>2. /\ Synced /\ Behind /\ Rows /\ Fresh /\ content[kb[Len(kb)]] = row /\ job[th].rows = vecs
      /\ DiskOK /\ FileFull /\ Full /\ \A u \in Thread \ {th} : pc[u] = "idle"
  BY <1>1, Alone DEF Phase, Undisturbed, Last
<1>3. pc' = [pc EXCEPT ![th] = "saveVectors"] /\ pc'[th] = "saveVectors" /\ crashes' = crashes
  BY <1>1 DEF Go, history, TypesIInv, ThreadsOK
<1>4. row \in SUBSET Text /\ row # {}
  BY <1>1, JobsFit DEF JobFits
<1>5. /\ Len(vecs') = Len(kb) /\ DOMAIN vecs' = DOMAIN kb /\ vecs'[Len(kb)] = row
      /\ \A i \in DOMAIN kb : i # Len(kb) => i \in DOMAIN vecs /\ vecs'[i] = vecs[i]
  <2> HIDE DEF row
  <2>1. /\ Len(vecs') = Len(vecs) + 1 /\ DOMAIN vecs' = 1..(Len(vecs) + 1)
        /\ \A i \in 1..Len(vecs) : vecs'[i] = vecs[i]
        /\ vecs'[Len(vecs) + 1] = row
    BY <1>1, <1>2, <1>4, Typed
  <2>2. Len(kb) = Len(vecs) + 1
    BY <1>2 DEF Behind
  <2>3. ASSUME NEW i \in DOMAIN kb, i # Len(kb) PROVE i \in DOMAIN vecs
    BY <2>2, <2>3, Typed
  <2> QED BY <2>1, <2>2, <2>3, Typed
<1> HIDE DEF row
<1>6. Even' /\ Synced' /\ kb' # <<>>
  <2>1. Len(kb) # 0
    BY <1>2, Typed DEF Behind
  <2>2. kb # <<>>
    BY <2>1
  <2> QED BY <1>1, <1>2, <1>5, <2>2 DEF Even, Synced
<1>7. Rows' /\ Fresh'
  <2>1. \A i \in DOMAIN kb : vecs'[i] # {} /\ vecs'[i] \subseteq content[kb[i]]
    BY <1>2, <1>4, <1>5 DEF Rows
  <2>2. crashes = 0 => \A i \in DOMAIN kb : vecs'[i] = content[kb[i]]
    BY <1>2, <1>5 DEF Fresh
  <2> QED BY <1>1, <1>3, <1>5, <2>1, <2>2 DEF Rows, Fresh
<1>8. Phase(th)'
  BY <1>3, <1>6, <1>7 DEF Phase
<1> QED BY <1>1, <1>2, <1>3, <1>8, SameStore, AlignedGoes DEF Labels

LEMMA WriteAligned ==
  ASSUME TypesIInv, Undisturbed, NEW th \in Thread,
         WriteVectors(th) \/ VectorsWritten(th) \/ SaveMeta(th)
  PROVE  Undisturbed'
<1>1. pc[th] \in {"saveVectors", "writing", "saveMeta"} /\ UNCHANGED <<kb, content, vecs, kbFile>>
  <2>1. UNCHANGED <<kb, content, vecs, kbFile>>
    BY Zenon DEF WriteVectors, VectorsWritten, SaveMeta, memory, files
  <2> QED BY <2>1 DEF WriteVectors, VectorsWritten, SaveMeta
<1>2. /\ Phase(th) /\ Synced /\ Even /\ Rows /\ Fresh /\ kb # <<>>
      /\ DiskOK /\ FileFull /\ Full /\ \A u \in Thread \ {th} : pc[u] = "idle"
  BY <1>1, Alone DEF Phase, Undisturbed
<1>3. FileFull' /\ Full'
  BY <1>1, <1>2 DEF FileFull, Full
<1>4. kbFile # <<>> /\ vecs # <<>> /\ DOMAIN kbFile = DOMAIN kb /\ DOMAIN vecs = DOMAIN kb
      /\ \A i \in DOMAIN kb : kbFile[i].content = content[kb[i]]
  <2>1. DOMAIN kbFile = DOMAIN kb /\ \A i \in DOMAIN kb : kbFile[i].content = content[kb[i]]
    BY <1>2 DEF Synced
  <2>2. DOMAIN vecs = DOMAIN kb
    BY <1>2, Typed DEF Even
  <2>3. DOMAIN kb # {}
    BY <1>2, Typed
  <2> QED BY <2>1, <2>2, <2>3
<1>5. ASSUME crashes' = crashes PROVE Synced' /\ Even' /\ Rows' /\ Fresh' /\ kb' # <<>>
  BY <1>1, <1>2, <1>5 DEF Synced, Even, Rows, Fresh
<1>6. CASE WriteVectors(th)
  <2>1. /\ Go(th, [job[th] EXCEPT !.rows = vecs], "writing") /\ job[th] \in Job
        /\ UNCHANGED <<vecFile, vecWhole, metaLen>>
    BY <1>4, <1>6, JobsFit DEF WriteVectors, files
  <2>2. [job[th] EXCEPT !.rows = vecs].rows = vecs
    BY <2>1 DEF Job
  <2>3. /\ pc' = [pc EXCEPT ![th] = "writing"] /\ pc'[th] = "writing" /\ crashes' = crashes
        /\ job'[th].rows = vecs
    BY <2>1, <2>2 DEF Go, history, TypesIInv, ThreadsOK
  <2>4. Phase(th)'
    BY <1>1, <1>5, <2>3 DEF Phase
  <2>5. DiskOK'
    BY <1>1, <1>2, <2>1 DEF DiskOK
  <2> QED BY <1>2, <1>3, <2>3, <2>4, <2>5, AlignedGoes DEF Labels
<1>7. CASE VectorsWritten(th)
  <2>1. /\ pc[th] = "writing" /\ Go(th, job[th], "saveMeta")
        /\ vecFile' = job[th].rows
    BY <1>7 DEF VectorsWritten
  <2>2. vecFile' = vecs /\ vecWhole'
    <3>1. job[th].rows = vecs
      BY <1>2, <2>1 DEF Phase
    <3>2. vecWhole' = TRUE
      BY <1>7 DEF VectorsWritten
    <3> QED BY <2>1, <3>1, <3>2
  <2>3. pc' = [pc EXCEPT ![th] = "saveMeta"] /\ pc'[th] = "saveMeta" /\ crashes' = crashes
    BY <2>1 DEF Go, history, TypesIInv, ThreadsOK
  <2>4. Phase(th)'
    BY <1>1, <1>5, <2>2, <2>3 DEF Phase
  <2>5. DiskOK'
    BY <1>1, <1>2, <1>4, <2>2 DEF DiskOK, Rows
  <2> QED BY <1>2, <1>3, <2>3, <2>4, <2>5, AlignedGoes DEF Labels
<1>8. CASE SaveMeta(th)
  <2>1. /\ Finish(th) /\ metaLen' = Len(kb) /\ pc[th] = "saveMeta"
        /\ UNCHANGED <<vecFile, vecWhole>>
    BY <1>8 DEF SaveMeta
  <2>2. pc' = [pc EXCEPT ![th] = "idle"] /\ crashes' = crashes
    BY <2>1 DEF Finish
  <2>3. vecFile = vecs /\ vecWhole
    BY <1>2, <2>1 DEF Phase
  <2>4. OnDisk'
    BY <1>1, <1>2, <2>1, <2>3 DEF OnDisk, Even
  <2>5. Rest'
    BY <1>5, <2>2, <2>4 DEF Rest
  <2>6. DiskOK'
    BY <1>1, <1>2, <1>4, <2>1, <2>3 DEF DiskOK, Rows
  <2> QED BY <1>2, <1>3, <2>2, <2>5, <2>6, AlignedEnds
<1> QED BY <1>6, <1>7, <1>8

LEMMA ReplaceAligned ==
  ASSUME TypesIInv, Undisturbed, Replace
  PROVE  Undisturbed'
<1> DEFINE kept == job[Main].kept
<1>1. /\ pc[Main] = "replace" /\ kb' = Pick(job[Main].rows, kept)
      /\ pc' = [pc EXCEPT ![Main] = "saveKept"] /\ Main \in Thread
      /\ UNCHANGED <<job, content, vecs, kbFile, vecFile, vecWhole, metaLen, crashes>>
  BY ThreadAssumption DEF Replace, files
<1>2. /\ Rest /\ job[Main].rows = kb /\ kept # {} /\ kept \subseteq DOMAIN kb /\ kept # DOMAIN kb
      /\ DiskOK /\ FileFull /\ Full /\ \A u \in Thread \ {Main} : pc[u] = "idle"
  BY <1>1, Alone DEF Phase, Undisturbed
<1>3. pc'[Main] = "saveKept" /\ job'[Main] = job[Main]
  BY <1>1 DEF TypesIInv, ThreadsOK
<1>4. DOMAIN vecs = DOMAIN kb /\ Len(vecs) = Len(kb)
  BY <1>2, Typed DEF Rest, Even
<1>5. Cleaning(Main)'
  <2>1. kb \in Seq(Id)
    BY Typed
  <2> QED BY <1>1, <1>2, <1>3, <1>4, <2>1 DEF Cleaning, Rest, Rows, Fresh
<1>6. OnDisk' /\ DiskOK' /\ FileFull'
  BY <1>1, <1>2 DEF Rest, OnDisk, DiskOK, FileFull
<1>7. Full'
  <2>1. /\ DOMAIN kb' = 1..Cardinality(kept)
        /\ \A n \in 1..Cardinality(kept) : Nth(kept, n) \in kept /\ kb'[n] = kb[Nth(kept, n)]
    BY <1>1, <1>2, Typed, PickOf
  <2>2. \A i \in DOMAIN kb : content[kb[i]] # {}
    BY <1>2 DEF Full
  <2> HIDE DEF kept
  <2>3. \A n \in 1..Cardinality(kept) : content[kb'[n]] # {}
    BY <1>2, <2>1, <2>2
  <2> QED BY <1>1, <2>1, <2>3 DEF Full
<1>8. Phase(Main)'
  BY <1>3, <1>5, <1>6 DEF Phase
<1> QED BY <1>1, <1>2, <1>6, <1>7, <1>8, AlignedGoes DEF Labels

LEMMA SliceAligned ==
  ASSUME TypesIInv, Undisturbed, Slice
  PROVE  Undisturbed'
<1> DEFINE kept == job[Main].kept
           was == job[Main].rows
<1>1. /\ pc[Main] = "slice" /\ Main \in Thread
      /\ UNCHANGED <<kb, content, kbFile, vecFile, vecWhole, metaLen>>
  BY ThreadAssumption DEF Slice, files
<1>2. /\ Synced /\ Cleaning(Main)
      /\ DiskOK /\ FileFull /\ Full /\ \A u \in Thread \ {Main} : pc[u] = "idle"
  BY <1>1, Alone DEF Phase, Undisturbed
<1>3. kept # {} /\ kept \subseteq DOMAIN vecs /\ vecs # <<>>
  BY <1>2 DEF Cleaning
<1>4. vecs' = Pick(vecs, kept) /\ Go(Main, job[Main], "saveVectors")
  BY <1>3 DEF Slice
<1>5. pc' = [pc EXCEPT ![Main] = "saveVectors"] /\ pc'[Main] = "saveVectors" /\ crashes' = crashes
  BY <1>1, <1>4 DEF Go, history, TypesIInv, ThreadsOK
<1>6. was \in Seq(Id) /\ DOMAIN was = DOMAIN vecs /\ kb = Pick(was, kept)
  BY <1>2, Typed, LenProperties DEF Cleaning
<1>7. /\ Len(kb) = Cardinality(kept) /\ DOMAIN kb = 1..Cardinality(kept)
      /\ \A n \in 1..Cardinality(kept) : Nth(kept, n) \in kept /\ kb[n] = was[Nth(kept, n)]
  BY <1>3, <1>6, PickOf
<1>8. /\ Len(vecs') = Cardinality(kept) /\ DOMAIN vecs' = 1..Cardinality(kept)
      /\ \A n \in 1..Cardinality(kept) : vecs'[n] = vecs[Nth(kept, n)]
  BY <1>3, <1>4, Typed, PickOf
<1>9. kb # <<>> /\ Len(vecs') = Len(kb)
  <2>1. Len(vecs) \in Nat /\ kept \in SUBSET (1..Len(vecs))
    BY <1>3, Typed
  <2>2. Cardinality(kept) > 0
    BY <1>3, <2>1, NthOf
  <2>3. Len(kb) # 0
    BY <1>7, <2>2
  <2> QED BY <1>7, <1>8, <2>3
<1>10. Even' /\ Synced' /\ kb' # <<>>
  BY <1>1, <1>2, <1>9 DEF Even, Synced
<1>11. Rows' /\ Fresh'
  <2>1. \A i \in DOMAIN vecs : /\ vecs[i] # {} /\ vecs[i] \subseteq content[was[i]]
                               /\ crashes = 0 => vecs[i] = content[was[i]]
    BY <1>2 DEF Cleaning
  <2> HIDE DEF kept, was
  <2>2. \A n \in 1..Cardinality(kept) :
          /\ vecs'[n] # {} /\ vecs'[n] \subseteq content[kb[n]]
          /\ crashes = 0 => vecs'[n] = content[kb[n]]
    BY <1>3, <1>7, <1>8, <2>1
  <2> QED BY <1>1, <1>5, <1>8, <2>2 DEF Rows, Fresh
<1>12. Phase(Main)'
  BY <1>5, <1>10, <1>11 DEF Phase
<1> QED BY <1>1, <1>2, <1>5, <1>12, SameStore, AlignedGoes DEF Labels

\* A crash reads back the list that is in the file, and may leave half a matrix.
LEMMA CrashAligned ==
  ASSUME TypesIInv, Undisturbed, Crash
  PROVE  Undisturbed'
<1>1. /\ kb' = [i \in DOMAIN kbFile |-> kbFile[i].id]
      /\ content' = [n \in Id |-> UNION {f.content : f \in {g \in ItemsOf(kbFile) : g.id = n}}]
      /\ vecs' = <<>> /\ crashes' = crashes + 1
      /\ vecWhole' = (vecWhole /\ \A th \in Thread : pc[th] # "writing")
      /\ pc' = [th \in Thread |-> IF th = Main THEN "load" ELSE "idle"]
      /\ UNCHANGED <<kbFile, vecFile, metaLen>>
  BY DEF Crash
<1>2. DiskOK /\ FileFull /\ Full /\ \A th \in Thread : Phase(th)
  BY DEF Undisturbed
<1>3. \A i \in DOMAIN kbFile : kbFile[i] \in [id : Id, content : SUBSET Text]
  <2>1. kbFile \in Seq([id : Id, content : SUBSET Text])
    BY DEF TypesIInv, DataOK
  <2> QED BY <2>1, ElementOfSeq, LenProperties
<1>4. \A i, k \in DOMAIN kbFile : kbFile[i].id = kbFile[k].id => i = k
  <2>1. \A i, k \in DOMAIN FileIds : FileIds[i] = FileIds[k] => i = k
    BY DEF TypesIInv, DataOK, Numbered
  <2> QED BY <2>1 DEF FileIds
<1>5. /\ DOMAIN kb' = DOMAIN kbFile
      /\ \A i \in DOMAIN kbFile : kb'[i] = kbFile[i].id /\ content'[kb'[i]] = kbFile[i].content
  <2>1. DOMAIN kb' = DOMAIN kbFile /\ \A i \in DOMAIN kbFile : kb'[i] = kbFile[i].id
    BY <1>1
  <2>2. ASSUME NEW i \in DOMAIN kbFile PROVE content'[kbFile[i].id] = kbFile[i].content
    <3>1. {g \in ItemsOf(kbFile) : g.id = kbFile[i].id} = {kbFile[i]}
      <4>1. kbFile[i] \in ItemsOf(kbFile)
        BY DEF ItemsOf
      <4>2. ASSUME NEW g \in ItemsOf(kbFile), g.id = kbFile[i].id PROVE g = kbFile[i]
        BY <1>4, <4>2 DEF ItemsOf
      <4> QED BY <4>1, <4>2
    <3>2. kbFile[i].id \in Id
      BY <1>3
    <3>3. content'[kbFile[i].id] = UNION {f.content : f \in {g \in ItemsOf(kbFile) : g.id = kbFile[i].id}}
      BY <1>1, <3>2
    <3>4. UNION {f.content : f \in {kbFile[i]}} = kbFile[i].content
      OBVIOUS
    <3> QED BY <3>1, <3>3, <3>4
  <2> QED BY <2>1, <2>2
<1>6. Synced'
  <2>1. \A i \in DOMAIN kbFile : kbFile[i] = [id |-> kb'[i], content |-> content'[kb'[i]]]
    BY <1>3, <1>5
  <2>2. kbFile = [i \in DOMAIN kbFile |-> kbFile[i]]
    BY DEF TypesIInv, DataOK
  <2>3. kbFile = [i \in DOMAIN kb' |-> [id |-> kb'[i], content |-> content'[kb'[i]]]]
    BY <1>5, <2>1, <2>2
  <2> QED BY <1>1, <2>3 DEF Synced
<1>7. FileFull' /\ Full'
  BY <1>1, <1>2, <1>5 DEF FileFull, Full
<1>8. DiskOK'
  <2>1. vecWhole' => vecWhole
    BY <1>1, Zenon
  <2>2. ASSUME kbFile = <<>>, NEW th \in Thread PROVE pc[th] # "writing"
    <3>1. pc[th] = "writing" => Synced /\ kb # <<>>
      BY <1>2 DEF Phase
    <3>2. Synced => DOMAIN kb = DOMAIN kbFile
      BY DEF Synced
    <3>3. DOMAIN kbFile = {}
      BY <2>2
    <3>4. kb # <<>> => DOMAIN kb # {}
      BY Typed
    <3> QED BY <3>1, <3>2, <3>3, <3>4
  <2>3. kbFile = <<>> => vecWhole'
    BY <1>1, <1>2, <2>2, Zenon DEF DiskOK
  <2> QED BY <1>1, <1>2, <2>1, <2>3 DEF DiskOK
<1>9. crashes' > 0
  BY <1>1, Typed
<1>10. \A th \in Thread : Phase(th)'
  <2>1. \A th \in Thread : pc'[th] \in {"load", "idle"}
    BY <1>1
  <2> QED BY <1>1, <1>6, <1>9, <2>1 DEF Phase
<1>11. Solo' /\ AtRest'
  <2>1. pc'[Main] = "load" /\ \A th \in Thread \ {Main} : pc'[th] = "idle"
    BY <1>1, ThreadAssumption
  <2> QED BY <2>1, ThreadAssumption DEF Solo, AtRest
<1> QED BY <1>7, <1>8, <1>10, <1>11 DEF Undisturbed

LEMMA LoadAligned ==
  ASSUME TypesIInv, Undisturbed, Load
  PROVE  Undisturbed'
<1>1. /\ pc[Main] = "load" /\ Main \in Thread
      /\ UNCHANGED <<kb, content, kbFile, vecFile, vecWhole, metaLen>>
  BY ThreadAssumption DEF Load, files
<1>2. /\ Synced /\ vecs = <<>> /\ crashes > 0
      /\ DiskOK /\ FileFull /\ Full /\ \A u \in Thread \ {Main} : pc[u] = "idle"
  BY <1>1, Alone DEF Phase, Undisturbed
<1>3. DOMAIN kbFile = DOMAIN kb /\ \A i \in DOMAIN kb : kbFile[i].content = content[kb[i]]
  BY <1>2 DEF Synced
<1>4. Len(kbFile) = Len(kb) /\ (kb = <<>> <=> kbFile = <<>>)
  <2>1. Len(kbFile) = Len(kb)
    BY <1>3, Typed
  <2>2. kb = <<>> <=> Len(kb) = 0
    BY Typed
  <2>3. kbFile = <<>> <=> Len(kbFile) = 0
    <3>1. kbFile \in Seq([id : Id, content : SUBSET Text])
      BY DEF TypesIInv, DataOK
    <3> QED BY <3>1
  <2> QED BY <2>1, <2>2, <2>3
<1>5. DiskOK' /\ FileFull' /\ Full'
  BY <1>1, <1>2, SameStore
<1>6. CASE Finish(Main)
  <2>1. pc' = [pc EXCEPT ![Main] = "idle"] /\ crashes' = crashes
    BY <1>6 DEF Finish
  <2>2. Synced' /\ Fresh'
    <3>1. Synced'
      BY <1>1, <1>2 DEF Synced
    <3>2. crashes' # 0
      BY <1>2, <2>1, Typed
    <3> QED BY <3>1, <3>2 DEF Fresh
  <2>3. CASE vecWhole /\ metaLen = Len(kb) /\ metaLen = Len(vecFile) /\ vecFile # <<>>
    <3>1. vecs' = vecFile
      BY <2>3 DEF Load
    <3>2. Even' /\ OnDisk'
      BY <1>1, <2>3, <3>1 DEF Even, OnDisk
    <3>3. \A i \in DOMAIN kbFile : vecFile[i] # {} /\ vecFile[i] \subseteq kbFile[i].content
      BY <1>2, <1>4, <2>3 DEF DiskOK
    <3>4. DOMAIN vecFile = DOMAIN kb
      BY <2>3, Typed
    <3>5. Rows'
      BY <1>1, <1>3, <3>1, <3>3, <3>4 DEF Rows
    <3> QED BY <1>1, <1>2, <1>5, <2>1, <2>2, <3>2, <3>5, AlignedEnds DEF Rest
  <2>4. CASE ~(vecWhole /\ metaLen = Len(kb) /\ metaLen = Len(vecFile) /\ vecFile # <<>>)
    <3>1. vecs' = vecs
      BY <2>4 DEF Load
    <3>2. kb = <<>>
      <4>1. kb # <<>> => pc' = [pc EXCEPT ![Main] = "rebuild"]
        BY <2>4 DEF Load, Go
      <4>2. kb # <<>> => pc'[Main] = "rebuild"
        BY <1>1, <4>1 DEF TypesIInv, ThreadsOK
      <4>3. pc'[Main] = "idle"
        BY <1>1, <2>1 DEF TypesIInv, ThreadsOK
      <4> QED BY <4>2, <4>3
    <3>3. vecWhole /\ metaLen = 0 /\ vecFile = <<>>
      BY <1>2, <1>4, <3>2 DEF DiskOK
    <3>4. Even' /\ OnDisk' /\ Rows'
      BY <1>1, <1>2, <3>1, <3>2, <3>3 DEF Even, OnDisk, Rows
    <3> QED BY <1>1, <1>2, <1>5, <2>1, <2>2, <3>4, AlignedEnds DEF Rest
  <2> QED BY <2>3, <2>4
<1>7. CASE ~Finish(Main)
  <2>1. Go(Main, NoJob, "rebuild") /\ vecs' = vecs /\ kb # <<>>
    BY <1>7 DEF Load
  <2>2. pc' = [pc EXCEPT ![Main] = "rebuild"] /\ pc'[Main] = "rebuild" /\ crashes' = crashes
    BY <1>1, <2>1 DEF Go, history, TypesIInv, ThreadsOK
  <2>3. Synced' /\ vecs' = <<>> /\ crashes' > 0 /\ kb' # <<>>
    BY <1>1, <1>2, <2>1, <2>2 DEF Synced
  <2>4. Phase(Main)'
    BY <2>2, <2>3 DEF Phase
  <2> QED BY <1>1, <1>2, <1>5, <2>2, <2>4, AlignedGoes DEF Labels
<1> QED BY <1>6, <1>7

LEMMA RebuildAligned ==
  ASSUME TypesIInv, Undisturbed, Rebuild
  PROVE  Undisturbed'
<1>1. /\ pc[Main] = "rebuild" /\ Main \in Thread /\ Go(Main, NoJob, "saveVectors")
      /\ vecs' = [i \in DOMAIN kb |-> content[kb[i]]]
      /\ UNCHANGED <<kb, content, kbFile, vecFile, vecWhole, metaLen>>
  BY ThreadAssumption DEF Rebuild, files
<1>2. /\ Synced /\ kb # <<>> /\ DiskOK /\ FileFull /\ Full
      /\ \A u \in Thread \ {Main} : pc[u] = "idle"
  BY <1>1, Alone DEF Phase, Undisturbed
<1>3. pc' = [pc EXCEPT ![Main] = "saveVectors"] /\ pc'[Main] = "saveVectors" /\ crashes' = crashes
  BY <1>1 DEF Go, history, TypesIInv, ThreadsOK
<1>4. DOMAIN vecs' = DOMAIN kb /\ \A i \in DOMAIN kb : vecs'[i] = content[kb[i]]
  BY <1>1
<1>5. Len(vecs') = Len(kb)
  <2>1. vecs' = [i \in 1..Len(kb) |-> content[kb[i]]]
    BY <1>1, Typed
  <2>2. [i \in 1..Len(kb) |-> content[kb[i]]] \in [1..Len(kb) -> SUBSET Text]
    BY Typed
  <2> QED BY <2>1, <2>2, Typed, SeqOfFunction
<1>6. Synced' /\ Even' /\ Rows' /\ Fresh' /\ kb' # <<>>
  BY <1>1, <1>2, <1>4, <1>5 DEF Synced, Even, Rows, Fresh, Full
<1>7. Phase(Main)'
  BY <1>3, <1>6 DEF Phase
<1> QED BY <1>1, <1>2, <1>3, <1>7, SameStore, AlignedGoes DEF Labels

LEMMA CalmBefore ==
  ASSUME TypesIInv, Next, Calm'
  PROVE  Calm /\ ~Fault
<1>1. faults' = 0 /\ ~disturbed'
  BY DEF Calm
<1>2. ~Fault
  <2>1. faults \in Nat
    BY BoundAssumption DEF TypesIInv, DataOK
  <2> QED BY <1>1, <2>1 DEF Fault
<1>3. faults = 0
  <2>1. faults' = faults \/ Fault
    <3>1. ASSUME NEW th \in Thread, Step(th) PROVE faults' = faults \/ Fault
      BY <3>1, Zenon DEF Step, LookUp, Compare, CompareFails, ReadOld, WriteMerged, AppendItem,
         SaveKnowledge, SaveRaises, FindRow, Reembed, ReadMatrix, Stack, EmbedFails,
         WriteVectors, VectorsWritten, WriteRaises, SaveMeta, SaveMetaRaises, SavingFails
    <3>2. ASSUME NEW th \in Thread, SearchKnowledge(th) \/ \E t \in Text : AddKnowledge(th, t)
          PROVE  faults' = faults
      BY <3>2, Zenon DEF SearchKnowledge, AddKnowledge, Begin
    <3>3. ASSUME CleanupStaleKnowledge \/ Replace \/ Slice \/ Crash \/ Load \/ Rebuild \/ RebuildFails
          PROVE  faults' = faults \/ Fault
      BY <3>3, Zenon DEF CleanupStaleKnowledge, Begin, Replace, Slice, Crash, Load, Rebuild, RebuildFails
    <3> QED BY <3>1, <3>2, <3>3, Zenon DEF Next
  <2> QED BY <1>1, <1>2, <2>1
<1>4. disturbed => disturbed'
  <2>1. ASSUME NEW th \in Thread, NEW j, NEW to,
               Begin(th, j, to) \/ Go(th, j, to) \/ Finish(th) \/ Raise(th)
        PROVE  disturbed => disturbed'
    BY <2>1, Zenon DEF Begin, Go, Finish, Raise, history
  <2>2. ASSUME NEW th \in Thread, Step(th) PROVE disturbed => disturbed'
    <3>1. CASE ReadOld(th)
      BY <3>1, Zenon DEF ReadOld
    <3>2. CASE ~ReadOld(th)
      <4>1. (\E j, to : Go(th, j, to)) \/ Finish(th) \/ Raise(th)
        BY <2>2, <3>2 DEF Step, LookUp, Compare, CompareFails, WriteMerged, AppendItem,
           SaveKnowledge, SaveRaises, FindRow, Reembed, ReadMatrix, Stack, EmbedFails,
           WriteVectors, VectorsWritten, WriteRaises, SaveMeta, SaveMetaRaises, SavingFails
      <4> QED BY <2>1, <4>1, Zenon
    <3> QED BY <3>1, <3>2
  <2>3. ASSUME NEW th \in Thread, SearchKnowledge(th) \/ \E t \in Text : AddKnowledge(th, t)
        PROVE  disturbed => disturbed'
    BY <2>1, <2>3, Zenon DEF SearchKnowledge, AddKnowledge
  <2>4. CASE CleanupStaleKnowledge
    BY <2>1, <2>4, ThreadAssumption, Zenon DEF CleanupStaleKnowledge
  <2>5. CASE Replace \/ Crash
    BY <2>5, Zenon DEF Replace, Crash
  <2>6. CASE Slice
    <3>1. Go(Main, job[Main], "saveVectors") \/ Finish(Main) \/ Raise(Main)
      BY <2>6 DEF Slice
    <3> QED BY <2>1, <3>1, ThreadAssumption, Zenon
  <2>7. CASE Load \/ Rebuild \/ RebuildFails
    BY <2>1, <2>7, ThreadAssumption, Zenon DEF Load, Rebuild, RebuildFails
  <2> QED BY <2>2, <2>3, <2>4, <2>5, <2>6, <2>7, Zenon DEF Next
<1> QED BY <1>1, <1>2, <1>3, <1>4, Zenon DEF Calm

LEMMA AlignedStep == ASSUME TypesIInv, AlignedIInv, Next PROVE AlignedIInv'
<1> SUFFICES ASSUME Calm' PROVE Undisturbed'
  BY DEF AlignedIInv
<1>1. Undisturbed /\ ~Fault
  BY CalmBefore DEF AlignedIInv
<1>2. ASSUME NEW th \in Thread, SearchKnowledge(th) \/ \E t \in Text : AddKnowledge(th, t)
      PROVE  Undisturbed'
  BY <1>2, BeginAligned DEF SearchKnowledge, AddKnowledge
<1>3. CASE CleanupStaleKnowledge
  <2>1. PICK kept \in (SUBSET DOMAIN kb) \ {DOMAIN kb} :
          Begin(Main, Replacing(NoJob, kept, kb), "replace")
    BY <1>3 DEF CleanupStaleKnowledge, Replacing
  <2>2. kept \in SUBSET Nat /\ kb \in Seq(Id) /\ NoJob \in Job
    BY Typed, JobsFit, ThreadAssumption
  <2> DEFINE j == Replacing(NoJob, kept, kb)
  <2>3. j \in Job /\ j.rows = kb /\ j.kept = kept
    BY <2>2, ReplaceJob
  <2>4. Begin(Main, j, "replace")
    BY <2>1
  <2> HIDE DEF j
  <2> QED BY <2>1, <2>3, <2>4, ThreadAssumption, BeginAligned
<1>4. ASSUME NEW th \in Thread, Step(th) PROVE Undisturbed'
  <2>1. ~(CompareFails(th) \/ SaveRaises(th) \/ EmbedFails(th) \/ WriteRaises(th) \/ SaveMetaRaises(th))
    BY <1>1, Zenon DEF CompareFails, SaveRaises, EmbedFails, WriteRaises, SaveMetaRaises, SavingFails
  <2> QED BY <1>1, <1>4, <2>1, LookUpAligned, ReadOldAligned, WriteMergedAligned, AppendAligned,
         SaveAligned, FindRowAligned, ReembedAligned, ReadMatrixAligned, StackAligned,
         WriteAligned, Zenon DEF Step
<1>5. CASE Replace \/ Slice \/ Crash \/ Load \/ Rebuild
  BY <1>1, <1>5, ReplaceAligned, SliceAligned, CrashAligned, LoadAligned, RebuildAligned
<1>6. ~RebuildFails
  BY <1>1 DEF RebuildFails
<1> QED BY <1>2, <1>3, <1>4, <1>5, <1>6, Zenon DEF Next

LEMMA AlignedInit == ASSUME Init PROVE AlignedIInv
<1>1. /\ kb = <<>> /\ vecs = <<>> /\ kbFile = <<>> /\ vecFile = <<>> /\ vecWhole /\ metaLen = 0
      /\ \A th \in Thread : pc[th] = "idle"
  BY DEF Init
<1>2. DOMAIN kb = {} /\ DOMAIN vecs = {} /\ DOMAIN kbFile = {} /\ Len(vecs) = 0
  BY <1>1
<1>3. Synced
  BY <1>1 DEF Synced
<1>4. Rest /\ DiskOK /\ FileFull /\ Full
  BY <1>1, <1>2, <1>3 DEF Rest, Even, Rows, Fresh, OnDisk, DiskOK, FileFull, Full
<1>5. \A th \in Thread : Phase(th)
  BY <1>1 DEF Phase
<1> QED BY <1>1, <1>4, <1>5 DEF AlignedIInv, Undisturbed, Solo, AtRest

\* long_term.py: between operations each row of the matrix is of the item at its
\* position, wherever a crash cut the saves apart, unless a save or an embedding
\* failed, two threads met in the store, or a cleanup emptied the list.
THEOREM RowsStayAligned == Spec => []AlignedUnlessDisturbed
<1>1. ASSUME TypesIInv, AlignedIInv, [Next]_vars PROVE AlignedIInv'
  <2>1. CASE UNCHANGED vars
    BY <1>1, <2>1 DEF vars, AlignedIInv, Calm, Undisturbed, Solo, AtRest, Rest, Synced, Even, Behind,
       Rows, Fresh, OnDisk, DiskOK, FileFull, Full, Phase, FreshBut, FileOlder, FileIds, Last,
       Merged, Listed, Cleaning
  <2> QED BY <1>1, <2>1, AlignedStep
<1> QED BY <1>1, AlignedInit, AlignedImplies, TypesInvariance, PTL DEF Spec
=============================================================================
