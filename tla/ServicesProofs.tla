---------------------------- MODULE ServicesProofs ----------------------------
(* The safety of the components that share no state, for every value of      *)
(* their constants: the scheduler, the web connections, the turns and the    *)
(* stores they write, the calls of MCP tools, the bot's chats and its socket.*)
EXTENDS MCServices, TLAPS

-----------------------------------------------------------------------------
\* Taking one element out of a sequence leaves the others, in their order.
LEMMA RemoveAtElements ==
  ASSUME NEW S, NEW o \in Seq(S), NEW k \in 1..Len(o)
  PROVE  /\ RemoveAt(o, k) \in Seq(S)
         /\ Len(RemoveAt(o, k)) = Len(o) - 1
         /\ \A l \in 1..Len(RemoveAt(o, k)) :
              RemoveAt(o, k)[l] = IF l < k THEN o[l] ELSE o[l + 1]
<1> DEFINE a == SubSeq(o, 1, k - 1)
           b == SubSeq(o, k + 1, Len(o))
           r == RemoveAt(o, k)
<1>1. /\ a \in Seq(S) /\ Len(a) = k - 1
      /\ \A l \in 1..(k - 1) : a[l] = o[l]
  OBVIOUS
<1>2. /\ b \in Seq(S) /\ Len(b) = Len(o) - k
      /\ \A l \in 1..(Len(o) - k) : b[l] = o[k + l]
  OBVIOUS
<1>3. r = a \o b
  BY DEF RemoveAt
<1>4. Len(o) \in Nat
  OBVIOUS
<1> HIDE DEF a, b, r
<1>5. /\ r \in Seq(S) /\ Len(r) = Len(a) + Len(b)
      /\ \A l \in 1..Len(r) : r[l] = IF l <= Len(a) THEN a[l] ELSE b[l - Len(a)]
  <2>0. a \in Seq(S) /\ b \in Seq(S)
    BY <1>1, <1>2
  <2>1. r \in Seq(S) /\ Len(r) = Len(a) + Len(b)
    BY <1>3, <2>0
  <2>2. \A l \in 1..Len(r) : r[l] = IF l <= Len(a) THEN a[l] ELSE b[l - Len(a)]
    BY <1>3, <2>0, <2>1
  <2> QED BY <2>1, <2>2
<1>6. Len(r) = Len(o) - 1
  BY <1>1, <1>2, <1>4, <1>5
<1>7. ASSUME NEW l \in 1..Len(r) PROVE r[l] = IF l < k THEN o[l] ELSE o[l + 1]
  <2>1. CASE l < k
    BY <1>1, <1>4, <1>5, <2>1
  <2>2. CASE ~(l < k)
    <3>1. l - (k - 1) \in 1..(Len(o) - k) /\ k + (l - (k - 1)) = l + 1
      BY <1>4, <1>6, <2>2
    <3>2. ~(l <= Len(a)) /\ l - Len(a) = l - (k - 1)
      BY <1>1, <1>4, <2>2
    <3> QED BY <1>2, <1>5, <2>2, <3>1, <3>2
  <2> QED BY <2>1, <2>2
<1> QED BY <1>5, <1>6, <1>7 DEF r

\* Of a sequence without repetitions it takes exactly that element.
LEMMA RemoveAtKeys ==
  ASSUME NEW S, NEW o \in Seq(S), NEW k \in 1..Len(o),
         \A l, m \in DOMAIN o : o[l] = o[m] => l = m
  PROVE  /\ \A l, m \in DOMAIN RemoveAt(o, k) :
              RemoveAt(o, k)[l] = RemoveAt(o, k)[m] => l = m
         /\ \A x : Contains(RemoveAt(o, k), x) <=> Contains(o, x) /\ x # o[k]
<1> DEFINE r == RemoveAt(o, k)
           from(l) == IF l < k THEN l ELSE l + 1
<1>0. Len(o) \in Nat
  OBVIOUS
<1> HIDE DEF r
<1>1. /\ r \in Seq(S) /\ Len(r) = Len(o) - 1 /\ Len(o) \in Nat
      /\ \A l \in 1..Len(r) : r[l] = IF l < k THEN o[l] ELSE o[l + 1]
  BY <1>0, RemoveAtElements DEF r
<1>2. DOMAIN o = 1..Len(o) /\ DOMAIN r = 1..Len(r)
  BY <1>1
<1>3. /\ \A l \in DOMAIN r : from(l) \in DOMAIN o \ {k} /\ r[l] = o[from(l)]
      /\ \A l, m \in DOMAIN r : from(l) = from(m) => l = m
      /\ \A m \in DOMAIN o \ {k} : \E l \in DOMAIN r : from(l) = m
  <2>1. \A l \in DOMAIN r : from(l) \in DOMAIN o \ {k} /\ r[l] = o[from(l)]
    BY <1>1, <1>2
  <2>2. \A l, m \in DOMAIN r : from(l) = from(m) => l = m
    BY <1>1, <1>2
  <2>3. ASSUME NEW m \in DOMAIN o \ {k} PROVE \E l \in DOMAIN r : from(l) = m
    <3>1. CASE m < k
      <4>1. m \in DOMAIN r /\ from(m) = m
        BY <1>1, <1>2, <3>1
      <4> QED BY <4>1
    <3>2. CASE m > k
      <4>1. m - 1 \in DOMAIN r /\ from(m - 1) = m
        BY <1>1, <1>2, <3>2
      <4> QED BY <4>1
    <3> QED BY <1>1, <1>2, <3>1, <3>2
  <2> QED BY <2>1, <2>2, <2>3
<1> HIDE DEF from
<1>4. \A l, m \in DOMAIN r : r[l] = r[m] => l = m
  BY <1>3
<1>5. \A x : Contains(r, x) <=> Contains(o, x) /\ x # o[k]
  <2> SUFFICES ASSUME NEW x PROVE Contains(r, x) <=> Contains(o, x) /\ x # o[k]
    OBVIOUS
  <2>1. Contains(r, x) <=> \E l \in DOMAIN r : r[l] = x
    BY <1>2 DEF Contains
  <2>2. Contains(o, x) <=> \E m \in DOMAIN o : o[m] = x
    BY <1>2 DEF Contains
  <2>3. k \in DOMAIN o
    BY <1>2
  <2> QED BY <1>3, <2>1, <2>2, <2>3
<1> QED BY <1>4, <1>5 DEF r

-----------------------------------------------------------------------------
\* The scheduler: enabled tasks and registered jobs agree.

\* A dictionary and the order of its keys, in memory or read from the file.
Keyed(t, o) ==
  /\ t \in [TaskName -> Entry \union {NoEntry}]
  /\ o \in Seq(TaskName)
  /\ \A k, l \in DOMAIN o : o[k] = o[l] => k = l
  /\ \A i \in TaskName : t[i] # NoEntry <=> Contains(o, i)

SchedulerIInv ==
  /\ SchedulerTypeOK
  /\ Keyed(table, order)
  /\ saved # Torn => Keyed(saved.table, saved.order)
  /\ EnabledAreScheduled

-----------------------------------------------------------------------------
\* A key is appended once, and one that is removed is gone.
LEMMA AppendKeeps ==
  ASSUME NEW t, NEW o, Keyed(t, o), NEW i \in TaskName, NEW e \in Entry, e # NoEntry
  PROVE  Keyed([t EXCEPT ![i] = e], IF Contains(o, i) THEN o ELSE Append(o, i))
<1>1. CASE Contains(o, i)
  BY <1>1 DEF Keyed
<1>2. CASE ~Contains(o, i)
  <2>1. /\ Append(o, i) \in Seq(TaskName) /\ Len(Append(o, i)) = Len(o) + 1
        /\ \A k \in 1..Len(o) : Append(o, i)[k] = o[k]
        /\ Append(o, i)[Len(o) + 1] = i
    BY DEF Keyed
  <2>2. \A k, l \in DOMAIN Append(o, i) : Append(o, i)[k] = Append(o, i)[l] => k = l
    BY <1>2, <2>1 DEF Keyed, Contains
  <2>3. \A j \in TaskName : Contains(Append(o, i), j) <=> Contains(o, j) \/ j = i
    BY <1>2, <2>1 DEF Keyed, Contains
  <2> QED BY <1>2, <2>1, <2>2, <2>3 DEF Keyed
<1> QED BY <1>1, <1>2

LEMMA RemoveKeeps ==
  ASSUME NEW t, NEW o, Keyed(t, o), NEW i \in TaskName, t[i] # NoEntry
  PROVE  Keyed([t EXCEPT ![i] = NoEntry], RemoveAt(o, CHOOSE k \in DOMAIN o : o[k] = i))
<1> DEFINE k == CHOOSE k \in DOMAIN o : o[k] = i
           r == RemoveAt(o, k)
<1>1. k \in 1..Len(o) /\ o[k] = i /\ o \in Seq(TaskName)
  BY DEF Keyed, Contains
<1>2. \A l, m \in DOMAIN o : o[l] = o[m] => l = m
  BY DEF Keyed
<1> HIDE DEF k
<1>3. r \in Seq(TaskName)
  BY <1>1, RemoveAtElements
<1>4. \A l, m \in DOMAIN r : r[l] = r[m] => l = m
  BY <1>1, <1>2, RemoveAtKeys
<1>5. \A j : Contains(r, j) <=> Contains(o, j) /\ j # i
  BY <1>1, <1>2, RemoveAtKeys
<1>6. Keyed([t EXCEPT ![i] = NoEntry], r)
  BY <1>3, <1>4, <1>5 DEF Keyed
<1> QED BY <1>6 DEF r, k

\* A task that changes keeps its key.
LEMMA ChangeKeeps ==
  ASSUME NEW t, NEW o, Keyed(t, o), NEW i \in TaskName, t[i] # NoEntry,
         NEW e \in Entry, e # NoEntry
  PROVE  Keyed([t EXCEPT ![i] = e], o)
BY DEF Keyed

\* Whatever a save leaves, the file holds a dictionary or nothing that can be read.
LEMMA SaveKeeps ==
  ASSUME SchedulerIInv, NEW t, NEW o, Keyed(t, o), SaveTasks(t, o)
  PROVE  (saved # Torn => Keyed(saved.table, saved.order))'
<1>1. CASE saved' = [table |-> t, order |-> o]
  BY <1>1 DEF Keyed
<1>2. CASE saved' = saved
  BY <1>2 DEF SchedulerIInv, Keyed
<1> QED BY <1>1, <1>2 DEF SaveTasks

LEMMA RegisteredType ==
  ASSUME SchedulerIInv, NEW i \in TaskName, NEW trigger \in Triggers
  PROVE  /\ Registered(jobs, i, trigger) \in [TaskName -> Triggers \union {NoJob}]
         /\ Registered(jobs, i, trigger)[i] = Registered(NoJobs, i, trigger)[i]
         /\ \A j \in TaskName : j # i => Registered(jobs, i, trigger)[j] = jobs[j]
BY DEF SchedulerIInv, SchedulerTypeOK, Registered, NoJobs

-----------------------------------------------------------------------------
LEMMA AddPreserves ==
  ASSUME SchedulerIInv, NEW i \in TaskName, NEW e \in Entry, AddTask(i, e)
  PROVE  SchedulerIInv'
<1>1. table' = [table EXCEPT ![i] = e] /\ Keyed(table', order')
  BY AppendKeeps, SchedulerAssumption DEF AddTask, SchedulerIInv
<1>2. (saved # Torn => Keyed(saved.table, saved.order))'
  BY <1>1, SaveKeeps DEF AddTask
<1>3. e.trigger \in Triggers
  BY DEF Entry
<1>4. SchedulerTypeOK'
  BY <1>1, <1>3, RegisteredType DEF AddTask, SchedulerIInv, SchedulerTypeOK, Keyed
<1>5. EnabledAreScheduled'
  <2> SUFFICES ASSUME NEW j \in TaskName
               PROVE  /\ state' = "started" /\ table'[j] # NoEntry /\ table'[j].enabled =>
                           jobs'[j] = Registered(NoJobs, j, table'[j].trigger)[j]
                      /\ jobs'[j] # NoJob => table'[j] # NoEntry
    BY DEF EnabledAreScheduled, Registered, NoJobs
  <2>1. CASE j = i
    BY <1>1, <1>3, <2>1, RegisteredType, SchedulerAssumption DEF AddTask, SchedulerIInv, SchedulerTypeOK
  <2>2. CASE j # i
    BY <1>1, <1>3, <2>2, RegisteredType DEF AddTask, SchedulerIInv, SchedulerTypeOK, EnabledAreScheduled
  <2> QED BY <2>1, <2>2
<1> QED BY <1>1, <1>2, <1>4, <1>5 DEF SchedulerIInv, Keyed

LEMMA RemovePreserves ==
  ASSUME SchedulerIInv, NEW i \in TaskName, RemoveTask(i)
  PROVE  SchedulerIInv'
<1>1. Keyed(table', order')
  BY RemoveKeeps DEF RemoveTask, SchedulerIInv
<1>2. (saved # Torn => Keyed(saved.table, saved.order))'
  BY <1>1, SaveKeeps DEF RemoveTask
<1>3. SchedulerTypeOK'
  BY <1>1 DEF RemoveTask, SchedulerIInv, SchedulerTypeOK, Keyed
<1>4. EnabledAreScheduled'
  BY DEF RemoveTask, SchedulerIInv, SchedulerTypeOK, EnabledAreScheduled, Registered, NoJobs
<1> QED BY <1>1, <1>2, <1>3, <1>4 DEF SchedulerIInv, Keyed

\* Enabling or disabling a task that is there.
LEMMA ChangePreserves ==
  ASSUME SchedulerIInv, NEW i \in TaskName, EnableTask(i) \/ DisableTask(i)
  PROVE  SchedulerIInv'
<1>1. table[i] \in Entry /\ table[i].trigger \in Triggers
  BY DEF EnableTask, DisableTask, SchedulerIInv, SchedulerTypeOK, Entry
<1>2. PICK b \in BOOLEAN : table' = [table EXCEPT ![i].enabled = b] /\ (b <=> EnableTask(i))
  <2>1. CASE EnableTask(i)
    BY <2>1 DEF EnableTask
  <2>2. CASE ~EnableTask(i)
    BY <2>2 DEF DisableTask
  <2> QED BY <2>1, <2>2
<1> DEFINE n == [table[i] EXCEPT !.enabled = b]
<1>3. n \in Entry /\ n # NoEntry /\ n.trigger = table[i].trigger /\ n.enabled = b
  BY <1>1, SchedulerAssumption DEF Entry
<1>4. table' = [table EXCEPT ![i] = n] /\ order' = order /\ state' = state
  BY <1>1, <1>2 DEF EnableTask, DisableTask, SchedulerIInv, SchedulerTypeOK
<1> HIDE DEF n
<1>5. Keyed(table', order')
  BY <1>3, <1>4, ChangeKeeps DEF EnableTask, DisableTask, SchedulerIInv
<1>6. (saved # Torn => Keyed(saved.table, saved.order))'
  BY <1>4, <1>5, SaveKeeps DEF EnableTask, DisableTask, SchedulerIInv, Keyed
<1>7. jobs' = IF b THEN Registered(jobs, i, n.trigger) ELSE [jobs EXCEPT ![i] = NoJob]
  BY <1>2, <1>3 DEF EnableTask, DisableTask
<1>8. SchedulerTypeOK'
  BY <1>1, <1>3, <1>4, <1>5, <1>7, RegisteredType DEF SchedulerIInv, SchedulerTypeOK, Keyed
<1>9. EnabledAreScheduled'
  <2> SUFFICES ASSUME NEW j \in TaskName
               PROVE  /\ state' = "started" /\ table'[j] # NoEntry /\ table'[j].enabled =>
                           jobs'[j] = Registered(NoJobs, j, table'[j].trigger)[j]
                      /\ jobs'[j] # NoJob => table'[j] # NoEntry
    BY DEF EnabledAreScheduled, Registered, NoJobs
  <2>1. CASE j = i
    BY <1>1, <1>3, <1>4, <1>7, <2>1, RegisteredType DEF SchedulerIInv, SchedulerTypeOK
  <2>2. CASE j # i
    BY <1>1, <1>3, <1>4, <1>7, <2>2, RegisteredType DEF SchedulerIInv, SchedulerTypeOK, EnabledAreScheduled
  <2> QED BY <2>1, <2>2
<1> QED BY <1>5, <1>6, <1>8, <1>9 DEF SchedulerIInv, Keyed

LEMMA OnTriggerPreserves ==
  ASSUME SchedulerIInv, NEW i \in TaskName, OnTrigger(i)
  PROVE  SchedulerIInv'
<1>1. (saved # Torn => Keyed(saved.table, saved.order))'
  BY SaveKeeps DEF OnTrigger, SchedulerIInv
<1> QED BY <1>1 DEF OnTrigger, SchedulerIInv, SchedulerTypeOK, Keyed, EnabledAreScheduled, Registered, NoJobs

-----------------------------------------------------------------------------
\* What was read from the file, or nothing, is a dictionary; no job is there yet.
LEMMA ConstructPreserves ==
  ASSUME SchedulerIInv, Construct
  PROVE  SchedulerIInv'
<1>1. Keyed(Nothing, <<>>)
  BY DEF Keyed, Nothing, Contains
<1>2. Keyed(table', order')
  BY <1>1 DEF Construct, SchedulerIInv
<1> QED BY <1>2 DEF Construct, SchedulerIInv, SchedulerTypeOK, Keyed, EnabledAreScheduled, NoJobs

\* If no task refuses, start reaches every key, and so every enabled task.
LEMMA StartPreserves ==
  ASSUME SchedulerIInv, Start
  PROVE  SchedulerIInv'
<1> DEFINE bad == {k \in DOMAIN order : Refuses(order[k])}
           first == IF bad = {} THEN Len(order) + 1 ELSE CHOOSE k \in bad : \A l \in bad : k <= l
           reached == {order[k] : k \in {k \in DOMAIN order : k < first /\ table[order[k]].enabled}}
<1>1. /\ jobs' = [i \in TaskName |-> IF i \in reached THEN Registered(jobs, i, table[i].trigger)[i]
                                     ELSE jobs[i]]
      /\ state' = IF bad = {} THEN "started" ELSE "halfStarted"
      /\ table' = table /\ order' = order /\ saved' = saved
  BY DEF Start
<1>2. \A i \in reached : i \in TaskName /\ table[i] # NoEntry /\ table[i].trigger \in Triggers
  BY DEF SchedulerIInv, Keyed, Contains, Entry
<1>3. ASSUME bad = {}, NEW i \in TaskName, table[i] # NoEntry, table[i].enabled
      PROVE  i \in reached
  BY <1>3 DEF SchedulerIInv, Keyed, Contains
<1> HIDE DEF bad, reached
<1>4. SchedulerTypeOK'
  BY <1>1, <1>2, RegisteredType DEF SchedulerIInv, SchedulerTypeOK
<1>5. EnabledAreScheduled'
  BY <1>1, <1>2, <1>3, RegisteredType DEF SchedulerIInv, EnabledAreScheduled, Registered, NoJobs
<1> QED BY <1>1, <1>4, <1>5 DEF SchedulerIInv, Keyed

LEMMA ShutdownPreserves ==
  ASSUME SchedulerIInv, Shutdown
  PROVE  SchedulerIInv'
BY DEF Shutdown, SchedulerIInv, SchedulerTypeOK, Keyed, EnabledAreScheduled, NoJobs

LEMMA CrashPreserves ==
  ASSUME SchedulerIInv, Crash
  PROVE  SchedulerIInv'
BY DEF Crash, SchedulerIInv, SchedulerTypeOK, Keyed, Contains, EnabledAreScheduled, Nothing, NoJobs

LEMMA SchedulerInvariant == SchedulerSpec => []SchedulerIInv
<1>1. SchedulerInit => SchedulerIInv
  BY DEF SchedulerInit, SchedulerIInv, SchedulerTypeOK, Keyed, Contains, EnabledAreScheduled, Nothing, NoJobs
<1>2. SchedulerIInv /\ [SchedulerNext]_schedulerVars => SchedulerIInv'
  <2> SUFFICES ASSUME SchedulerIInv, [SchedulerNext]_schedulerVars PROVE SchedulerIInv'
    OBVIOUS
  <2>1. CASE Construct \/ Start \/ Shutdown \/ Crash
    BY <2>1, ConstructPreserves, StartPreserves, ShutdownPreserves, CrashPreserves
  <2>2. ASSUME NEW i \in TaskName, NEW e \in Entry, AddTask(i, e) PROVE SchedulerIInv'
    BY <2>2, AddPreserves
  <2>3. ASSUME NEW i \in TaskName, RemoveTask(i) \/ OnTrigger(i) PROVE SchedulerIInv'
    BY <2>3, RemovePreserves, OnTriggerPreserves
  <2>4. ASSUME NEW i \in TaskName, EnableTask(i) \/ DisableTask(i) PROVE SchedulerIInv'
    BY <2>4, ChangePreserves
  <2>5. CASE UNCHANGED schedulerVars
    BY <2>5 DEF schedulerVars, SchedulerIInv, SchedulerTypeOK, Keyed, EnabledAreScheduled, Registered, NoJobs
  <2> QED BY <2>1, <2>2, <2>3, <2>4, <2>5 DEF SchedulerNext
<1> QED BY <1>1, <1>2, PTL DEF SchedulerSpec

\* Types, and that the table and the order of its keys name the same tasks.
THEOREM SchedulerTypeCorrect == SchedulerSpec => []SchedulerTypeOK
BY SchedulerInvariant, PTL DEF SchedulerIInv

\* A scheduler that was started without an error has exactly the job each enabled
\* task asks for, and none of a task that is gone, through every sequence of
\* operations, failed saves, torn files and restarts.
THEOREM JobsFollowTasks == SchedulerSpec => []EnabledAreScheduled
BY SchedulerInvariant, PTL DEF SchedulerIInv

-----------------------------------------------------------------------------
\* Web connections: one that met no other of its id is served through its own
\* entries of the two tables.

\* A connection has its client's id from accept() on.
Named == \A k \in Conn : chat[k] \in Present \union {"accept"} => client[k] \in ClientId

\* Two connections of one id that are present at once have met: the later one
\* found the earlier one when it was registered.
MetIfSameId ==
  \A k, l \in Conn :
    k # l /\ chat[k] \in Present /\ chat[l] \in Present /\ client[k] = client[l] => k \in shared

WebIInv == WebTypeOK /\ Named /\ MetIfSameId /\ OwnUnlessShared

-----------------------------------------------------------------------------
\* A connection that leaves, with its entries or without, takes no entry of one
\* it has not met.
LEMMA LeavingKeepsOthers ==
  ASSUME WebIInv, NEW k \in Conn, chat[k] \in Present, Disconnects(k) \/ LeavesEntries(k)
  PROVE  WebIInv'
<1> USE DEF Disconnects, LeavesEntries, Leaves, Forget, Goto, Present
<1>1. WebTypeOK'
  BY DEF WebIInv, WebTypeOK, Named
<1>2. Named' /\ MetIfSameId'
  BY DEF WebIInv, WebTypeOK, Named, MetIfSameId
<1>3. OwnUnlessShared'
  BY DEF WebIInv, WebTypeOK, Named, MetIfSameId, OwnUnlessShared
<1> QED BY <1>1, <1>2, <1>3 DEF WebIInv

\* A connection that stays where it is, or goes on, leaves the tables alone.
LEMMA StayingKeepsTables ==
  ASSUME WebIInv, NEW k \in Conn, chat[k] \in Present \ {"init"},
         NEW where \in Present \ {"init"}, Stays(k, where)
  PROVE  WebIInv'
BY DEF Stays, Goto, Present, WebIInv, WebTypeOK, Named, MetIfSameId, OwnUnlessShared

\* Registration: all that are present under this id have now met.
LEMMA RegisterPreserves ==
  ASSUME WebIInv, NEW k \in Conn, Register(k)
  PROVE  WebIInv'
<1> DEFINE met == {l \in Conn : chat[l] \in Present /\ client[l] = client[k]}
<1>1. client[k] \in ClientId /\ chat[k] = "accept" /\ client' = client /\ mine' = mine
  BY DEF Register, WebIInv, Named
<1>2. shared' = IF met = {} THEN shared ELSE shared \union met \union {k}
  BY DEF Register
<1>3. met \subseteq shared' /\ shared \subseteq shared' /\ (met # {} => k \in shared')
  BY <1>2
<1>4. \/ chat' = [chat EXCEPT ![k] = "init"] /\ agents' = [agents EXCEPT ![client[k]] = k]
      \/ chat' = [chat EXCEPT ![k] = "gone"] /\ agents' = agents
  BY DEF Register, Goto
<1>5. active' = [active EXCEPT ![client[k]] = k]
  BY DEF Register
<1>6. WebTypeOK'
  BY <1>1, <1>2, <1>4, <1>5 DEF Register, WebIInv, WebTypeOK, Present
<1>7. Named' /\ MetIfSameId'
  BY <1>1, <1>3, <1>4 DEF WebIInv, WebTypeOK, Named, MetIfSameId, Present
<1>8. OwnUnlessShared'
  BY <1>1, <1>3, <1>4, <1>5 DEF WebIInv, WebTypeOK, Named, OwnUnlessShared, Present
<1> QED BY <1>6, <1>7, <1>8 DEF WebIInv

LEMMA ChatPreserves ==
  ASSUME WebIInv, NEW k \in Conn, Chat(k)
  PROVE  WebIInv'
<1> USE DEF Goto, Present
<1>1. ASSUME NEW i \in ClientId, Accept(k, i) PROVE WebIInv'
  BY <1>1 DEF Accept, WebIInv, WebTypeOK, Named, MetIfSameId, OwnUnlessShared
<1>2. CASE Register(k)
  BY <1>2, RegisterPreserves
<1>3. CASE Initialised(k)
  BY <1>3 DEF Initialised, WebIInv, WebTypeOK, Named, MetIfSameId, OwnUnlessShared
<1>4. CASE Receive(k)
  BY <1>4, StayingKeepsTables, LeavingKeepsOthers DEF Receive, SendFails
<1>5. CASE Unreadable(k)
  BY <1>5, LeavingKeepsOthers DEF Unreadable
<1>6. CASE PeerGone(k)
  BY <1>6, LeavingKeepsOthers DEF PeerGone
<1>7. CASE Answer(k)
  BY <1>7, StayingKeepsTables, LeavingKeepsOthers DEF Answer, SendFails
<1>8. CASE Closes(k)
  BY <1>8 DEF Closes, WebIInv, WebTypeOK, Named, MetIfSameId, OwnUnlessShared
<1> QED BY <1>1, <1>2, <1>3, <1>4, <1>5, <1>6, <1>7, <1>8 DEF Chat

LEMMA WebInvariant == WebSpec => []WebIInv
<1>1. WebInit => WebIInv
  BY DEF WebInit, WebIInv, WebTypeOK, Named, MetIfSameId, OwnUnlessShared, Present
<1>2. WebIInv /\ [WebNext]_webVars => WebIInv'
  <2> SUFFICES ASSUME WebIInv, [WebNext]_webVars PROVE WebIInv'
    OBVIOUS
  <2>1. CASE \E k \in Conn : Chat(k)
    BY <2>1, ChatPreserves
  <2>2. CASE UNCHANGED webVars
    BY <2>2 DEF webVars, WebIInv, WebTypeOK, Named, MetIfSameId, OwnUnlessShared
  <2> QED BY <2>1, <2>2 DEF WebNext, AllGone
<1> QED BY <1>1, <1>2, PTL DEF WebSpec

\* Types, and with them that the two tables hold connections only.
THEOREM WebTypeCorrect == WebSpec => []WebTypeOK
BY WebInvariant, PTL DEF WebIInv

\* However other connections come, fail and leave: one whose client id nobody
\* else used at the same time has its own socket and agent in the tables, and
\* its coroutine holds its own agent.
THEOREM OwnEntries == WebSpec => []OwnUnlessShared
BY WebInvariant, PTL DEF WebIInv

-----------------------------------------------------------------------------
\* Turns and learners: a store whose file is behind is being saved, or one of
\* its saves has failed or met another.

\* A save that no longer writes the latest state has met another of its store.
OvertakenIsExcused ==
  \A a \in Actor : \A x \in saving[a] : ~x.latest => x.store \in excused

TurnsIInv == TurnsTypeOK /\ OvertakenIsExcused /\ SavedUnlessFailed

\* What every step of a turn or a learner is that neither opens nor closes a
\* session: with no save of its own in progress it begins one, or goes on.
WritesOrMoves(a) ==
  /\ saving[a] = {}
  /\ \/ \E s \in Store, then, else \in Places : BeginSave(a, s, then, else)
     \/ \E where \in Places : GoOn(a, where)

-----------------------------------------------------------------------------
\* A save that begins makes the others of its store excused, and is itself why
\* the file may be behind.
LEMMA SavePreserves ==
  ASSUME TurnsIInv, NEW a \in Actor, saving[a] = {},
         NEW s \in Store, NEW then \in Places, NEW else \in Places, BeginSave(a, s, then, else)
  PROVE  TurnsIInv'
<1> DEFINE also == {b \in Actor \ {a} : \E x \in saving[b] : x.store = s}
           begun(l) == [store |-> s, latest |-> l]
<1>1. saving' = [b \in Actor |-> IF b = a THEN {begun(TRUE)}
                                 ELSE IF b \in also THEN {begun(FALSE)} ELSE saving[b]]
  BY DEF BeginSave
<1>2. /\ file' = [file EXCEPT ![s] = IF s \in InPlace THEN "torn" ELSE "behind"]
      /\ excused' = IF also = {} THEN excused ELSE excused \union {s}
      /\ at' = [at EXCEPT ![a] = then] /\ orElse' = [orElse EXCEPT ![a] = else]
      /\ sessionActive' = sessionActive
  BY DEF BeginSave
<1> HIDE DEF also
<1>3. TurnsTypeOK'
  <2>1. \A l \in BOOLEAN : begun(l) \in [store : Store, latest : BOOLEAN]
    OBVIOUS
  <2>2. saving' \in [Actor -> SUBSET [store : Store, latest : BOOLEAN]]
    <3> DEFINE R == [store : Store, latest : BOOLEAN]
    <3>1. \A b \in Actor : saving[b] \in SUBSET R
      BY DEF TurnsIInv, TurnsTypeOK
    <3>2. {begun(TRUE)} \in SUBSET R /\ {begun(FALSE)} \in SUBSET R
      BY <2>1
    <3> HIDE DEF begun, R
    <3>3. \A b \in Actor : (IF b = a THEN {begun(TRUE)}
                            ELSE IF b \in also THEN {begun(FALSE)} ELSE saving[b]) \in SUBSET R
      BY <3>1, <3>2
    <3>4. saving' \in [Actor -> SUBSET R]
      BY <1>1, <3>3
    <3> QED BY <3>4 DEF R
  <2>3. \A b \in Actor : \A x, y \in saving'[b] : x = y
    <3> HIDE DEF begun
    <3> QED BY <1>1 DEF TurnsIInv, TurnsTypeOK
  <2> QED BY <1>2, <2>2, <2>3 DEF TurnsIInv, TurnsTypeOK
<1>4. OvertakenIsExcused'
  BY <1>1, <1>2 DEF TurnsIInv, OvertakenIsExcused
<1>5. SavedUnlessFailed'
  <2> SUFFICES ASSUME NEW z \in Store, file'[z] # "current"
               PROVE  z \in excused' \/ \E b \in Actor : \E x \in saving'[b] : x.store = z
    BY DEF SavedUnlessFailed
  <2>1. CASE z = s
    <3>1. begun(TRUE) \in saving'[a] /\ begun(TRUE).store = z
      BY <1>1, <2>1
    <3> QED BY <3>1
  <2>2. CASE z # s
    <3>1. file[z] # "current" /\ excused \subseteq excused'
      BY <1>2, <2>2 DEF TurnsIInv, TurnsTypeOK
    <3>2. CASE z \in excused
      BY <3>1, <3>2
    <3>3. CASE \E b \in Actor : \E x \in saving[b] : x.store = z
      <4>1. PICK b \in Actor : \E x \in saving[b] : x.store = z
        BY <3>3
      <4>2. b # a /\ b \notin also
        <5>1. b # a
          BY <4>1
        <5>2. ASSUME b \in also PROVE FALSE
          BY <4>1, <5>2, <2>2 DEF also, TurnsIInv, TurnsTypeOK
        <5> QED BY <5>1, <5>2
      <4>3. saving'[b] = saving[b]
        BY <1>1, <4>2
      <4> QED BY <4>1, <4>3
    <3> QED BY <3>1, <3>2, <3>3 DEF TurnsIInv, SavedUnlessFailed
  <2> QED BY <2>1, <2>2
<1> QED BY <1>3, <1>4, <1>5 DEF TurnsIInv

LEMMA GotoPreserves ==
  ASSUME TurnsIInv, NEW a \in Actor, NEW where \in Places, GoOn(a, where)
  PROVE  TurnsIInv'
BY DEF GoOn, TurnsIInv, TurnsTypeOK, OvertakenIsExcused, SavedUnlessFailed

LEMMA StepPreserves ==
  ASSUME TurnsIInv, NEW a \in Actor, WritesOrMoves(a)
  PROVE  TurnsIInv'
BY SavePreserves, GotoPreserves DEF WritesOrMoves

-----------------------------------------------------------------------------
\* A save that ends: its file is the latest, unless it was overtaken or torn,
\* and only the last one of a store to end well takes the excuse away.
LEMMA SavedPreserves ==
  ASSUME TurnsIInv, NEW a \in Actor, Saved(a)
  PROVE  TurnsIInv'
<1>1. PICK x \in saving[a] :
        /\ saving' = [saving EXCEPT ![a] = {}]
        /\ \E now \in (IF x.latest THEN {"current"} ELSE {"current", "behind"}) \union
                      (IF x.store \in InPlace /\ x.store \in excused THEN {"torn"} ELSE {}) :
             /\ file' = [file EXCEPT ![x.store] = now]
             /\ excused' = IF now = "current" /\ ~OthersSave(a, x.store)
                           THEN excused \ {x.store} ELSE excused
        /\ UNCHANGED <<at, orElse, sessionActive>>
  BY DEF Saved
<1>2. PICK now \in (IF x.latest THEN {"current"} ELSE {"current", "behind"}) \union
                   (IF x.store \in InPlace /\ x.store \in excused THEN {"torn"} ELSE {}) :
        /\ file' = [file EXCEPT ![x.store] = now]
        /\ excused' = IF now = "current" /\ ~OthersSave(a, x.store)
                      THEN excused \ {x.store} ELSE excused
  BY <1>1
<1>3. x.store \in Store /\ x.latest \in BOOLEAN /\ now \in {"current", "behind", "torn"}
  BY <1>2 DEF TurnsIInv, TurnsTypeOK
<1>4. now # "current" => x.store \in excused /\ excused' = excused
  BY <1>2, <1>3 DEF TurnsIInv, OvertakenIsExcused
<1>5. \A b \in Actor : saving'[b] = IF b = a THEN {} ELSE saving[b]
  BY <1>1 DEF TurnsIInv, TurnsTypeOK
<1>6. \A z \in Store : z # x.store => (z \in excused' <=> z \in excused) /\ file'[z] = file[z]
  BY <1>2 DEF TurnsIInv, TurnsTypeOK
<1>7. TurnsTypeOK'
  BY <1>1, <1>2, <1>3 DEF TurnsIInv, TurnsTypeOK
<1>8. OvertakenIsExcused'
  <2> SUFFICES ASSUME NEW b \in Actor, NEW y \in saving'[b], ~y.latest
               PROVE  y.store \in excused'
    BY DEF OvertakenIsExcused
  <2>1. b # a /\ y \in saving[b] /\ y.store \in Store
    BY <1>5 DEF TurnsIInv, TurnsTypeOK
  <2>2. y.store \in excused
    BY <2>1 DEF TurnsIInv, OvertakenIsExcused
  <2>3. CASE y.store = x.store
    BY <1>2, <2>1, <2>2, <2>3 DEF OthersSave
  <2> QED BY <1>6, <2>1, <2>2, <2>3
<1>9. SavedUnlessFailed'
  <2> SUFFICES ASSUME NEW z \in Store, file'[z] # "current"
               PROVE  z \in excused' \/ \E b \in Actor : \E y \in saving'[b] : y.store = z
    BY DEF SavedUnlessFailed
  <2>1. CASE z = x.store
    BY <1>2, <1>3, <1>4, <2>1 DEF TurnsIInv, TurnsTypeOK
  <2>2. CASE z # x.store
    <3>1. z \in excused \/ \E b \in Actor : \E y \in saving[b] : y.store = z
      BY <1>6, <2>2 DEF TurnsIInv, SavedUnlessFailed
    <3>2. \A b \in Actor : \A y \in saving[b] : y.store = z => b # a
      BY <1>1, <2>2 DEF TurnsIInv, TurnsTypeOK
    <3> QED BY <1>5, <1>6, <2>2, <3>1, <3>2
  <2> QED BY <2>1, <2>2
<1> QED BY <1>7, <1>8, <1>9 DEF TurnsIInv

LEMMA SaveRaisesPreserves ==
  ASSUME TurnsIInv, NEW a \in Actor, SaveRaises(a)
  PROVE  TurnsIInv'
<1>1. PICK x \in saving[a] :
        /\ saving' = [saving EXCEPT ![a] = {}]
        /\ excused' = excused \union {x.store}
        /\ at' = [at EXCEPT ![a] = orElse[a]]
        /\ UNCHANGED <<orElse, file, sessionActive>>
  BY DEF SaveRaises
<1>2. \A b \in Actor : saving'[b] = IF b = a THEN {} ELSE saving[b]
  BY <1>1 DEF TurnsIInv, TurnsTypeOK
<1>3. TurnsTypeOK'
  BY <1>1, <1>2 DEF TurnsIInv, TurnsTypeOK
<1>4. OvertakenIsExcused'
  BY <1>1, <1>2 DEF TurnsIInv, OvertakenIsExcused
<1>5. SavedUnlessFailed'
  <2> SUFFICES ASSUME NEW z \in Store, file'[z] # "current", z \notin excused'
               PROVE  \E b \in Actor : \E y \in saving'[b] : y.store = z
    BY DEF SavedUnlessFailed
  <2>1. PICK b \in Actor : \E y \in saving[b] : y.store = z
    BY <1>1 DEF TurnsIInv, SavedUnlessFailed
  <2>2. b # a
    BY <1>1, <2>1 DEF TurnsIInv, TurnsTypeOK
  <2> QED BY <1>2, <2>1, <2>2
<1> QED BY <1>3, <1>4, <1>5 DEF TurnsIInv

-----------------------------------------------------------------------------
\* The steps that write through one of the stores, or only go on.
LEMMA TurnWritesOrMoves ==
  ASSUME \/ Reflect \/ ConfidenceChange \/ StartChat \/ ApplySignals \/ Emotion \/ Mood
         \/ Route \/ Plan \/ Skill \/ BuildSystemPrompt \/ Model \/ FinalizeResponse
         \/ LearnFromTurn \/ LearnFromFeedback \/ ApplyFeedback \/ Failed
         \/ EndSession \/ RecordRelationshipEvent \/ CountSession \/ Checkpoint
  PROVE  WritesOrMoves("turn")
<1> USE DEF Here, WritesOrMoves, Store, Places
<1>1. CASE Reflect \/ ConfidenceChange
  BY <1>1 DEF Reflect, ConfidenceChange, AddReflection, UpdateProfile, AddRule, AddKnowledge, Adjust
<1>2. CASE StartChat \/ ApplySignals \/ Emotion \/ Mood
  BY <1>2 DEF StartChat, ApplySignals, Emotion, Mood, Adjust, UpdateFromInteraction
<1>3. CASE Route \/ Plan \/ Skill \/ BuildSystemPrompt \/ Model
  BY <1>3 DEF Route, Plan, Skill, BuildSystemPrompt, Model, AddKnowledge, SearchKnowledge
<1>4. CASE FinalizeResponse
  BY <1>4 DEF FinalizeResponse, OnTurnComplete, ScanAndLearn, ExecuteAction, DetectFeedback,
              AdaptFromFeedback, AddTriple, AddKnowledge, UpdateProfile, Adjust
<1>5. CASE LearnFromTurn \/ LearnFromFeedback \/ ApplyFeedback \/ Failed
  BY <1>5 DEF LearnFromTurn, ApplyToMemory, LearnFromFeedback, ApplyFeedback, Failed,
              AddTriple, AddKnowledge, SearchKnowledge, UpdateProfile, AddRule
<1>6. CASE EndSession \/ RecordRelationshipEvent \/ CountSession \/ Checkpoint
  BY <1>6 DEF EndSession, RecordRelationshipEvent, CountSession, Checkpoint, AddEvent, SaveMeta,
              IncrementSessionCount, SaveCheckpoint
<1> QED BY <1>1, <1>2, <1>3, <1>4, <1>5, <1>6

\* The steps that open or close a session, or start its learner.
LEMMA SessionPreserves ==
  ASSUME TurnsIInv, (\E r \in BOOLEAN : StartSession(r)) \/ Inactive \/ Launch
  PROVE  TurnsIInv'
<1> USE DEF TurnsIInv, TurnsTypeOK, OvertakenIsExcused, SavedUnlessFailed, Actor, Places
<1>1. ASSUME NEW r \in BOOLEAN, StartSession(r) PROVE TurnsIInv'
  BY <1>1 DEF StartSession
<1>2. CASE Inactive
  BY <1>2 DEF Inactive
<1>3. CASE Launch
  BY <1>3 DEF Launch
<1> QED BY <1>1, <1>2, <1>3

LEMMA LearnerWritesOrMoves ==
  ASSUME LearnFromSession
  PROVE  WritesOrMoves("learner")
BY DEF LearnFromSession, ApplyToMemory, AddTriple, UpdateProfile, AddKnowledge, Here,
       WritesOrMoves, Store, Places

LEMMA RestartPreserves ==
  ASSUME TurnsIInv, Restart
  PROVE  TurnsIInv'
BY DEF Restart, TurnsIInv, TurnsTypeOK, OvertakenIsExcused, SavedUnlessFailed, Places

LEMMA TurnsInvariant == TurnsSpec => []TurnsIInv
<1>1. TurnsInit => TurnsIInv
  BY DEF TurnsInit, TurnsIInv, TurnsTypeOK, OvertakenIsExcused, SavedUnlessFailed, Places
<1>2. TurnsIInv /\ [TurnsNext]_turnVars => TurnsIInv'
  <2> SUFFICES ASSUME TurnsIInv, [TurnsNext]_turnVars PROVE TurnsIInv'
    OBVIOUS
  <2>0. "turn" \in Actor /\ "learner" \in Actor
    BY DEF Actor
  <2>1. CASE Turn
    BY <2>0, <2>1, TurnWritesOrMoves, SessionPreserves, StepPreserves DEF Turn
  <2>2. CASE LearnFromSession
    BY <2>0, <2>2, LearnerWritesOrMoves, StepPreserves
  <2>3. CASE Restart
    BY <2>3, RestartPreserves
  <2>4. CASE \E a \in Actor : Saved(a) \/ SaveRaises(a)
    BY <2>4, SavedPreserves, SaveRaisesPreserves
  <2>5. CASE UNCHANGED turnVars
    BY <2>5 DEF turnVars, TurnsIInv, TurnsTypeOK, OvertakenIsExcused, SavedUnlessFailed
  <2> QED BY <2>1, <2>2, <2>3, <2>4, <2>5 DEF TurnsNext
<1> QED BY <1>1, <1>2, PTL DEF TurnsSpec

\* Types, and that an actor waits for one save at a time.
THEOREM TurnsTypeCorrect == TurnsSpec => []TurnsTypeOK
BY TurnsInvariant, PTL DEF TurnsIInv

\* What was learned in memory is in its file, whatever order turns, learners,
\* failures and restarts come in -- unless it is being saved, or a save of that
\* store has raised or met another and none has gone well since.
THEOREM LearnedIsSaved == TurnsSpec => []SavedUnlessFailed
BY TurnsInvariant, PTL DEF TurnsIInv
-----------------------------------------------------------------------------
\* Calls of MCP tools: what a call is made under is what was seen first.

\* What a call was vetted against is the schema seen first, when it did not
\* look riskier than it did then.
UnderFirstSeen ==
  \A c \in Call : under[c] # NoSchema =>
    /\ tool[c] \in Tool /\ seen[tool[c]] # NoSchema
    /\ under[c].schema = seen[tool[c]].schema /\ under[c].risk <= seen[tool[c]].risk

\* A tool whose description is gathered has its schema published, unless the
\* sessions are gone and the listing with them.
GatheredIsPublished ==
  doing = "listing" /\ sessions # {} =>
    \A t \in Tool : gathered[t] # NoTool => schemas[t] # NoSchema

\* A call is let through once, and waits in the queue at most once.
NewHasNoSchema == \A c \in Call : stage[c] = "new" => under[c] = NoSchema
QueuedOnce == \A k, l \in DOMAIN pending : pending[k] = pending[l] => k = l
QueuedIsPending == \A c \in Call : Contains(pending, c) => stage[c] = "pending"

\* Outside of a listing nothing is gathered.
GatheredWhenListing == doing # "listing" => gathered = NoTools

CallsIInv == /\ CallsTypeOK /\ UnderFirstSeen /\ GatheredIsPublished /\ GatheredWhenListing
             /\ NewHasNoSchema /\ QueuedOnce /\ QueuedIsPending

\* Levels of risk are numbers, and so is what an audit finds.
LEMMA AuditedIsRisk ==
  ASSUME NEW s \in Schema, NEW d \in Risk
  PROVE  Audited(s, d) \in Risk
BY ToolAssumption DEF Audited

\* What is seen of a tool is only ever added.
SeenOnce == \A t \in Tool : seen[t] # NoSchema => seen'[t] = seen[t]

\* The queue after a clean-up, a request that gives way and a new one: no
\* request is in it that was not before, and none twice.
LEMMA EnqueuedKeys ==
  ASSUME CallsIInv, NEW c \in Call, ~Contains(pending, c)
  PROVE  /\ Enqueued(c) \in Seq(Call) /\ Len(Enqueued(c)) <= MaxPending
         /\ \A k, l \in DOMAIN Enqueued(c) : Enqueued(c)[k] = Enqueued(c)[l] => k = l
         /\ \A d : Contains(Enqueued(c), d) => Contains(pending, d) \/ d = c
<1> DEFINE kept == IF Len(CleanedUp) >= MaxPending THEN Tail(CleanedUp) ELSE CleanedUp
           q == Enqueued(c)
<1>1. /\ pending \in Seq(Call) /\ aged \in 0..Len(pending) /\ Len(pending) \in Nat
      /\ Len(pending) <= MaxPending /\ MaxPending \in Nat \ {0}
      /\ DOMAIN pending = 1..Len(pending)
  BY ToolAssumption DEF CallsIInv, CallsTypeOK
<1>2. /\ CleanedUp \in Seq(Call) /\ Len(CleanedUp) = Len(pending) - aged
      /\ \A k \in 1..Len(CleanedUp) : CleanedUp[k] = pending[aged + k]
  BY <1>1 DEF CleanedUp
<1> HIDE DEF q
<1>3. \E skip \in Nat : /\ kept \in Seq(Call) /\ Len(kept) = Len(pending) - skip
                        /\ \A k \in 1..Len(kept) : kept[k] = pending[skip + k]
                        /\ Len(kept) < MaxPending
  <2>1. CASE Len(CleanedUp) >= MaxPending
    <3>0. Len(CleanedUp) = Len(pending) - aged
      BY <1>2
    <3>1. Len(CleanedUp) = MaxPending /\ aged = 0 /\ Len(pending) = MaxPending
      <4> DEFINE l == Len(CleanedUp)
                 p == Len(pending)
      <4>1. /\ aged \in Nat /\ p \in Nat /\ MaxPending \in Nat
            /\ p <= MaxPending /\ l >= MaxPending /\ l = p - aged
        BY <1>1, <2>1, <3>0
      <4> HIDE DEF l, p
      <4>2. l = MaxPending /\ aged = 0 /\ p = MaxPending
        BY <4>1
      <4> QED BY <4>2 DEF l, p
    <3>2. CleanedUp \in Seq(Call) /\ CleanedUp # <<>>
      <4>1. CleanedUp \in Seq(Call)
        BY <1>2
      <4> QED BY <1>1, <3>1, <4>1
    <3>3. Tail(CleanedUp) \in Seq(Call) /\ Len(Tail(CleanedUp)) = MaxPending - 1
      BY <3>1, <3>2
    <3>4. \A k \in 1..Len(Tail(CleanedUp)) : Tail(CleanedUp)[k] = CleanedUp[k + 1]
      BY <3>2
    <3>5. \A k \in 1..Len(Tail(CleanedUp)) : Tail(CleanedUp)[k] = pending[1 + k]
      <4> SUFFICES ASSUME NEW k \in 1..(MaxPending - 1) PROVE CleanedUp[k + 1] = pending[1 + k]
        BY <3>3, <3>4
      <4>1. k + 1 \in 1..Len(CleanedUp) /\ aged + (k + 1) = 1 + k
        BY <1>1, <3>1
      <4> QED BY <1>2, <4>1
    <3>6. kept = Tail(CleanedUp)
      BY <2>1
    <3> HIDE DEF kept
    <3>7. Len(kept) = Len(pending) - 1 /\ Len(kept) < MaxPending
      BY <1>1, <3>1, <3>3, <3>6
    <3> QED BY <3>3, <3>5, <3>6, <3>7
  <2>2. CASE ~(Len(CleanedUp) >= MaxPending)
    <3>1. kept = CleanedUp
      BY <2>2
    <3>2. Len(CleanedUp) = Len(pending) - aged
      BY <1>2
    <3>3. Len(CleanedUp) < MaxPending /\ aged \in Nat
      BY <1>1, <2>2, <3>2
    <3> HIDE DEF kept
    <3> QED BY <1>2, <3>1, <3>3
  <2> QED BY <2>1, <2>2
<1>4. q = Append(kept, c)
  BY DEF q, Enqueued
<1> HIDE DEF kept
<1>5. PICK skip \in Nat : /\ kept \in Seq(Call) /\ Len(kept) = Len(pending) - skip
                          /\ \A k \in 1..Len(kept) : kept[k] = pending[skip + k]
                          /\ Len(kept) < MaxPending
  BY <1>3
<1>6. /\ q \in Seq(Call) /\ Len(q) = Len(kept) + 1 /\ Len(kept) \in Nat
      /\ \A k \in 1..Len(kept) : q[k] = kept[k]
      /\ q[Len(kept) + 1] = c
  <2>1. kept \in Seq(Call)
    BY <1>5
  <2> QED BY <1>4, <2>1
<1>7. \A k \in 1..Len(kept) : skip + k \in DOMAIN pending /\ q[k] = pending[skip + k] /\ q[k] # c
  <2> SUFFICES ASSUME NEW k \in 1..Len(kept)
               PROVE  skip + k \in DOMAIN pending /\ q[k] = pending[skip + k] /\ q[k] # c
    OBVIOUS
  <2>1. skip + k \in 1..Len(pending)
    BY <1>1, <1>5, <1>6
  <2> QED BY <1>1, <1>5, <1>6, <2>1 DEF Contains
<1>8. ASSUME NEW k \in DOMAIN q, NEW l \in DOMAIN q, q[k] = q[l] PROVE k = l
  <2>1. DOMAIN q = 1..(Len(kept) + 1)
    BY <1>6
  <2>2. CASE k \in 1..Len(kept) /\ l \in 1..Len(kept)
    <3>1. skip + k = skip + l
      BY <1>7, <1>8, <2>2 DEF CallsIInv, QueuedOnce
    <3> QED BY <2>2, <3>1
  <2>3. CASE ~(k \in 1..Len(kept) /\ l \in 1..Len(kept))
    BY <1>6, <1>7, <1>8, <2>1, <2>3
  <2> QED BY <2>2, <2>3
<1>9. ASSUME NEW d, Contains(q, d) PROVE Contains(pending, d) \/ d = c
  <2>1. PICK k \in 1..Len(q) : q[k] = d
    BY <1>9 DEF Contains
  <2>2. CASE k \in 1..Len(kept)
    BY <1>1, <1>7, <2>1, <2>2 DEF Contains
  <2>3. CASE k \notin 1..Len(kept)
    BY <1>6, <2>1, <2>3
  <2> QED BY <2>2, <2>3
<1>10. Len(q) <= MaxPending
  BY <1>1, <1>5, <1>6
<1> QED BY <1>6, <1>8, <1>9, <1>10 DEF q

\* A server's list leaves every table a table.
LEMMA ListedTables ==
  ASSUME CallsIInv, NEW s \in todo, NEW l \in Listing(s), sessions # {}, doing = "listing",
         schemas' = [t \in Tool |-> IF l[t] # NoTool THEN l[t][1] ELSE schemas[t]],
         NEW all, all = [t \in Tool |-> IF l[t] # NoTool THEN l[t][2] ELSE gathered[t]]
  PROVE  /\ schemas' \in [Tool -> Schema \union {NoSchema}]
         /\ all \in [Tool -> Risk \union {NoTool}]
         /\ \A t \in Tool : all[t] # NoTool =>
              schemas'[t] \in Schema /\ Audited(schemas'[t], all[t]) \in Risk
<1>1. \A t \in Tool : l[t] # NoTool => l[t][1] \in Schema /\ l[t][2] \in Risk
  BY ToolAssumption DEF Listing
<1>2. \A t \in Tool : all[t] # NoTool => schemas'[t] \in Schema /\ all[t] \in Risk
  BY <1>1 DEF CallsIInv, CallsTypeOK, GatheredIsPublished
<1>3. all \in [Tool -> Risk \union {NoTool}]
  BY <1>1 DEF CallsIInv, CallsTypeOK
<1>4. schemas' \in [Tool -> Schema \union {NoSchema}]
  BY <1>1 DEF CallsIInv, CallsTypeOK
<1> QED BY <1>2, <1>3, <1>4, AuditedIsRisk

LEMMA ListedPreserves ==
  ASSUME CallsIInv, NEW s \in Server, Listed(s)
  PROVE  CallsIInv'
<1>0. UNCHANGED <<some, stack, sessions, callVars, queueVars>> /\ doing = "listing" /\ s \in todo
  BY DEF Listed
<1>1. PICK l \in Listing(s) :
        /\ schemas' = [t \in Tool |-> IF l[t] # NoTool THEN l[t][1] ELSE schemas[t]]
        /\ LET all == [t \in Tool |-> IF l[t] # NoTool THEN l[t][2] ELSE gathered[t]]
           IN IF sessions # {} /\ todo # {s}
              THEN gathered' = all /\ todo' = todo \ {s} /\ UNCHANGED <<doing, tools, seen>>
              ELSE /\ doing' = "idle" /\ todo' = {} /\ gathered' = NoTools
                   /\ IF sessions = {} THEN UNCHANGED <<tools, seen>>
                      ELSE /\ tools' = all
                           /\ seen' = [t \in Tool |->
                                IF all[t] = NoTool THEN seen[t]
                                ELSE RegisterToolSchema(t, schemas'[t], Audited(schemas'[t], all[t]))]
  BY DEF Listed
<1> DEFINE all == [t \in Tool |-> IF l[t] # NoTool THEN l[t][2] ELSE gathered[t]]
<1>2. schemas' \in [Tool -> Schema \union {NoSchema}]
  BY <1>1, ToolAssumption DEF Listing, CallsIInv, CallsTypeOK
<1>3. sessions # {} => /\ all \in [Tool -> Risk \union {NoTool}]
                       /\ \A t \in Tool : all[t] # NoTool =>
                            schemas'[t] \in Schema /\ Audited(schemas'[t], all[t]) \in Risk
  BY <1>0, <1>1, ListedTables
<1> HIDE DEF all
<1>4. CASE sessions = {} \/ todo # {s}
  <2>1. UNCHANGED <<tools, seen>> /\ todo' \subseteq Server /\ doing' \in {"listing", "idle"}
        /\ (doing' # "listing" => gathered' = NoTools)
        /\ (doing' = "listing" /\ sessions # {} => gathered' = all)
        /\ gathered' \in [Tool -> Risk \union {NoTool}]
    BY <1>0, <1>1, <1>3, <1>4 DEF all, CallsIInv, CallsTypeOK, NoTools
  <2>2. CallsTypeOK'
    BY <1>0, <1>2, <2>1 DEF CallsIInv, CallsTypeOK, callVars, queueVars
  <2>3. GatheredIsPublished' /\ GatheredWhenListing'
    BY <1>0, <1>3, <2>1, ToolAssumption DEF GatheredIsPublished, GatheredWhenListing, NoTools
  <2> QED BY <1>0, <2>1, <2>2, <2>3 DEF CallsIInv, UnderFirstSeen, NewHasNoSchema, QueuedOnce,
          QueuedIsPending, callVars, queueVars
<1>5. CASE sessions # {} /\ todo = {s}
  <2>1. /\ doing' = "idle" /\ todo' = {} /\ gathered' = NoTools /\ tools' = all
        /\ seen' = [t \in Tool |-> IF all[t] = NoTool THEN seen[t]
                      ELSE RegisterToolSchema(t, schemas'[t], Audited(schemas'[t], all[t]))]
    BY <1>1, <1>5 DEF all
  <2>2. SeenOnce /\ seen' \in [Tool -> [schema : Schema, risk : Risk] \union {NoSchema}]
    BY <1>3, <1>5, <2>1 DEF SeenOnce, RegisterToolSchema, CallsIInv, CallsTypeOK
  <2>3. CallsTypeOK'
    BY <1>0, <1>2, <1>3, <1>5, <2>1, <2>2 DEF CallsIInv, CallsTypeOK, NoTools, callVars, queueVars
  <2>4. UnderFirstSeen'
    BY <1>0, <2>2 DEF SeenOnce, CallsIInv, CallsTypeOK, UnderFirstSeen, callVars
  <2>5. GatheredIsPublished' /\ GatheredWhenListing'
    BY <2>1 DEF GatheredIsPublished, GatheredWhenListing
  <2> QED BY <1>0, <2>3, <2>4, <2>5 DEF CallsIInv, NewHasNoSchema, QueuedOnce,
          QueuedIsPending, callVars, queueVars
<1> QED BY <1>4, <1>5

\* The steps that only connect, or disconnect.
LEMMA ConnectionPreserves ==
  ASSUME CallsIInv, ConnectAll \/ DisconnectAll \/ \E s \in Server : ServerConnects(s)
  PROVE  CallsIInv'
<1>0. UNCHANGED <<seen, gathered, callVars, queueVars>>
  BY DEF ConnectAll, ServerConnects, DisconnectAll
<1>1. CallsTypeOK'
  BY <1>0 DEF ConnectAll, ServerConnects, DisconnectAll, NoSchemas, NoTools, CallsIInv,
     CallsTypeOK, callVars, queueVars
<1>2. GatheredIsPublished' /\ GatheredWhenListing'
  BY <1>0 DEF ConnectAll, ServerConnects, DisconnectAll, NoTools, CallsIInv, CallsTypeOK,
     GatheredIsPublished, GatheredWhenListing
<1> QED BY <1>0, <1>1, <1>2 DEF CallsIInv, UnderFirstSeen, NewHasNoSchema, QueuedOnce,
        QueuedIsPending, callVars, queueVars

\* Vetting only adds to what is seen; and what a call is let through with, if it
\* is known, is what was seen first, no riskier than then.
LEMMA CheckedSeen ==
  ASSUME CallsIInv, NEW t \in Tool, seen' = Checked(t)
  PROVE  /\ SeenOnce /\ seen' \in [Tool -> [schema : Schema, risk : Risk] \union {NoSchema}]
         /\ Vetted(t) \in [schema : Schema, risk : Risk] \union {NoSchema}
         /\ Decision(t) # "block" /\ Vetted(t) # NoSchema =>
              /\ seen'[t] # NoSchema
              /\ Vetted(t).schema = seen'[t].schema /\ Vetted(t).risk <= seen'[t].risk
<1>1. Known(schemas[t]) => schemas[t] \in Schema /\ RiskNow(t) \in Risk
  <2> SUFFICES ASSUME Known(schemas[t]) PROVE schemas[t] \in Schema /\ RiskNow(t) \in Risk
    OBVIOUS
  <2>1. schemas[t] \in Schema
    BY DEF Known, CallsIInv, CallsTypeOK
  <2>2. (IF tools[t] = NoTool THEN Low ELSE tools[t]) \in Risk
    BY DEF CallsIInv, CallsTypeOK, Risk, Low, Critical
  <2> QED BY <2>1, <2>2, AuditedIsRisk DEF RiskNow
<1>2. CASE t \in Blocked \/ ~Known(schemas[t])
  BY <1>1, <1>2 DEF Checked, Vetted, Decision, SeenOnce, CallsIInv, CallsTypeOK
<1>3. CASE t \notin Blocked /\ Known(schemas[t])
  <2> DEFINE now == [schema |-> schemas[t], risk |-> RiskNow(t)]
  <2>1. now \in [schema : Schema, risk : Risk] /\ now # NoSchema /\ Vetted(t) = now
    BY <1>1, <1>3, ToolAssumption DEF Vetted
  <2>2. seen' = [seen EXCEPT ![t] = IF seen[t] = NoSchema THEN now ELSE seen[t]]
    BY <1>3 DEF Checked, RegisterToolSchema
  <2>3. seen'[t] = (IF seen[t] = NoSchema THEN now ELSE seen[t])
    BY <2>2 DEF CallsIInv, CallsTypeOK
  <2>4. SeenOnce /\ seen' \in [Tool -> [schema : Schema, risk : Risk] \union {NoSchema}]
    BY <2>1, <2>2 DEF SeenOnce, CallsIInv, CallsTypeOK
  <2>5. ASSUME Decision(t) # "block"
        PROVE  /\ seen'[t] # NoSchema
               /\ now.schema = seen'[t].schema /\ now.risk <= seen'[t].risk
    <3>1. CASE seen[t] = NoSchema
      <4>1. seen'[t] = now /\ now.risk \in Risk
        BY <2>1, <2>3, <3>1
      <4> QED BY <2>1, <4>1 DEF Risk, Low, Critical
    <3>2. CASE seen[t] # NoSchema
      <4>1. ~Alert(t)
        BY <1>3, <2>5 DEF Decision
      <4>2. seen[t].schema = schemas[t] /\ ~(RiskNow(t) > seen[t].risk)
        BY <3>2, <4>1 DEF Alert
      <4>3. seen[t].risk \in Risk
        BY <3>2 DEF CallsIInv, CallsTypeOK
      <4>4. RiskNow(t) <= seen[t].risk
        BY <1>1, <1>3, <4>2, <4>3 DEF Risk, Low, Critical
      <4> QED BY <2>3, <3>2, <4>2, <4>4
    <3> QED BY <3>1, <3>2
  <2> HIDE DEF now
  <2> QED BY <2>1, <2>4, <2>5
<1> QED BY <1>2, <1>3

\* A new call that ends at once, or goes on to its server, or waits.
LEMMA CallPreserves ==
  ASSUME CallsIInv, NEW c \in Call, NEW t \in Tool,
         \/ CallTool(c, t) \/ CallToolAsking(c, t) \/ NotConnected(c, t)
         \/ CallToolByName(c, t) \/ SkillCalls(c, t)
  PROVE  CallsIInv'
<1>0. /\ stage[c] = "new" /\ under[c] = NoSchema /\ ~Contains(pending, c)
      /\ UNCHANGED <<connectionVars, mode>>
      /\ tool' = [tool EXCEPT ![c] = t]
      /\ stage' = [stage EXCEPT ![c] = stage'[c]]
      /\ stage'[c] \in {"failed", "calling", "pending"}
  BY DEF CallTool, CallToolAsking, NotConnected, CallToolByName, SkillCalls, NotCalled, Ends,
     queueVars, CallsIInv, CallsTypeOK, NewHasNoSchema, QueuedIsPending
<1>1. \/ under' = under
      \/ /\ under' = [under EXCEPT ![c] = Vetted(t)]
         /\ seen' = Checked(t) /\ Decision(t) # "block"
  BY DEF CallTool, CallToolAsking, NotConnected, CallToolByName, SkillCalls, NotCalled
<1>8. SeenOnce /\ seen' \in [Tool -> [schema : Schema, risk : Risk] \union {NoSchema}]
  <2>1. CASE UNCHANGED seen
    BY <2>1 DEF SeenOnce, CallsIInv, CallsTypeOK
  <2>2. CASE seen' = Checked(t)
    BY <2>2, CheckedSeen
  <2> QED BY <2>1, <2>2 DEF CallTool, CallToolAsking, NotConnected, CallToolByName, SkillCalls,
          NotCalled
<1>2. \/ UNCHANGED <<pending, aged>>
      \/ pending' = Enqueued(c) /\ aged' = 0 /\ stage'[c] = "pending"
  BY DEF CallTool, CallToolAsking, NotConnected, CallToolByName, SkillCalls, NotCalled, Ends,
     queueVars, CallsIInv, CallsTypeOK
<1>3. CallsTypeOK'
  <2>1. under' \in [Call -> [schema : Schema, risk : Risk] \union {NoSchema}]
    BY <1>1, CheckedSeen DEF CallsIInv, CallsTypeOK
  <2>2. pending' \in Seq(Call) /\ Len(pending') <= MaxPending /\ aged' \in 0..Len(pending')
    <3>1. CASE UNCHANGED <<pending, aged>>
      BY <3>1 DEF CallsIInv, CallsTypeOK
    <3>2. CASE pending' = Enqueued(c) /\ aged' = 0
      <4>1. pending' \in Seq(Call) /\ Len(pending') <= MaxPending
        BY <1>0, <3>2, EnqueuedKeys
      <4> QED BY <3>2, <4>1
    <3> QED BY <1>2, <3>1, <3>2
  <2> QED BY <1>0, <1>8, <2>1, <2>2 DEF CallsIInv, CallsTypeOK, connectionVars, refreshVars,
          tableVars
<1>4. UnderFirstSeen'
  <2>1. under'[c] # NoSchema => /\ seen'[t] # NoSchema /\ under'[c].schema = seen'[t].schema
                                /\ under'[c].risk <= seen'[t].risk
    BY <1>0, <1>1, CheckedSeen DEF CallsIInv, CallsTypeOK
  <2>2. \A d \in Call : d # c => under'[d] = under[d] /\ tool'[d] = tool[d]
    BY <1>0, <1>1 DEF CallsIInv, CallsTypeOK
  <2> QED BY <1>0, <1>8, <2>1, <2>2 DEF SeenOnce, CallsIInv, CallsTypeOK, UnderFirstSeen
<1>5. NewHasNoSchema'
  BY <1>0, <1>1 DEF CallsIInv, CallsTypeOK, NewHasNoSchema
<1>6. QueuedOnce' /\ QueuedIsPending'
  <2>1. CASE UNCHANGED <<pending, aged>>
    BY <1>0, <2>1 DEF CallsIInv, CallsTypeOK, QueuedOnce, QueuedIsPending
  <2>2. CASE pending' = Enqueued(c) /\ stage'[c] = "pending"
    BY <1>0, <2>2, EnqueuedKeys DEF CallsIInv, CallsTypeOK, QueuedOnce, QueuedIsPending
  <2> QED BY <1>2, <2>1, <2>2
<1>7. GatheredIsPublished' /\ GatheredWhenListing'
  BY <1>0 DEF CallsIInv, GatheredIsPublished, GatheredWhenListing, connectionVars, refreshVars,
     tableVars
<1> QED BY <1>3, <1>4, <1>5, <1>6, <1>7 DEF CallsIInv

LEMMA ResultPreserves ==
  ASSUME CallsIInv, NEW c \in Call, Result(c)
  PROVE  CallsIInv'
<1>0. /\ UNCHANGED <<connectionVars, seen, under, pending, aged, mode, tool>>
      /\ stage[c] = "calling"
      /\ stage' = [stage EXCEPT ![c] = stage'[c]] /\ stage'[c] \in {"done", "failed"}
  BY DEF Result, Ends, connectionVars, queueVars, CallsIInv, CallsTypeOK
<1>1. CallsTypeOK'
  BY <1>0 DEF CallsIInv, CallsTypeOK, connectionVars, refreshVars, tableVars
<1> QED BY <1>0, <1>1 DEF CallsIInv, CallsTypeOK, UnderFirstSeen, GatheredIsPublished, GatheredWhenListing,
        connectionVars, refreshVars, tableVars, NewHasNoSchema,
        QueuedOnce, QueuedIsPending

\* An answer takes its request, and only that one, out of the queue.
LEMMA DecidePreserves ==
  ASSUME CallsIInv, NEW c \in Call, NEW how \in {"approved", "rejected"}, Decide(c, how)
  PROVE  CallsIInv'
<1>0. /\ UNCHANGED <<connectionVars, seen, under, tool, mode>>
      /\ stage[c] = "pending" /\ stage' = [stage EXCEPT ![c] = how]
  BY DEF Decide, connectionVars
<1>1. PICK k \in DOMAIN pending :
        /\ pending[k] = c
        /\ pending' = RemoveAt(pending, k)
        /\ aged' = IF k <= aged THEN aged - 1 ELSE aged
  BY DEF Decide
<1>2. /\ pending \in Seq(Call) /\ k \in 1..Len(pending) /\ Len(pending) \in Nat
      /\ Len(pending) <= MaxPending /\ MaxPending \in Nat /\ aged \in 0..Len(pending)
  BY ToolAssumption DEF CallsIInv, CallsTypeOK, connectionVars, refreshVars, tableVars
<1>3. pending' \in Seq(Call) /\ Len(pending') = Len(pending) - 1
  BY <1>1, <1>2, RemoveAtElements
<1>4. /\ \A l, m \in DOMAIN pending' : pending'[l] = pending'[m] => l = m
      /\ \A x : Contains(pending', x) <=> Contains(pending, x) /\ x # c
  BY <1>1, <1>2, RemoveAtKeys DEF CallsIInv, QueuedOnce
<1>5. aged' \in 0..Len(pending') /\ Len(pending') <= MaxPending
  BY <1>1, <1>2, <1>3
<1>6. CallsTypeOK'
  BY <1>0, <1>3, <1>5 DEF CallsIInv, CallsTypeOK, connectionVars, refreshVars, tableVars
<1>7. QueuedOnce' /\ QueuedIsPending'
  BY <1>0, <1>4 DEF CallsIInv, CallsTypeOK, QueuedOnce, QueuedIsPending
<1>8. UnderFirstSeen' /\ GatheredIsPublished' /\ GatheredWhenListing' /\ NewHasNoSchema'
  BY <1>0 DEF CallsIInv, CallsTypeOK, UnderFirstSeen, GatheredIsPublished, GatheredWhenListing,
        connectionVars, refreshVars, tableVars, NewHasNoSchema
<1> QED BY <1>6, <1>7, <1>8 DEF CallsIInv

LEMMA AgePreserves ==
  ASSUME CallsIInv, NEW k \in 1..MaxPending, Age(k)
  PROVE  CallsIInv'
<1>0. /\ UNCHANGED <<connectionVars, seen, under, tool, mode, stage, pending>>
      /\ k \in DOMAIN pending /\ aged' = k
  BY DEF Age, connectionVars, callVars
<1>1. aged' \in 0..Len(pending')
  BY <1>0 DEF CallsIInv, CallsTypeOK, connectionVars, refreshVars, tableVars
<1>2. CallsTypeOK'
  BY <1>0, <1>1 DEF CallsIInv, CallsTypeOK, connectionVars, refreshVars, tableVars
<1> QED BY <1>0, <1>2 DEF CallsIInv, UnderFirstSeen, GatheredIsPublished, GatheredWhenListing,
        connectionVars, refreshVars, tableVars, NewHasNoSchema,
        QueuedOnce, QueuedIsPending

LEMMA CallsInvariant == CallsSpec => []CallsIInv
<1>1. CallsInit => CallsIInv
  <2> SUFFICES ASSUME NEW m \in {"blocking", "nonblocking", "auto"}, CallsInitIn(m)
               PROVE  CallsIInv
    BY DEF CallsInit
  <2>1. pending = <<>> /\ aged = 0 /\ DOMAIN pending = {} /\ Len(pending) = 0
    BY DEF CallsInitIn
  <2>2. pending \in Seq(Call) /\ Len(pending) <= MaxPending /\ aged \in 0..Len(pending)
    <3>1. Len(pending) = 0 /\ MaxPending \in Nat
      BY <2>1, ToolAssumption
    <3>2. Len(pending) <= MaxPending /\ aged \in 0..Len(pending)
      BY <2>1, <3>1
    <3> QED BY <2>1, <3>2
  <2>3. CallsTypeOK
    BY <2>2 DEF CallsInitIn, CallsTypeOK, NoSchemas, NoTools
  <2> QED BY <2>1, <2>3 DEF CallsInitIn, CallsIInv, UnderFirstSeen, GatheredIsPublished,
          GatheredWhenListing, NoSchemas,
          NewHasNoSchema, QueuedOnce, QueuedIsPending, Contains
<1>2. CallsIInv /\ [CallsNext]_toolVars => CallsIInv'
  <2> SUFFICES ASSUME CallsIInv, [CallsNext]_toolVars PROVE CallsIInv'
    OBVIOUS
  <2>1. CASE UNCHANGED toolVars
    BY <2>1 DEF toolVars, CallsIInv, CallsTypeOK, UnderFirstSeen, GatheredIsPublished,
       GatheredWhenListing, connectionVars, refreshVars, tableVars, callVars, queueVars, NewHasNoSchema,
       QueuedOnce, QueuedIsPending
  <2> QED BY <2>1, ConnectionPreserves, ListedPreserves, CallPreserves, ResultPreserves, DecidePreserves,
          AgePreserves DEF CallsNext
<1> QED BY <1>1, <1>2, PTL DEF CallsSpec

\* Types, and with them the bound on the queue of requests.
THEOREM CallsTypeCorrect == CallsSpec => []CallsTypeOK
BY CallsInvariant, PTL DEF CallsIInv

\* However servers change their tools' schemas and descriptions between
\* connections, and calls come before, between and after their lists: a tool is
\* called under one non-empty schema, and under it not when it looks riskier than
\* it did at first; and a request waits in the queue only while it is undecided.
THEOREM NoToolChangesUnseen == CallsSpec => []OneSchemaPerTool
<1>1. CallsIInv => OneSchemaPerTool
  BY DEF CallsIInv, UnderFirstSeen, QueuedIsPending, OneSchemaPerTool
<1> QED BY <1>1, CallsInvariant, PTL

-----------------------------------------------------------------------------
\* The bot's chats: sessions and their timers.

ChatsIInv == ChatsTypeOK /\ SessionsAreTimed

LEMMA ChatPreservesTimers ==
  ASSUME ChatsIInv, NEW u \in User,
         \/ \E g, m \in BOOLEAN : OnMessage(u, g, m)
         \/ GrowsOld(u) \/ Fires(u) \/ OnSessionTimeout(u)
  PROVE  ChatsIInv'
<1> USE DueAssumption DEF ChatsIInv, ChatsTypeOK, SessionsAreTimed
<1>1. ASSUME NEW g \in BOOLEAN, NEW m \in BOOLEAN, OnMessage(u, g, m) PROVE ChatsIInv'
  BY <1>1 DEF OnMessage, ResetTimer
<1>2. CASE GrowsOld(u)
  BY <1>2 DEF GrowsOld
<1>3. CASE Fires(u)
  BY <1>3 DEF Fires
<1>4. CASE OnSessionTimeout(u)
  BY <1>4 DEF OnSessionTimeout
<1> QED BY <1>1, <1>2, <1>3, <1>4

LEMMA SendPreservesTimers ==
  ASSUME ChatsIInv,
         \/ \E s \in Sender : StartSend(s) \/ TokenArrives(s) \/ TokenRefused(s) \/ Posted(s)
         \/ TokenNearsEnd \/ Webhook
  PROVE  ChatsIInv'
<1>1. UNCHANGED <<session, timer, due>>
  BY DEF StartSend, TokenArrives, TokenRefused, Posted, SendStep, TokenNearsEnd, Webhook
<1>2. ChatsTypeOK'
  BY <1>1 DEF StartSend, TokenArrives, TokenRefused, Posted, SendStep, TokenNearsEnd, Webhook,
     HandleEvent, FromFeishuMessage, ChatsIInv, ChatsTypeOK
<1> QED BY <1>1, <1>2 DEF ChatsIInv, SessionsAreTimed

LEMMA ChatsInvariant == ChatsSpec => []ChatsIInv
<1>1. ChatsInit => ChatsIInv
  BY DueAssumption DEF ChatsInit, ChatsIInv, ChatsTypeOK, SessionsAreTimed
<1>2. ChatsIInv /\ [ChatsNext]_chatVars => ChatsIInv'
  <2>1. ChatsIInv /\ UNCHANGED chatVars => ChatsIInv'
    BY DEF chatVars, ChatsIInv, ChatsTypeOK, SessionsAreTimed
  <2> QED BY <2>1, ChatPreservesTimers, SendPreservesTimers DEF ChatsNext
<1> QED BY <1>1, <1>2, PTL DEF ChatsSpec

\* For any number of users: an open session has a timer armed, or a timeout task
\* of a timer that fired is still to run, though message, timer and task may
\* come in any order and are told the time by different clocks.
THEOREM NoSessionIsForgotten == ChatsSpec => []SessionsAreTimed
BY ChatsInvariant, PTL DEF ChatsIInv

-----------------------------------------------------------------------------
\* The composition: each component runs in it as it does on its own, so that
\* all of them keep their types.

\* The socket's types in three parts: its flags, its coroutines, and its counts
\* with the task that is remembered as the heartbeat among those alive.
SocketFlags == running \in BOOLEAN /\ ws \in Connector \union {NoConnector}
SocketRounds ==
  /\ phase \in [Connector -> {"off", "token", "open", "greet", "listen", "handle", "backoff"}]
  /\ isOpen \in [Connector -> BOOLEAN]
  /\ delay \in {2, 4, 8, 16, 32, 60}
SocketBeats == beats \in 0..MaxBeats /\ lastBeat \in BOOLEAN /\ (lastBeat => beats > 0)

\* One round of a coroutine, whatever the awaits bring.
SocketRound(c) ==
  Socket!Connect(c) \/ Socket!Goes(c) \/ Socket!Receive(c) \/ Socket!HandleMessage(c)
    \/ Socket!PeerCloses(c)

LEMMA RoundTypes ==
  ASSUME NEW c \in Connector, SocketFlags, SocketRounds, SocketBeats, SocketRound(c)
  PROVE  SocketFlags' /\ SocketRounds' /\ SocketBeats'
<1> USE DEF SocketRound, Socket!Connect, Socket!Goes, Socket!GetToken, Socket!OpenSocket,
        Socket!Greet, Socket!Receive, Socket!HandleMessage, Socket!SocketEnds,
        Socket!BackOff, Socket!PeerCloses, Socket!Raise, Socket!EndsCleanly, Socket!Again,
        Socket!Goto, Socket!Opens, Socket!beatVars
<1>1. SocketFlags'
  BY DEF SocketFlags
<1>2. phase' \in [Connector -> {"off", "token", "open", "greet", "listen", "handle", "backoff"}]
  <2>1. \E p \in {"off", "token", "open", "greet", "listen", "handle", "backoff"} :
          phase' = [phase EXCEPT ![c] = p] \/ phase' = phase
    OBVIOUS
  <2> QED BY <2>1 DEF SocketRounds
<1>3. isOpen' \in [Connector -> BOOLEAN]
  <2>1. \E o \in BOOLEAN : isOpen' = [isOpen EXCEPT ![c] = o] \/ isOpen' = isOpen
    OBVIOUS
  <2> QED BY <2>1 DEF SocketRounds
<1>4. delay' \in {2, 4, 8, 16, 32, 60}
  BY DEF SocketRounds, Socket!ReconnectMin, Socket!ReconnectMax
<1>5. SocketBeats'
  <2>1. \/ beats' = beats /\ lastBeat' = lastBeat
        \/ beats < MaxBeats /\ beats' = beats + 1 /\ lastBeat' = TRUE
    OBVIOUS
  <2>2. CASE beats' = beats /\ lastBeat' = lastBeat
    BY <2>2 DEF SocketBeats
  <2>3. CASE beats < MaxBeats /\ beats' = beats + 1 /\ lastBeat' = TRUE
    BY <2>3, BeatsAssumption DEF SocketBeats
  <2> QED BY <2>1, <2>2, <2>3
<1> QED BY <1>1, <1>2, <1>3, <1>4, <1>5 DEF SocketRounds

\* A heartbeat that ends is one of those alive.
LEMMA BeatTypes ==
  ASSUME SocketFlags, SocketRounds, SocketBeats, Socket!Beat \/ Socket!Disconnect
  PROVE  SocketFlags' /\ SocketRounds' /\ SocketBeats'
<1>1. SocketFlags' /\ SocketRounds'
  BY DEF SocketFlags, SocketRounds, Socket!Beat, Socket!Disconnect
<1> SUFFICES SocketBeats'
  BY <1>1
<1>2. CASE Socket!Beat
  <2>1. /\ beats > 0 /\ beats' = beats - 1
        /\ lastBeat' = FALSE \/ (beats > 1 /\ lastBeat' = lastBeat)
    BY <1>2 DEF Socket!Beat
  <2>2. beats' \in 0..MaxBeats /\ (beats > 1 => beats' > 0)
    BY <2>1, BeatsAssumption DEF SocketBeats
  <2>3. lastBeat' \in BOOLEAN /\ (lastBeat' => beats' > 0)
    BY <2>1, <2>2, Zenon DEF SocketBeats
  <2> QED BY <2>2, <2>3, Zenon DEF SocketBeats
<1>3. CASE Socket!Disconnect
  <2>1. /\ lastBeat' = FALSE
        /\ beats' = IF lastBeat THEN beats - 1 ELSE beats
    BY <1>3 DEF Socket!Disconnect
  <2>2. lastBeat' \in BOOLEAN /\ (lastBeat' => beats' > 0)
    BY <2>1, Zenon
  <2>3. CASE lastBeat
    <3>1. beats > 0 /\ beats' = beats - 1
      BY <2>1, <2>3, Zenon DEF SocketBeats
    <3>2. beats' \in 0..MaxBeats
      BY <3>1, BeatsAssumption DEF SocketBeats
    <3> QED BY <2>2, <3>2, Zenon DEF SocketBeats
  <2>4. CASE ~lastBeat
    <3>1. beats' = beats
      BY <2>1, <2>4, Zenon
    <3>2. beats' \in 0..MaxBeats
      BY <3>1 DEF SocketBeats
    <3> QED BY <2>2, <3>2, Zenon DEF SocketBeats
  <2> QED BY <2>3, <2>4
<1> QED BY <1>2, <1>3

LEMMA SocketTypes == Socket!Init /\ [][Socket!Next]_socketVars => []Socket!TypeOK
<1>0. Socket!TypeOK <=> SocketFlags /\ SocketRounds /\ SocketBeats
  BY DEF Socket!TypeOK, SocketFlags, SocketRounds, SocketBeats
<1>1. Socket!Init => SocketFlags /\ SocketRounds /\ SocketBeats
  <2> SUFFICES ASSUME Socket!Init PROVE SocketFlags /\ SocketRounds /\ SocketBeats
    OBVIOUS
  <2>1. SocketFlags
    BY DEF Socket!Init, SocketFlags
  <2>2. SocketRounds
    BY DEF Socket!Init, SocketRounds, Socket!ReconnectMin
  <2>3. beats \in 0..MaxBeats
    BY BeatsAssumption DEF Socket!Init
  <2> QED BY <2>1, <2>2, <2>3, Zenon DEF Socket!Init, SocketBeats
<1>2. ASSUME SocketFlags, SocketRounds, SocketBeats, [Socket!Next]_socketVars
      PROVE  SocketFlags' /\ SocketRounds' /\ SocketBeats'
  <2>1. CASE UNCHANGED socketVars
    BY <1>2, <2>1 DEF socketVars, SocketFlags, SocketRounds, SocketBeats
  <2>2. ASSUME NEW c \in Connector, SocketRound(c) PROVE SocketFlags' /\ SocketRounds' /\ SocketBeats'
    BY <1>2, <2>2, RoundTypes
  <2>3. CASE Socket!Beat \/ Socket!Disconnect
    BY <1>2, <2>3, BeatTypes
  <2> QED BY <1>2, <2>1, <2>2, <2>3 DEF Socket!Next, SocketRound
<1> QED BY <1>0, <1>1, <1>2, PTL

LEMMA ComponentsRun ==
  Spec => /\ SchedulerSpec /\ ChatsSpec /\ CallsSpec /\ WebSpec /\ TurnsSpec
          /\ Socket!Init /\ [][Socket!Next]_socketVars
<1>1. Init => /\ SchedulerInit /\ ChatsInit /\ CallsInit /\ WebInit /\ TurnsInit
              /\ Socket!Init
  BY DEF Init, CallsInit
<1>2. [Next]_servicesVars => /\ [SchedulerNext]_schedulerVars /\ [ChatsNext]_chatVars
                             /\ [CallsNext]_toolVars /\ [WebNext]_webVars
                             /\ [TurnsNext]_turnVars /\ [Socket!Next]_socketVars
  BY DEF Next, servicesVars
<1> QED BY <1>1, <1>2, PTL
        DEF Spec, SchedulerSpec, ChatsSpec, CallsSpec, WebSpec, TurnsSpec

\* Every component keeps its types.
THEOREM TypeCorrect == Spec => []TypeOK
<1>1. /\ SchedulerTypeOK /\ ChatsTypeOK /\ CallsTypeOK /\ WebTypeOK /\ TurnsTypeOK
      /\ Socket!TypeOK
      => TypeOK
  BY DEF TypeOK
<1>2. ChatsIInv => ChatsTypeOK
  BY DEF ChatsIInv
<1> QED BY <1>1, <1>2, ComponentsRun, SchedulerTypeCorrect, ChatsInvariant, CallsTypeCorrect,
        WebTypeCorrect, TurnsTypeCorrect, SocketTypes, PTL
=============================================================================
