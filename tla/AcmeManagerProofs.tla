------------------------- MODULE AcmeManagerProofs -------------------------
(***************************************************************************)
(* Proofs about AcmeManager, for any number of domains, entries and        *)
(* timers: timers of a domain never multiply, no managed domain loses its  *)
(* renewals, and only a deployment that overlaps a renewal is ever undone. *)
(***************************************************************************)
EXTENDS AcmeManager, TLAPS

\* A task in use works for a managed domain; past its first critical section
\* it holds an entry.
TasksAreOwned ==
    \A t \in Timer :
        /\ task[t].phase # "free" =>
              task[t].domain \in Domain /\ managed[task[t].domain] # NoEntry
        /\ task[t].phase \in {"issuing", "renewed", "failed"} => task[t].entry \in Entry

\* m.timers has no stale values: a domain's timer is pending, or its callback
\* is running, for that domain.
TimersAreTheirs ==
    \A d \in Domain : timers[d] # NoTimer =>
        task[timers[d]].phase # "free" /\ task[timers[d]].domain = d

\* What a renewal is about to issue is what is managed, unless it was raced.
ReadIsManaged ==
    \A t \in Timer :
        task[t].phase = "issuing" /\ task[t].domain \notin raced =>
            task[t].entry = managed[task[t].domain]

Timekeeping == TasksAreOwned /\ TimersAreTheirs /\ OnePendingTimer /\ NeverForgotten

IInv == TypeOK /\ Timekeeping /\ ReadIsManaged /\ DeclaredUnlessRaced

-----------------------------------------------------------------------------
\* The free record and a pending one are tasks.
LEMMA TaskValues ==
    /\ Free \in Task /\ Free.phase = "free"
    /\ \A d \in Domain :
          /\ Pending(d) \in Task
          /\ Pending(d).phase = "pending" /\ Pending(d).domain = d
  BY DEF Free, Pending, Task, Phase

\* What scheduleLocked does: arm a free timer for d, free the one that was
\* pending in its place, and touch nothing else.
LEMMA ScheduleEffect ==
    ASSUME NEW d \in Domain, NEW tasks \in [Timer -> Task],
           timers \in [Domain -> Timer \cup {NoTimer}],
           Schedule(tasks, d)
    PROVE  \E t \in Timer :
              /\ tasks[t].phase = "free"
              /\ timers' = [timers EXCEPT ![d] = t]
              /\ task' \in [Timer -> Task]
              /\ task'[t] = Pending(d)
              /\ \A u \in Timer \ {t} :
                    \/ task'[u] = tasks[u]
                    \/ task'[u] = Free /\ u = timers[d] /\ tasks[u].phase = "pending"
              /\ \A u \in Timer \ {t} :
                    u = timers[d] /\ tasks[u].phase = "pending" => task'[u] = Free
  <1>1. PICK t \in {u \in Timer : tasks[u].phase = "free"} :
            task' = Scheduled(tasks, d, t) /\ timers' = [timers EXCEPT ![d] = t]
    BY DEF Schedule
  <1>2. task' \in [Timer -> Task]
    BY <1>1, TaskValues DEF Scheduled
  <1>3. task'[t] = Pending(d)
    BY <1>1 DEF Scheduled
  <1>4. \A u \in Timer \ {t} :
            task'[u] = IF u = timers[d] /\ tasks[u].phase = "pending" THEN Free ELSE tasks[u]
    BY <1>1 DEF Scheduled
  <1> QED
    BY <1>1, <1>2, <1>3, <1>4

\* An action that schedules d keeps time: it may finish or free tasks of d
\* that were running, and makes d, and no other domain, managed.
LEMMA ScheduleKeepsTime ==
    ASSUME TypeOK, Timekeeping,
           NEW d \in Domain, NEW tasks \in [Timer -> Task],
           Schedule(tasks, d),
           managed' \in Entries,
           managed'[d] # NoEntry,
           \A x \in Domain \ {d} : managed'[x] = managed[x],
           \A u \in Timer :
              \/ tasks[u] = task[u]
              \/ /\ task[u].phase \in {"issuing", "renewed", "failed"}
                 /\ task[u].domain = d
                 /\ \/ tasks[u] = Free
                    \/ /\ tasks[u].phase = "renewed"
                       /\ tasks[u].domain = d
                       /\ tasks[u].entry = task[u].entry
    PROVE  /\ task' \in [Timer -> Task]
           /\ timers' \in [Domain -> Timer \cup {NoTimer}]
           /\ Timekeeping'
           /\ \A u \in Timer : task'[u].phase = "issuing" => task'[u] = task[u]
  <1> USE DEF TypeOK
  <1>1. PICK t \in Timer :
              /\ tasks[t].phase = "free"
              /\ timers' = [timers EXCEPT ![d] = t]
              /\ task' \in [Timer -> Task]
              /\ task'[t] = Pending(d)
              /\ \A u \in Timer \ {t} :
                    \/ task'[u] = tasks[u]
                    \/ task'[u] = Free /\ u = timers[d] /\ tasks[u].phase = "pending"
              /\ \A u \in Timer \ {t} :
                    u = timers[d] /\ tasks[u].phase = "pending" => task'[u] = Free
    BY ScheduleEffect
  <1>2. timers' \in [Domain -> Timer \cup {NoTimer}]
    BY <1>1
  <1>3. TasksAreOwned'
    <2> SUFFICES ASSUME NEW u \in Timer
                 PROVE  /\ task'[u].phase # "free" =>
                              task'[u].domain \in Domain /\ managed'[task'[u].domain] # NoEntry
                        /\ task'[u].phase \in {"issuing", "renewed", "failed"} =>
                              task'[u].entry \in Entry
      BY DEF TasksAreOwned
    <2>1. CASE u = t
      BY <1>1, <2>1, TaskValues
    <2>2. CASE u # t /\ task'[u] = Free
      BY <2>2, TaskValues
    <2>3. CASE u # t /\ task'[u] = tasks[u]
      BY <2>3, TaskValues DEF Timekeeping, TasksAreOwned
    <2> QED
      BY <1>1, <2>1, <2>2, <2>3
  <1>4. TimersAreTheirs'
    <2> SUFFICES ASSUME NEW x \in Domain, timers'[x] # NoTimer
                 PROVE  task'[timers'[x]].phase # "free" /\ task'[timers'[x]].domain = x
      BY DEF TimersAreTheirs
    <2>1. CASE x = d
      BY <1>1, <2>1, TaskValues
    <2>2. CASE x # d
      <3>1. timers'[x] = timers[x] /\ timers[x] \in Timer
        BY <1>1, <2>2
      <3>2. task[timers[x]].phase # "free" /\ task[timers[x]].domain = x
        BY <3>1 DEF Timekeeping, TimersAreTheirs
      <3>3. tasks[timers[x]] = task[timers[x]]
        BY <2>2, <3>1, <3>2
      <3>4. timers[x] # t
        BY <1>1, <3>2, <3>3
      <3>5. timers[x] # timers[d]
        BY <2>2, <3>1, <3>2 DEF Timekeeping, TimersAreTheirs
      <3> QED
        BY <1>1, <3>1, <3>2, <3>3, <3>4, <3>5
    <2> QED
      BY <2>1, <2>2
  <1>5. OnePendingTimer'
    <2> SUFFICES ASSUME NEW u \in Timer, task'[u].phase = "pending"
                 PROVE  timers'[task'[u].domain] = u
      BY DEF OnePendingTimer
    <2>1. CASE u = t
      BY <1>1, <2>1, TaskValues
    <2>2. CASE u # t
      <3>1. task'[u] = tasks[u] /\ tasks[u] = task[u]
        BY <1>1, <2>2, TaskValues
      <3>2. task[u].domain \in Domain /\ timers[task[u].domain] = u
        BY <3>1 DEF Timekeeping, TasksAreOwned, OnePendingTimer
      <3>3. task[u].domain # d
        BY <1>1, <2>2, <3>1, <3>2, TaskValues
      <3> QED
        BY <1>1, <3>1, <3>2, <3>3
    <2> QED
      BY <2>1, <2>2
  <1>6. NeverForgotten'
    <2> SUFFICES ASSUME NEW x \in Domain, managed'[x] # NoEntry
                 PROVE  \E u \in Timer : task'[u].phase # "free" /\ task'[u].domain = x
      BY DEF NeverForgotten
    <2>1. CASE x = d
      BY <1>1, <2>1, TaskValues
    <2>2. CASE x # d
      <3>1. PICK u \in Timer : task[u].phase # "free" /\ task[u].domain = x
        BY <2>2 DEF Timekeeping, NeverForgotten
      <3>2. tasks[u] = task[u] /\ u # t
        BY <1>1, <2>2, <3>1
      <3>3. ~(u = timers[d] /\ tasks[u].phase = "pending")
        BY <2>2, <3>1, <3>2, NoTimerAssumption DEF Timekeeping, TimersAreTheirs
      <3> QED
        BY <1>1, <3>1, <3>2, <3>3
    <2> QED
      BY <2>1, <2>2
  <1>7. \A u \in Timer : task'[u].phase = "issuing" => task'[u] = task[u]
    BY <1>1, TaskValues
  <1> QED
    BY <1>1, <1>2, <1>3, <1>4, <1>5, <1>6, <1>7 DEF Timekeeping

-----------------------------------------------------------------------------
\* Certificates keep their type when one is obtained.
LEMMA ObtainedType ==
    ASSUME TypeOK, NEW d \in Domain, NEW e \in Entry
    PROVE  Obtained(d, e) \in [Domain -> [CA -> Age]]
  BY CaAssumption DEF TypeOK, Obtained, Age

\* What a call asks for is what is managed then, and renewals that read an
\* older entry are observed.
LEMMA DeclareStep ==
    ASSUME TypeOK, ReadIsManaged, DeclaredUnlessRaced,
           NEW d \in Domain, NEW e \in Entry,
           Declare(d, e),
           managed' = [managed EXCEPT ![d] = e],
           \A u \in Timer : task'[u].phase = "issuing" => task'[u] = task[u]
    PROVE  /\ declared' \in Entries /\ raced' \subseteq Domain
           /\ ReadIsManaged' /\ DeclaredUnlessRaced'
  <1> USE DEF TypeOK, Entries
  <1>1. declared' \in Entries /\ raced' \subseteq Domain
    BY DEF Declare
  <1>2. ReadIsManaged'
    <2> SUFFICES ASSUME NEW t \in Timer, task'[t].phase = "issuing",
                        task'[t].domain \notin raced'
                 PROVE  task'[t].entry = managed'[task'[t].domain]
      BY DEF ReadIsManaged
    <2>1. task'[t] = task[t]
      OBVIOUS
    <2>2. task[t].domain # d
      BY <2>1 DEF Declare, Renewing
    <2>3. task[t].domain \notin raced
      BY <2>1, <2>2 DEF Declare
    <2> QED
      BY <2>1, <2>2, <2>3 DEF ReadIsManaged, Task
  <1>3. DeclaredUnlessRaced'
    BY DEF Declare, DeclaredUnlessRaced
  <1> QED
    BY <1>1, <1>2, <1>3

\* Initially nothing is managed.
LEMMA InitIInv == Init => IInv
  <1> SUFFICES ASSUME Init PROVE IInv
    OBVIOUS
  <1> USE DEF Init
  <1>1. TypeOK
    BY TaskValues DEF TypeOK, Entries, NoEntries, Age
  <1>2. Timekeeping
    BY TaskValues DEF Timekeeping, TasksAreOwned, TimersAreTheirs, OnePendingTimer,
          NeverForgotten, NoEntries, Free
  <1>3. ReadIsManaged /\ DeclaredUnlessRaced
    BY TaskValues DEF ReadIsManaged, DeclaredUnlessRaced, NoEntries, Free
  <1> QED
    BY <1>1, <1>2, <1>3 DEF IInv

\* EnsureManagedCertificate and the RPC keep the invariant.
LEMMA CallStep ==
    ASSUME IInv, NEW d \in Domain, NEW e \in Entry, Ensure(d, e) \/ IssueNow(d, e)
    PROVE  IInv'
  <1> USE DEF IInv
  <1>1. CASE NotIssued(d, e) /\ UNCHANGED <<up, timers, task, declared, raced>>
    <2>1. TypeOK'
      BY <1>1, ObtainedType DEF NotIssued, TypeOK
    <2> QED
      BY <1>1, <2>1 DEF NotIssued, Timekeeping, TasksAreOwned, TimersAreTheirs,
            OnePendingTimer, NeverForgotten, ReadIsManaged, DeclaredUnlessRaced
  <1>2. CASE /\ Schedule(task, d)
             /\ managed' = [managed EXCEPT ![d] = e]
             /\ Save(managed')
             /\ Declare(d, e)
             /\ stored' \in {stored, Obtained(d, e)}
             /\ UNCHANGED up
    <2>1. managed' \in Entries /\ managed'[d] # NoEntry
      BY <1>2, NoEntryAssumption DEF TypeOK, Entries
    <2>2. \A x \in Domain \ {d} : managed'[x] = managed[x]
      BY <1>2 DEF TypeOK, Entries
    <2>3. task \in [Timer -> Task]
      BY DEF TypeOK
    <2>4. /\ task' \in [Timer -> Task]
          /\ timers' \in [Domain -> Timer \cup {NoTimer}]
          /\ Timekeeping'
          /\ \A u \in Timer : task'[u].phase = "issuing" => task'[u] = task[u]
      BY <1>2, <2>1, <2>2, <2>3, ScheduleKeepsTime
    <2>5. /\ declared' \in Entries /\ raced' \subseteq Domain
          /\ ReadIsManaged' /\ DeclaredUnlessRaced'
      BY <1>2, <2>4, DeclareStep
    <2>6. stored' \in [Domain -> [CA -> Age]]
      BY <1>2, ObtainedType DEF TypeOK
    <2>7. disk' \in Entries \cup {Torn}
      BY <1>2, <2>1 DEF Save, TypeOK
    <2>8. TypeOK'
      BY <1>2, <2>1, <2>4, <2>5, <2>6, <2>7 DEF TypeOK
    <2> QED
      BY <2>4, <2>5, <2>8
  <1> QED
    BY <1>1, <1>2 DEF Ensure, IssueNow, Issued

\* A fired timer, and the three sections of a renewal, keep the invariant.
LEMMA RenewalStep ==
    ASSUME IInv, NEW t \in Timer, Fire(t) \/ Read(t) \/ Issue(t) \/ Settle(t)
    PROVE  IInv'
  <1> USE DEF IInv
  <1>t. task \in [Timer -> Task] /\ timers \in [Domain -> Timer \cup {NoTimer}]
    BY DEF TypeOK
  <1>1. CASE Fire(t)
    <2>1. task' \in [Timer -> Task]
      BY <1>1, <1>t DEF Fire, Task, Phase
    <2>2. TypeOK'
      BY <1>1, <2>1 DEF Fire, TypeOK
    <2>3. \A u \in Timer : /\ task'[u].domain = task[u].domain
                           /\ task'[u].entry = task[u].entry
                           /\ u # t => task'[u] = task[u]
      BY <1>1, <1>t DEF Fire, Task
    <2>4. task'[t].phase = "fired" /\ task[t].phase = "pending"
      BY <1>1, <1>t DEF Fire, Task
    <2> QED
      BY <1>1, <2>2, <2>3, <2>4, NoTimerAssumption DEF Fire, Timekeeping, TasksAreOwned, TimersAreTheirs,
            OnePendingTimer, NeverForgotten, ReadIsManaged, DeclaredUnlessRaced
  <1>2. CASE Read(t)
    <2>1. task[t].domain \in Domain /\ managed[task[t].domain] # NoEntry
      BY <1>2 DEF Read, Timekeeping, TasksAreOwned
    <2>2. managed[task[t].domain] \in Entry
      BY <2>1 DEF TypeOK, Entries
    <2>3. task' = [task EXCEPT ![t] =
                      [@ EXCEPT !.phase = "issuing", !.entry = managed[task[t].domain]]]
      BY <1>2, <2>1 DEF Read
    <2>4. task' \in [Timer -> Task]
      BY <1>t, <2>2, <2>3 DEF Task, Phase
    <2>5. TypeOK'
      BY <1>2, <2>4 DEF Read, TypeOK
    <2>6. \A u \in Timer : /\ task'[u].domain = task[u].domain
                           /\ u # t => task'[u] = task[u]
      BY <1>t, <2>3 DEF Task
    <2>7. task'[t].phase = "issuing" /\ task'[t].entry = managed[task[t].domain]
      BY <1>t, <2>3 DEF Task
    <2> QED
      BY <1>2, <2>1, <2>2, <2>5, <2>6, <2>7, NoTimerAssumption DEF Read, Timekeeping, TasksAreOwned,
            TimersAreTheirs, OnePendingTimer, NeverForgotten, ReadIsManaged,
            DeclaredUnlessRaced
  <1>3. CASE Issue(t)
    <2> DEFINE d == task[t].domain
               e == task[t].entry
    <2>1. d \in Domain /\ managed[d] # NoEntry /\ e \in Entry
      BY <1>3 DEF Issue, Timekeeping, TasksAreOwned
    <2>2. Obtained(d, e) \in [Domain -> [CA -> Age]]
      BY <2>1, ObtainedType
    <2> HIDE DEF d, e
    <2>3. CASE Issued(d, e, [task EXCEPT ![t].phase = "renewed"])
      <3> DEFINE tasks == [task EXCEPT ![t].phase = "renewed"]
      <3>1. tasks \in [Timer -> Task]
        BY <1>t DEF Task, Phase
      <3>2. Schedule(tasks, d) /\ managed' = [managed EXCEPT ![d] = e]
        BY <2>3 DEF Issued
      <3>3. /\ tasks[t].phase = "renewed" /\ tasks[t].domain = d /\ tasks[t].entry = e
            /\ task[t].phase = "issuing"
            /\ task[t].domain = d /\ task[t].entry = e
            /\ \A u \in Timer \ {t} : tasks[u] = task[u]
        BY <1>t, <1>3 DEF Task, d, e, Issue
      <3> HIDE DEF tasks
      <3>4. /\ managed' \in Entries /\ managed'[d] # NoEntry
            /\ \A x \in Domain \ {d} : managed'[x] = managed[x]
        BY <2>1, <3>2, NoEntryAssumption DEF TypeOK, Entries
      <3>5. \A u \in Timer :
              \/ tasks[u] = task[u]
              \/ /\ task[u].phase \in {"issuing", "renewed", "failed"}
                 /\ task[u].domain = d
                 /\ \/ tasks[u] = Free
                    \/ /\ tasks[u].phase = "renewed"
                       /\ tasks[u].domain = d
                       /\ tasks[u].entry = task[u].entry
        BY <3>3
      <3>6. /\ task' \in [Timer -> Task]
            /\ timers' \in [Domain -> Timer \cup {NoTimer}]
            /\ Timekeeping'
            /\ \A u \in Timer : task'[u].phase = "issuing" => task'[u] = task[u]
        BY <2>1, <3>1, <3>2, <3>4, <3>5, ScheduleKeepsTime
      <3>7. stored' \in [Domain -> [CA -> Age]] /\ disk' \in Entries \cup {Torn}
        BY <2>2, <2>3, <3>4 DEF Issued, Save, TypeOK
      <3>8. TypeOK'
        BY <1>3, <3>4, <3>6, <3>7 DEF TypeOK, Issue
      <3>9. d \notin raced => e = managed[d]
        BY <1>3, <2>1, <3>3 DEF ReadIsManaged
      <3>10. d \notin raced => managed' = managed
        BY <2>1, <3>2, <3>9 DEF TypeOK, Entries
      <3>11. ReadIsManaged'
        <4> SUFFICES ASSUME NEW u \in Timer, task'[u].phase = "issuing",
                            task'[u].domain \notin raced'
                     PROVE  task'[u].entry = managed'[task'[u].domain]
          BY DEF ReadIsManaged
        <4>1. task'[u] = task[u] /\ raced' = raced
          BY <1>3, <3>6 DEF Issue
        <4>2. task[u].domain \in Domain /\ task[u].entry = managed[task[u].domain]
          BY <4>1 DEF ReadIsManaged, Timekeeping, TasksAreOwned
        <4>3. managed'[task[u].domain] = managed[task[u].domain]
          BY <3>4, <3>10, <4>1, <4>2
        <4> QED
          BY <4>1, <4>2, <4>3
      <3>12. DeclaredUnlessRaced'
        BY <1>3, <3>4, <3>10 DEF Issue, DeclaredUnlessRaced
      <3> QED
        BY <3>6, <3>8, <3>11, <3>12
    <2>4. CASE /\ NotIssued(d, e)
               /\ task' = [task EXCEPT ![t].phase = "failed"]
               /\ UNCHANGED timers
      <3>1. task' \in [Timer -> Task]
        BY <1>t, <2>4 DEF Task, Phase
      <3>2. TypeOK'
        BY <1>3, <2>2, <2>4, <3>1 DEF Issue, NotIssued, TypeOK
      <3>3. \A u \in Timer : /\ task'[u].domain = task[u].domain
                             /\ task'[u].entry = task[u].entry
                             /\ u # t => task'[u] = task[u]
        BY <1>t, <2>4 DEF Task
      <3>4. task'[t].phase = "failed" /\ task[t].phase = "issuing"
        BY <1>t, <1>3, <2>4 DEF Task, Issue
      <3> QED
        BY <1>3, <2>4, <3>2, <3>3, <3>4, NoTimerAssumption DEF Issue, NotIssued, Timekeeping,
            TasksAreOwned, TimersAreTheirs, OnePendingTimer, NeverForgotten,
            ReadIsManaged, DeclaredUnlessRaced
    <2> QED
      BY <1>3, <2>3, <2>4 DEF Issue, d, e
  <1>4. CASE Settle(t)
    <2> DEFINE d == task[t].domain
               tasks == [task EXCEPT ![t] = Free]
    <2>1. d \in Domain /\ managed[d] # NoEntry
      BY <1>4 DEF Settle, Timekeeping, TasksAreOwned
    <2>2. managed' = managed
      BY <1>4 DEF Settle, WrittenBack
    <2>3. tasks \in [Timer -> Task]
      BY <1>t, TaskValues
    <2>4. \A u \in Timer :
              \/ tasks[u] = task[u]
              \/ /\ task[u].phase \in {"issuing", "renewed", "failed"}
                 /\ task[u].domain = d
                 /\ \/ tasks[u] = Free
                    \/ /\ tasks[u].phase = "renewed"
                       /\ tasks[u].domain = d
                       /\ tasks[u].entry = task[u].entry
      BY <1>t, <1>4 DEF Settle
    <2>5. Schedule(tasks, d)
      BY <1>4 DEF Settle
    <2> HIDE DEF d, tasks
    <2>6. /\ task' \in [Timer -> Task]
          /\ timers' \in [Domain -> Timer \cup {NoTimer}]
          /\ Timekeeping'
          /\ \A u \in Timer : task'[u].phase = "issuing" => task'[u] = task[u]
      BY <2>1, <2>2, <2>3, <2>4, <2>5, ScheduleKeepsTime DEF TypeOK
    <2>7. TypeOK'
      BY <1>4, <2>2, <2>6 DEF Settle, Save, TypeOK
    <2>8. ReadIsManaged' /\ DeclaredUnlessRaced'
      BY <1>4, <2>2, <2>6 DEF Settle, ReadIsManaged, DeclaredUnlessRaced
    <2> QED
      BY <2>6, <2>7, <2>8
  <1> QED
    BY <1>1, <1>2, <1>3, <1>4

\* A node that starts gives every domain it loads a timer of its own.
LEMMA RestartStep ==
    ASSUME IInv, Restart
    PROVE  IInv'
  <1> USE DEF IInv
  <1>1. Loaded \in Entries
    BY DEF TypeOK, Loaded, Entries, NoEntries
  <1> DEFINE D == {d \in Domain : Loaded[d] # NoEntry}
  <1>2. PICK armed \in [D -> Timer] :
            /\ \A d, e \in D : armed[d] = armed[e] => d = e
            /\ task' = Restored(armed)
            /\ timers' = [d \in Domain |-> IF d \in D THEN armed[d] ELSE NoTimer]
    BY DEF Restart
  <1>3. DOMAIN armed = D
    OBVIOUS
  <1>4. \A t \in Timer :
            \/ task'[t] = Free /\ \A d \in D : armed[d] # t
            \/ \E d \in D : armed[d] = t /\ task'[t] = Pending(d)
    BY <1>2, <1>3 DEF Restored
  <1>5. \A d \in D : task'[armed[d]] = Pending(d)
    BY <1>2, <1>4
  <1>6. task' \in [Timer -> Task]
    <2>1. task' = [t \in Timer |-> task'[t]]
      BY <1>2 DEF Restored
    <2>2. \A t \in Timer : task'[t] \in Task
      BY <1>4, TaskValues
    <2> QED
      BY <2>1, <2>2
  <1>7. TypeOK'
    BY <1>1, <1>2, <1>6 DEF TypeOK, Restart
  <1>8. managed' = Loaded /\ declared' = Loaded
    BY DEF Restart
  <1>9. TasksAreOwned' /\ OnePendingTimer' /\ ReadIsManaged'
    BY <1>2, <1>4, <1>8, TaskValues DEF TasksAreOwned, OnePendingTimer, ReadIsManaged
  <1>10. TimersAreTheirs' /\ NeverForgotten'
    BY <1>2, <1>5, <1>8, TaskValues DEF TimersAreTheirs, NeverForgotten
  <1> QED
    BY <1>7, <1>8, <1>9, <1>10 DEF Timekeeping, DeclaredUnlessRaced

\* Every step keeps the inductive invariant.
LEMMA StepIInv == IInv /\ [Next]_vars => IInv'
  <1> SUFFICES ASSUME IInv, [Next]_vars
               PROVE  IInv'
    OBVIOUS
  <1>1. ASSUME NEW d \in Domain, NEW e \in Entry, Ensure(d, e) \/ IssueNow(d, e)
        PROVE  IInv'
    BY <1>1, CallStep
  <1>2. ASSUME NEW t \in Timer, Fire(t) \/ Read(t) \/ Issue(t) \/ Settle(t)
        PROVE  IInv'
    BY <1>2, RenewalStep
  <1>3. ASSUME NEW d \in Domain, NEW ca \in CA, FallsDue(d, ca)
        PROVE  IInv'
    <2>1. TypeOK'
      BY <1>3 DEF IInv, FallsDue, TypeOK, Age
    <2> QED
      BY <1>3, <2>1 DEF IInv, FallsDue, Timekeeping, TasksAreOwned, TimersAreTheirs,
            OnePendingTimer, NeverForgotten, ReadIsManaged, DeclaredUnlessRaced
  <1>4. CASE Crash
    <2>1. TypeOK'
      BY <1>4, TaskValues DEF IInv, Crash, TypeOK, Entries, NoEntries
    <2>2. Timekeeping'
      BY <1>4, TaskValues DEF Crash, Timekeeping, TasksAreOwned, TimersAreTheirs,
            OnePendingTimer, NeverForgotten, NoEntries, Free
    <2>3. ReadIsManaged' /\ DeclaredUnlessRaced'
      BY <1>4, TaskValues DEF Crash, ReadIsManaged, DeclaredUnlessRaced, NoEntries, Free
    <2> QED
      BY <2>1, <2>2, <2>3 DEF IInv
  <1>5. CASE Restart
    BY <1>5, RestartStep
  <1>6. CASE UNCHANGED vars
    BY <1>6 DEF vars, IInv, TypeOK, Timekeeping, TasksAreOwned, TimersAreTheirs,
          OnePendingTimer, NeverForgotten, ReadIsManaged, DeclaredUnlessRaced
  <1> QED
    BY <1>1, <1>2, <1>3, <1>4, <1>5, <1>6 DEF Next

\* So it holds always.
LEMMA Invariance == Spec => []IInv
  BY InitIInv, StepIInv, PTL DEF Spec

-----------------------------------------------------------------------------
\* Types: see AcmeManager!TypeOK.
THEOREM TypeCorrect == Spec => []TypeOK
  BY Invariance, PTL DEF IInv

\* Deployments, RPCs and renewals may overlap as they like: a domain has one
\* pending timer at most.
THEOREM TimersNeverMultiply == Spec => []OnePendingTimer
  BY Invariance, PTL DEF IInv, Timekeeping

\* No failure and no restart leaves a managed domain without its next renewal.
THEOREM DomainsAreNeverForgotten == Spec => []NeverForgotten
  BY Invariance, PTL DEF IInv, Timekeeping

\* Only a declaration made while a renewal is between its first two critical
\* sections can be undone.
THEOREM DeclarationsStand == Spec => []DeclaredUnlessRaced
  BY Invariance, PTL DEF IInv
=============================================================================
