--------------------------- MODULE ControllerProofs ---------------------------
(***************************************************************************)
(* Proofs about Controller for any sets of hosts, tasks and callers, any   *)
(* scenario and any bounds.                                                *)
(*                                                                         *)
(* The inductive invariant IInv says for every thread where it may be and  *)
(* what it carries (ThreadOK), who holds the two locks (LocksHeld), what   *)
(* the operation that owns the controller knows of its host (OwnerInv),    *)
(* which life an incarnation and its threads are in (LifeInv), and what    *)
(* the scheduler keeps of its jobs (BookInv).                              *)
(***************************************************************************)
EXTENDS Controller, FiniteSetTheorems, TLAPS

-----------------------------------------------------------------------------
(* The inductive invariant.                                                *)

RemovePlaces == {"rm_context", "rm_close", "rm_join", "rm_erase", "rm_config"}
OwnerPlaces == RemovePlaces \cup {"add_context", "add_spawn", "sd_join", "sd_next"}
CallbackPlaces == {"notify", "callback", "leaving"}

\* A thread that is in a public operation of its own, not of a callback.
Operators == CallerThreads \cup RemoveThreads

\* One that may be in a callback and from there in a public operation.
NestedThreads == ConnThreads \cup WorkThreads

\* A caller at place p in call c, with callback b.
CallerOK(p, c, b) ==
  /\ p \in {"idle", "enter"} \cup OwnerPlaces \cup CallbackPlaces
  /\ p \in {"enter"} \cup OwnerPlaces \cup CallbackPlaces =>
       /\ c.op \in {"add", "remove", "command", "authorize", "schedule", "shutdown"}
       /\ c.op # "shutdown" => c.host \in Hosts
  /\ p \in {"add_context", "add_spawn"} => c.op = "add"
  /\ p \in RemovePlaces => c.op \in {"remove", "shutdown"} /\ c.host \in Hosts
  /\ p \in {"sd_join", "sd_next"} => c.op = "shutdown"
  /\ IF p \in CallbackPlaces
     THEN /\ c.host \in Hosts
          /\ \/ b.kind = "added" /\ c.op = "add"
             \/ b.kind = "removed" /\ c.op \in {"remove", "shutdown"}
     ELSE b.kind = "none"

\* The same for a removal thread ...
RemoverOK(p, c, b) ==
  /\ p \in {"unused", "enter"} \cup RemovePlaces \cup CallbackPlaces
  /\ p # "unused" => c.op = "async_remove" /\ c.host \in Hosts
  /\ b.kind = (IF p \in CallbackPlaces THEN "removed" ELSE "none")

\* ... for a connect thread or a worker, which call the controller only from inside
\* a callback, and only if the handlers do ...
NestedOK(p, c, b, kinds) ==
  /\ p = "enter" => c.op \in {"authorize", "schedule"}
  /\ IF p \in {"enter"} \cup CallbackPlaces
     THEN b.kind \in kinds /\ b.host \in Hosts
     ELSE b.kind = "none"

ConnOK(p, c, b) ==
  /\ p \in {"unused", "connect", "enter", "exited"} \cup CallbackPlaces
  /\ NestedOK(p, c, b, {"connected", "error"})

WorkOK(p, c, b) ==
  /\ p \in {"unused", "pop", "run", "enter", "post", "exited"} \cup CallbackPlaces
  /\ NestedOK(p, c, b, {"authorized", "auth_failed", "error", "update"})

\* ... and for any thread.
ThreadOK(t, p, c, b) ==
  /\ t \in CallerThreads => CallerOK(p, c, b)
  /\ t \in RemoveThreads => RemoverOK(p, c, b)
  /\ t \in ConnThreads => ConnOK(p, c, b)
  /\ t \in WorkThreads => WorkOK(p, c, b)
  /\ t = Scheduler => p \in {"loop", "exited"} /\ b.kind = "none"

ThreadsInv ==
  /\ \A t \in Thread : ThreadOK(t, pc[t], call[t], cb[t])
  /\ \A t \in NestedThreads : pc[t] = "enter" => scenario.direct

\* The calls the handlers post.
InboxInv ==
  \A k \in DOMAIN inbox :
    inbox[k].op \in {"authorize", "schedule", "async_remove"} /\ inbox[k].host \in Hosts

\* Who holds the controller's lock and who the registry's.
OwnsController(t, p) ==
  p \in OwnerPlaces \/ (t \in Operators /\ p \in CallbackPlaces)

OwnsRegistry(t, p) ==
  p \in {"callback", "leaving"} \/ (t \in NestedThreads /\ p = "enter")

LocksHeld ==
  \A t \in Thread : /\ ctrlLock = t <=> OwnsController(t, pc[t])
                    /\ regLock = t <=> OwnsRegistry(t, pc[t])

\* A host is registered under its latest number, and callers that wait to add one
\* stay within the bound.
HostsInv ==
  /\ \A h \in Hosts : /\ adds[h] <= scenario.adds
                      /\ hostControllers[h] \in {0, adds[h]}
                      /\ HasHost(h) => config[h] # "absent"
  /\ \A t, u \in CallerThreads :
       /\ pc[t] = "enter" /\ call[t].op = "add" => adds[call[t].host] < scenario.adds
       /\ pc[t] = "enter" /\ call[t].op = "add" /\ pc[u] = "enter" /\ call[u].op = "add"
            /\ call[u].host = call[t].host => t = u

\* What the thread that holds the controller's lock knows of the host it works on.
OwnerOK(t, p, c, b) ==
  /\ p \in {"add_context", "add_spawn"} \/ (p \in CallbackPlaces /\ b.kind = "added") =>
       HasHost(c.host) /\ pc[<<"conn", IncOf(c.host)>>] = "unused"
  /\ p = "add_context" => c.host \notin known
  /\ p \in {"rm_close", "rm_join", "rm_erase", "rm_config"} \/ (p \in CallbackPlaces /\ b.kind = "removed") =>
       c.host \notin known
  /\ p \in {"rm_join", "rm_erase"} => HasHost(c.host)
  /\ p = "rm_config" \/ (p \in CallbackPlaces /\ b.kind = "removed") => ~HasHost(c.host)

OwnerInv ==
  \A t \in Operators : OwnsController(t, pc[t]) => OwnerOK(t, pc[t], call[t], cb[t])

\* The life of incarnation i: not yet added, then the connect thread, then the worker,
\* which is joinable and alive as long as it may do anything.
LifeOK(i) ==
  /\ i[2] > adds[i[1]] =>
       /\ pc[<<"conn", i>>] = "unused"
       /\ queue[i] = <<>> /\ ~closed[i]
  /\ alive[i] = "alive" <=> i = IncOf(i[1])
  /\ pc[<<"conn", i>>] \in {"unused", "connect"} => pc[Work(i)] = "unused"
  /\ pc[<<"conn", i>>] = "unused" => ~joinable[i]
  /\ pc[Work(i)] \notin {"unused", "exited"} => joinable[i] /\ alive[i] = "alive"
  /\ pc[Work(i)] \in {"unused", "pop", "exited"} <=> job[i] = NoJob
  /\ pc[Work(i)] = "post" => job[i].kind = "periodic"

LifeInv == \A i \in Inc : LifeOK(i)

\* Task t of host h is pending exactly while one job for it is queued or running.
TaskInHands(i, t) == job[i] = Periodic(t) \/ \E k \in DOMAIN queue[i] : queue[i][k] = Periodic(t)

OneJobPerTask(i, t) ==
  /\ \A k, m \in DOMAIN queue[i] : queue[i][k] = Periodic(t) /\ queue[i][m] = Periodic(t) => k = m
  /\ job[i] = Periodic(t) => \A k \in DOMAIN queue[i] : queue[i][k] # Periodic(t)

\* The scheduler's data of host h, which is known.
KnownOK(h) ==
  /\ HasHost(h)
  /\ ~closed[IncOf(h)]
  /\ ~schedShutdown =>
       \A t \in Tasks : /\ OneJobPerTask(IncOf(h), t)
                        /\ t \in pending[h] <=> TaskInHands(IncOf(h), t)

\* Without a context of its host an incarnation that is just added has no jobs.
BookInv ==
  /\ \A h \in known : KnownOK(h)
  /\ \A t \in CallerThreads :
       pc[t] = "add_context" => queue[IncOf(call[t].host)] = <<>> /\ ~closed[IncOf(call[t].host)]

IInv ==
  /\ TypeOK
  /\ ThreadsInv /\ InboxInv /\ LocksHeld
  /\ HostsInv /\ OwnerInv /\ LifeInv /\ BookInv
-----------------------------------------------------------------------------
(* Steps of one thread.                                                    *)

\* The five kinds of threads are different, and a thread knows its number.
LEMMA Kinds ==
  /\ CallerThreads \cap RemoveThreads = {}
  /\ \A t \in CallerThreads \cup RemoveThreads \cup {Scheduler} : t \notin ConnThreads \cup WorkThreads
  /\ Scheduler \notin CallerThreads \cup RemoveThreads
  /\ ConnThreads \cap WorkThreads = {}
  /\ \A t \in ConnThreads : \E i \in Inc : t = <<"conn", i>>
  /\ \A t \in WorkThreads : \E i \in Inc : t = Work(i)
  /\ \A i \in Inc : <<"conn", i>> \in ConnThreads /\ Work(i) \in WorkThreads
  /\ \A i, j : (<<"conn", i>> = <<"conn", j>> => i = j) /\ (Work(i) = Work(j) => i = j)
  BY DEF CallerThreads, RemoveThreads, ConnThreads, WorkThreads, Scheduler, Work

\* Nothing changes in the threads outside S.
Others(S) ==
  \A u \in Thread \ S : pc'[u] = pc[u] /\ call'[u] = call[u] /\ cb'[u] = cb[u]

\* t carries what it has to where it now is.
MovedWell(t) ==
  /\ ThreadOK(t, pc'[t], call'[t], cb'[t])
  /\ t \in NestedThreads /\ pc'[t] = "enter" => scenario.direct

LEMMA ThreadsFrame ==
  ASSUME ThreadsInv, NEW S, Others(S), scenario' = scenario, \A t \in S : MovedWell(t)
  PROVE  ThreadsInv'
<1>1. ASSUME NEW u \in Thread
      PROVE  ThreadOK(u, pc'[u], call'[u], cb'[u])
  BY DEF ThreadsInv, Others, MovedWell
<1>2. ASSUME NEW u \in NestedThreads, pc'[u] = "enter"
      PROVE  scenario'.direct
  BY <1>2 DEF ThreadsInv, Others, MovedWell, Thread, NestedThreads
<1> QED  BY <1>1, <1>2 DEF ThreadsInv

\* t owns the locks it has to own where it now is.
LocksWell(t) ==
  /\ ctrlLock' = t <=> OwnsController(t, pc'[t])
  /\ regLock' = t <=> OwnsRegistry(t, pc'[t])

\* The threads outside S keep the locks they have and get none.
KeepLocks(S) ==
  \A u \in Thread \ S : (ctrlLock' = u <=> ctrlLock = u) /\ (regLock' = u <=> regLock = u)

LEMMA LocksFrame ==
  ASSUME LocksHeld, NEW S, Others(S), KeepLocks(S), \A t \in S : LocksWell(t)
  PROVE  LocksHeld'
<1>1. ASSUME NEW u \in Thread
      PROVE  /\ ctrlLock' = u <=> OwnsController(u, pc'[u])
             /\ regLock' = u <=> OwnsRegistry(u, pc'[u])
  BY DEF LocksHeld, Others, KeepLocks, LocksWell
<1> QED  BY <1>1 DEF LocksHeld

\* A step after which only t may own the controller, and knows what it has to know.
LEMMA OwnerStep ==
  ASSUME LocksHeld', NEW t \in Operators, ctrlLock' \in {t, None},
         OwnsController(t, pc'[t]) => OwnerOK(t, pc[t], call[t], cb[t])'
  PROVE  OwnerInv'
<1>1. ASSUME NEW u \in Operators, OwnsController(u, pc'[u])
      PROVE  OwnerOK(u, pc[u], call[u], cb[u])'
  <2>1. u \in Thread
    BY DEF Operators, Thread
  <2>2. ctrlLock' = u
    BY <1>1, <2>1 DEF LocksHeld
  <2>3. u = t
    BY <2>1, <2>2, NoThreadIsNone
  <2> QED  BY <1>1, <2>3
<1> QED  BY <1>1 DEF OwnerInv

\* A registered host has a number.
LEMMA RegisteredInc ==
  ASSUME TypeOK, NEW h, HasHost(h)
  PROVE  h \in Hosts /\ IncOf(h) \in Inc
  BY ControllerAssumption DEF TypeOK, HasHost, IncOf, Inc

\* A step that changes no host and starts no connect thread.
LEMMA OwnerFrame ==
  ASSUME TypeOK, OwnerInv, NEW S, Others(S), UNCHANGED <<hostControllers, known>>,
         \A t \in S \cap Operators :
           OwnsController(t, pc'[t]) => OwnerOK(t, pc[t], call[t], cb[t])',
         \A t \in S \cap ConnThreads : pc[t] # "unused"
  PROVE  OwnerInv'
<1>1. ASSUME NEW u \in Operators, OwnsController(u, pc'[u])
      PROVE  OwnerOK(u, pc[u], call[u], cb[u])'
  <2>1. CASE u \in S
    BY <1>1, <2>1
  <2>2. ASSUME u \notin S
        PROVE  OwnerOK(u, pc[u], call[u], cb[u])'
    <3>1. u \in Thread
      BY DEF Operators, Thread
    <3>2. pc'[u] = pc[u] /\ call'[u] = call[u] /\ cb'[u] = cb[u]
      BY <2>2, <3>1 DEF Others
    <3>3. OwnerOK(u, pc[u], call[u], cb[u])
      BY <1>1, <3>2 DEF OwnerInv
    <3>4. \A h : HasHost(h)' = HasHost(h) /\ IncOf(h)' = IncOf(h)
      BY DEF HasHost, IncOf
    <3>5. \A i \in Inc : pc[<<"conn", i>>] = "unused" => pc'[<<"conn", i>>] = "unused"
      BY Kinds DEF Others, Thread
    <3>6. \A h : HasHost(h) => IncOf(h) \in Inc
      BY RegisteredInc
    <3> QED  BY <3>2, <3>3, <3>4, <3>5, <3>6 DEF OwnerOK
  <2> QED  BY <2>1, <2>2
<1> QED  BY <1>1 DEF OwnerInv

\* A step that adds no host, and in which at most one caller gets in the queue to
\* add one.
AddsWell(t) ==
  t \in CallerThreads /\ pc'[t] = "enter" /\ call'[t].op = "add" => MayAdd(call'[t].host)

LEMMA ConfigFrame ==
  ASSUME TypeOK, HostsInv, NEW S, Others(S), UNCHANGED <<scenario, adds, hostControllers>>,
         \A h \in Hosts : HasHost(h) => config'[h] # "absent",
         \A t \in S : AddsWell(t), \A t, u \in S \cap CallerThreads : t = u
  PROVE  HostsInv'
<1>1. \A h \in Hosts : /\ adds'[h] <= scenario'.adds
                       /\ hostControllers'[h] \in {0, adds'[h]}
                       /\ HasHost(h)' => config'[h] # "absent"
  BY DEF HostsInv, HasHost
<1>2. \A t \in CallerThreads \ S :
        pc'[t] = "enter" /\ call'[t].op = "add" => pc[t] = "enter" /\ call'[t] = call[t]
  BY DEF Others, Thread
<1>3. \A t \in CallerThreads : pc'[t] = "enter" /\ call'[t].op = "add" => adds[call'[t].host] < scenario.adds
  BY <1>2 DEF HostsInv, AddsWell, MayAdd
<1>4. ASSUME NEW t \in CallerThreads \cap S, pc'[t] = "enter", call'[t].op = "add",
             NEW u \in CallerThreads \ S, pc'[u] = "enter", call'[u].op = "add"
      PROVE  call'[u].host # call'[t].host
  <2>1. call[u] = MkCall("add", call[u].host)
    BY <1>2, <1>4 DEF TypeOK, Call, Thread, MkCall
  <2>2. call[u] # MkCall("add", call'[t].host)
    BY <1>2, <1>4 DEF AddsWell, MayAdd
  <2> QED  BY <1>2, <1>4, <2>1, <2>2
<1>5. \A t, u \in CallerThreads :
        pc'[t] = "enter" /\ call'[t].op = "add" /\ pc'[u] = "enter" /\ call'[u].op = "add"
        /\ call'[u].host = call'[t].host => t = u
  BY <1>2, <1>4 DEF HostsInv
<1> QED  BY <1>1, <1>3, <1>5 DEF HostsInv

LEMMA HostsFrame ==
  ASSUME TypeOK, HostsInv, NEW S, Others(S), UNCHANGED <<scenario, adds, hostControllers, config>>,
         \A t \in S : AddsWell(t), \A t, u \in S \cap CallerThreads : t = u
  PROVE  HostsInv'
<1>1. \A h \in Hosts : HasHost(h) => config'[h] # "absent"
  BY DEF HostsInv
<1> QED  BY <1>1, ConfigFrame

\* A step that leaves the incarnations alone, but for those whose threads are in S.
LEMMA LifeFrame ==
  ASSUME LifeInv, NEW S, Others(S), UNCHANGED <<adds, hostControllers, hostVars>>,
         \A i \in Inc : <<"conn", i>> \in S \/ Work(i) \in S => LifeOK(i)'
  PROVE  LifeInv'
<1>1. ASSUME NEW i \in Inc, <<"conn", i>> \notin S, Work(i) \notin S
      PROVE  LifeOK(i)'
  <2>1. LifeOK(i)
    BY DEF LifeInv
  <2>2. pc'[<<"conn", i>>] = pc[<<"conn", i>>] /\ pc'[Work(i)] = pc[Work(i)]
    BY <1>1, Kinds DEF Others, Thread
  <2> QED  BY <2>1, <2>2 DEF LifeOK, IncOf, hostVars
<1> QED  BY <1>1 DEF LifeInv

\* A step that leaves the jobs and the scheduler's data alone.
LEMMA BookFrame ==
  ASSUME BookInv, NEW S, Others(S), UNCHANGED <<hostControllers, schedVars, queue, closed, job>>,
         \A t \in S \cap CallerThreads : pc'[t] # "add_context"
  PROVE  BookInv'
<1>1. ASSUME NEW h \in known
      PROVE  KnownOK(h)'
  <2>1. KnownOK(h)
    BY DEF BookInv
  <2> QED  BY <2>1 DEF KnownOK, HasHost, IncOf, OneJobPerTask, TaskInHands, schedVars
<1>2. ASSUME NEW t \in CallerThreads, pc'[t] = "add_context"
      PROVE  queue'[IncOf(call[t].host)'] = <<>> /\ ~closed'[IncOf(call[t].host)']
  BY <1>2 DEF BookInv, Others, Thread, IncOf
<1> QED  BY <1>1, <1>2 DEF BookInv, schedVars

\* A step that changes neither hosts nor jobs nor the scheduler's data.
Quiet == UNCHANGED <<ctrlVars, schedVars, hostVars>>

\* Thread t may be and own what it is and owns after a quiet step.
StepsWell(t) ==
  /\ MovedWell(t) /\ LocksWell(t) /\ AddsWell(t)
  /\ t \in Operators /\ OwnsController(t, pc'[t]) => OwnerOK(t, pc[t], call[t], cb[t])'
  /\ t \in CallerThreads => pc'[t] # "add_context"
  /\ t \in ConnThreads => pc[t] # "unused"
  /\ \A i \in Inc : t = <<"conn", i>> \/ t = Work(i) => LifeOK(i)'

LEMMA QuietFrame ==
  ASSUME IInv, NEW S, Others(S), Quiet, TypeOK', InboxInv', KeepLocks(S),
         \A t \in S : StepsWell(t), \A t, u \in S \cap CallerThreads : t = u
  PROVE  IInv'
<1> USE DEF IInv, Quiet, ctrlVars, schedVars, StepsWell
<1>1. ThreadsInv'
  BY ThreadsFrame
<1>2. LocksHeld'
  BY LocksFrame
<1>3. HostsInv'
  BY HostsFrame
<1>4. OwnerInv'
  BY OwnerFrame
<1>5. LifeInv'
  BY LifeFrame
<1>6. BookInv'
  BY BookFrame DEF hostVars
<1> QED  BY <1>1, <1>2, <1>3, <1>4, <1>5, <1>6

LEMMA TypesFrame ==
  ASSUME TypeOK, Quiet, UNCHANGED <<crash, gone>>,
         ctrlLock' \in Thread \cup {None}, regLock' \in Thread \cup {None},
         pc' \in [Thread -> Places], call' \in [Thread -> Call], cb' \in [Thread -> Callback],
         inbox' \in Seq(Call), errors' \in 0..MaxErrors
  PROVE  TypeOK'
<1>1. shutdown' \in BOOLEAN /\ schedShutdown' \in BOOLEAN /\ gone' \in BOOLEAN
  BY Zenon DEF TypeOK, Quiet, ctrlVars, schedVars
<1> QED  BY <1>1 DEF TypeOK, Quiet, ctrlVars, schedVars, hostVars

\* A worker with a job in hands keeps it, whatever it does with it.
Busy == {"run", "notify", "callback", "enter", "leaving"}

LEMMA LifeStays ==
  ASSUME LifeInv, NEW S, Others(S), UNCHANGED <<adds, hostControllers, hostVars>>,
         \A t \in S \cap NestedThreads : pc[t] \in Busy /\ pc'[t] \in Busy,
         NEW i \in Inc
  PROVE  LifeOK(i)'
<1>1. LifeOK(i)
  BY DEF LifeInv
<1>2. <<"conn", i>> \notin S => pc'[<<"conn", i>>] = pc[<<"conn", i>>]
  BY Kinds DEF Others, Thread
<1>3. Work(i) \notin S => pc'[Work(i)] = pc[Work(i)]
  BY Kinds DEF Others, Thread
<1>4. <<"conn", i>> \in NestedThreads /\ Work(i) \in NestedThreads
  BY Kinds DEF NestedThreads
<1> QED  BY <1>1, <1>2, <1>3, <1>4 DEF LifeOK, IncOf, hostVars, Busy

\* What an owner knows of its host stays true if no connect thread is started.
LEMMA OwnerStays ==
  ASSUME TypeOK, Quiet, NEW S, Others(S), \A u \in S \cap ConnThreads : pc[u] # "unused",
         NEW t, NEW p, NEW c, NEW b, OwnerOK(t, p, c, b)
  PROVE  OwnerOK(t, p, c, b)'
<1>1. \A h : HasHost(h)' = HasHost(h) /\ IncOf(h)' = IncOf(h)
  BY DEF HasHost, IncOf, Quiet, ctrlVars
<1>2. \A i \in Inc : pc[<<"conn", i>>] = "unused" => pc'[<<"conn", i>>] = pc[<<"conn", i>>]
  BY Kinds DEF Others, Thread
<1> QED  BY <1>1, <1>2, RegisteredInc DEF OwnerOK, Quiet, schedVars

\* What the owner t of the controller knows at its new place.
OwnsWell(t) ==
  t \in Operators /\ OwnsController(t, pc'[t]) => OwnerOK(t, pc'[t], call'[t], cb'[t])

\* A thread of a quiet step, which does not begin or end the work of a nested one.
GoesOn(t) ==
  /\ MovedWell(t) /\ LocksWell(t) /\ AddsWell(t) /\ OwnsWell(t)
  /\ t \in CallerThreads => pc'[t] # "add_context"
  /\ t \in NestedThreads => pc[t] \in Busy /\ pc'[t] \in Busy

LEMMA QuietStep ==
  ASSUME IInv, NEW S, Others(S), Quiet, UNCHANGED <<crash, gone>>,
         pc' \in [Thread -> Places], call' \in [Thread -> Call], cb' \in [Thread -> Callback],
         inbox' \in Seq(Call), errors' \in 0..MaxErrors,
         ctrlLock' \in Thread \cup {None}, regLock' \in Thread \cup {None},
         InboxInv', KeepLocks(S),
         \A t \in S : GoesOn(t), \A t, u \in S \cap CallerThreads : t = u
  PROVE  IInv'
<1>1. TypeOK'
  BY TypesFrame DEF IInv
<1>2. \A t \in S \cap ConnThreads : pc[t] # "unused"
  BY DEF NestedThreads, Busy, GoesOn
<1>3. ASSUME NEW t \in S
      PROVE  StepsWell(t)
  <2>1. t \in Operators /\ OwnsController(t, pc'[t]) => OwnerOK(t, pc[t], call[t], cb[t])'
    BY <1>2, OwnerStays DEF IInv, GoesOn, OwnsWell
  <2>2. \A i \in Inc : LifeOK(i)'
    BY LifeStays DEF IInv, GoesOn, Quiet, ctrlVars
  <2> QED  BY <1>2, <2>1, <2>2 DEF StepsWell, GoesOn
<1> QED  BY <1>1, <1>3, QuietFrame

\* What the invariant says of one thread.
LEMMA OfThread ==
  ASSUME IInv, NEW t \in Thread
  PROVE  /\ ThreadOK(t, pc[t], call[t], cb[t])
         /\ ctrlLock = t <=> OwnsController(t, pc[t])
         /\ regLock = t <=> OwnsRegistry(t, pc[t])
         /\ t \in Operators /\ OwnsController(t, pc[t]) => OwnerOK(t, pc[t], call[t], cb[t])
  BY DEF IInv, ThreadsInv, LocksHeld, OwnerInv

USE DEF CallbackPlaces, OwnerPlaces, RemovePlaces

\* for_host_handler and for_periodic_task_handler lock the registry.
LEMMA TakeRegistryStep ==
  ASSUME IInv, NEW t \in Thread, TakeRegistry(t)
  PROVE  IInv'
<1>1. Others({t}) /\ Quiet /\ pc[t] = "notify" /\ pc'[t] = "callback"
      /\ call' = call /\ cb' = cb /\ ctrlLock' = ctrlLock /\ regLock = None /\ regLock' = t
      /\ inbox' = inbox /\ UNCHANGED <<errors, crash, gone>>
      /\ pc' \in [Thread -> Places]
  BY DEF IInv, TypeOK, TakeRegistry, Goto, Others, Quiet, lockVars, uiVars, Places
<1>2. InboxInv' /\ KeepLocks({t})
  BY <1>1, NoThreadIsNone DEF IInv, InboxInv, KeepLocks
<1>3. ThreadOK(t, pc[t], call[t], cb[t]) /\ (ctrlLock = t <=> OwnsController(t, pc[t]))
  BY OfThread
<1>4. MovedWell(t)
  BY <1>1, <1>3 DEF MovedWell, ThreadOK, CallerOK, RemoverOK, ConnOK, WorkOK, NestedOK
<1>5. LocksWell(t)
  BY <1>1, <1>3 DEF LocksWell, OwnsController, OwnsRegistry
<1>6. OwnsWell(t)
  BY <1>1 DEF IInv, OwnerInv, OwnerOK, OwnsController, OwnsWell
<1>7. GoesOn(t)
  BY <1>1, <1>4, <1>5, <1>6 DEF GoesOn, AddsWell, Busy
<1> QED  BY <1>1, <1>2, <1>7, QuietStep DEF IInv, TypeOK

\* The reactions of a callback's handler are calls about the host of the callback.
LEMMA ReactionsOfHandlers ==
  ASSUME IInv, NEW t \in Thread, pc[t] = "callback", NEW r \in Reactions(cb[t]), r # NoCall
  PROVE  /\ r \in Call /\ r.op \in {"authorize", "schedule", "async_remove"} /\ r.host \in Hosts
         /\ t \in NestedThreads
<1>1. ThreadOK(t, pc[t], call[t], cb[t])
  BY DEF IInv, ThreadsInv
<1>2. cb[t].kind \in {"connected", "authorized", "auth_failed", "error"}
  BY DEF Reactions
<1>3. cb[t].host \in Hosts /\ t \in NestedThreads
  BY <1>1, <1>2 DEF ThreadOK, CallerOK, RemoverOK, ConnOK, WorkOK, NestedOK, Thread, CallbackPlaces, NestedThreads
<1> QED  BY <1>2, <1>3 DEF Reactions, MkCall, Call, AllOps

\* A handler posts an event for its reaction.
LEMMA HandlerPostsStep ==
  ASSUME IInv, NEW t \in Thread, HandlerPosts(t)
  PROVE  IInv'
<1>1. Others({t}) /\ Quiet /\ pc[t] = "callback" /\ pc'[t] = "leaving"
      /\ call' = call /\ cb' = cb /\ ctrlLock' = ctrlLock /\ regLock' = regLock
      /\ UNCHANGED <<errors, crash, gone>>
      /\ pc' \in [Thread -> Places]
  BY DEF IInv, TypeOK, HandlerPosts, Goto, Others, Quiet, lockVars, Places
<1>2. ThreadOK(t, pc[t], call[t], cb[t]) /\ (ctrlLock = t <=> OwnsController(t, pc[t]))
      /\ (regLock = t <=> OwnsRegistry(t, pc[t]))
  BY OfThread
<1>3. inbox' = inbox
      \/ \E r \in Call : /\ r.op \in {"authorize", "schedule", "async_remove"} /\ r.host \in Hosts
                         /\ inbox' = Append(inbox, r)
  <2>1. PICK r \in Reactions(cb[t]) :
          (r = NoCall /\ inbox' = inbox) \/ (r # NoCall /\ inbox' = Append(inbox, r))
    BY DEF HandlerPosts
  <2> QED  BY <1>1, <2>1, ReactionsOfHandlers
<1>4. inbox' \in Seq(Call) /\ InboxInv' /\ KeepLocks({t})
  <2>1. inbox \in Seq(Call) /\ InboxInv
    BY DEF IInv, TypeOK
  <2>2. ASSUME NEW r \in Call, r.op \in {"authorize", "schedule", "async_remove"}, r.host \in Hosts,
               inbox' = Append(inbox, r)
        PROVE  inbox' \in Seq(Call) /\ InboxInv'
    BY <2>1, <2>2 DEF InboxInv
  <2>3. inbox' = inbox => inbox' \in Seq(Call) /\ InboxInv'
    BY <2>1 DEF InboxInv
  <2> QED  BY <1>1, <1>3, <2>2, <2>3 DEF KeepLocks
<1>5. MovedWell(t)
  BY <1>1, <1>2 DEF MovedWell, ThreadOK, CallerOK, RemoverOK, ConnOK, WorkOK, NestedOK
<1>6. LocksWell(t)
  BY <1>1, <1>2 DEF LocksWell, OwnsController, OwnsRegistry
<1>7. OwnsWell(t)
  BY <1>1 DEF IInv, OwnerInv, OwnerOK, OwnsController, OwnsWell
<1>8. GoesOn(t)
  BY <1>1, <1>5, <1>6, <1>7 DEF GoesOn, AddsWell, Busy
<1> QED  BY <1>1, <1>4, <1>8, QuietStep DEF IInv, TypeOK

\* async_remove_host starts a thread of its own.
LEMMA RemoverStarts ==
  ASSUME IInv, NEW k \in 1..MaxRemovals, pc[<<"rm", k>>] = "unused", NEW h \in Hosts,
         pc'[<<"rm", k>>] = "enter", call'[<<"rm", k>>] = MkCall("async_remove", h),
         cb' = cb, UNCHANGED lockVars
  PROVE  <<"rm", k>> \in RemoveThreads /\ GoesOn(<<"rm", k>>)
<1> DEFINE u == <<"rm", k>>
<1>1. u \in RemoveThreads /\ u \in Thread /\ u \notin CallerThreads /\ u \notin NestedThreads
      /\ u # Scheduler
  BY Kinds DEF RemoveThreads, Thread, NestedThreads
<1>2. ThreadOK(u, pc[u], call[u], cb[u]) /\ (ctrlLock = u <=> OwnsController(u, pc[u]))
      /\ (regLock = u <=> OwnsRegistry(u, pc[u]))
  BY <1>1 DEF IInv, ThreadsInv, LocksHeld
<1> QED
  BY <1>1, <1>2, Kinds DEF GoesOn, MovedWell, LocksWell, AddsWell, OwnsWell, ThreadOK, RemoverOK, MkCall,
     OwnsController, OwnsRegistry, lockVars, CallbackPlaces, OwnerPlaces, RemovePlaces, NestedThreads

\* A handler calls the controller itself.
LEMMA HandlerCallsStep ==
  ASSUME IInv, NEW t \in Thread, HandlerCalls(t)
  PROVE  IInv'
<1>1. PICK r \in Reactions(cb[t]) :
        \/ r.op = "async_remove" /\ SpawnRemoval(r.host, [pc EXCEPT ![t] = "leaving"])
        \/ r.op \in {"authorize", "schedule"} /\ Goto(t, "enter") /\ call' = [call EXCEPT ![t] = r]
  BY DEF HandlerCalls
<1>2. Quiet /\ UNCHANGED <<cb, lockVars, inbox, errors, crash, gone>> /\ pc[t] = "callback" /\ scenario.direct
  BY DEF HandlerCalls, Quiet, uiVars
<1>3. InboxInv' /\ KeepLocks({t})
  BY <1>2 DEF IInv, InboxInv, KeepLocks, lockVars
<1>4. ThreadOK(t, pc[t], call[t], cb[t]) /\ (ctrlLock = t <=> OwnsController(t, pc[t]))
      /\ (regLock = t <=> OwnsRegistry(t, pc[t]))
  BY OfThread
<1>5. r \in Call /\ r.host \in Hosts /\ t \in NestedThreads
  BY <1>1, <1>2, ReactionsOfHandlers DEF NoCall
<1>6. t \notin Operators /\ t # Scheduler
  BY <1>5, Kinds DEF Operators, NestedThreads
<1>7. CASE r.op = "async_remove" /\ SpawnRemoval(r.host, [pc EXCEPT ![t] = "leaving"])
  <2> DEFINE pcs == [pc EXCEPT ![t] = "leaving"]
  <2>1. PICK k \in 1..MaxRemovals :
          /\ pcs[<<"rm", k>>] = "unused"
          /\ pc' = [pcs EXCEPT ![<<"rm", k>>] = "enter"]
          /\ call' = [call EXCEPT ![<<"rm", k>>] = MkCall("async_remove", r.host)]
    BY <1>7 DEF SpawnRemoval
  <2> DEFINE u == <<"rm", k>>
  <2>2. u \in Thread /\ u # t
    BY <1>5, Kinds DEF Thread, RemoveThreads, NestedThreads
  <2>3. Others({t, u}) /\ pc[u] = "unused" /\ pc'[u] = "enter" /\ pc'[t] = "leaving"
        /\ call'[u] = MkCall("async_remove", r.host) /\ call'[t] = call[t]
        /\ pc' \in [Thread -> Places] /\ call' \in [Thread -> Call]
    BY <2>1, <2>2, <1>2, <1>5 DEF IInv, TypeOK, Others, Places, MkCall, Call, AllOps
  <2>4. u \in RemoveThreads /\ GoesOn(u)
    BY <1>2, <1>5, <2>3, RemoverStarts
  <2>5. GoesOn(t)
    BY <1>2, <1>4, <1>5, <1>6, <2>3, Kinds DEF GoesOn, MovedWell, LocksWell, AddsWell, OwnsWell, Busy, ThreadOK, ConnOK, WorkOK,
       NestedOK, OwnsController, OwnsRegistry, lockVars, NestedThreads, Operators
  <2>6. KeepLocks({t, u}) /\ \A a, b \in {t, u} \cap CallerThreads : a = b
    BY <1>2, <1>6, <2>4, Kinds DEF KeepLocks, lockVars, Operators
  <2> QED  BY <1>2, <1>3, <2>3, <2>4, <2>5, <2>6, QuietStep DEF IInv, TypeOK, lockVars
<1>8. CASE r.op \in {"authorize", "schedule"} /\ Goto(t, "enter") /\ call' = [call EXCEPT ![t] = r]
  <2>1. Others({t}) /\ pc'[t] = "enter" /\ call'[t] = r /\ pc' \in [Thread -> Places] /\ call' \in [Thread -> Call]
    BY <1>2, <1>5, <1>8 DEF IInv, TypeOK, Others, Places, Goto
  <2>2. GoesOn(t)
    BY <1>2, <1>4, <1>5, <1>6, <1>8, <2>1, Kinds DEF GoesOn, MovedWell, LocksWell, AddsWell, OwnsWell, Busy, ThreadOK, ConnOK, WorkOK,
       NestedOK, OwnsController, OwnsRegistry, lockVars, NestedThreads, Operators
  <2> QED  BY <1>2, <1>3, <2>1, <2>2, QuietStep DEF IInv, TypeOK, lockVars
<1> QED  BY <1>1, <1>7, <1>8

\* A call is refused with an exception: shut down, or the wrong host.
LEMMA CallThrowsStep ==
  ASSUME IInv, NEW t \in Thread, CallThrows(t)
  PROVE  IInv'
<1>1. pc[t] = "enter" /\ call[t].op # "async_remove" /\ Returns(t)
      /\ Quiet /\ UNCHANGED <<lockVars, uiVars, cb>>
  BY DEF CallThrows, Enters, Quiet
<1>2. ThreadOK(t, pc[t], call[t], cb[t]) /\ (ctrlLock = t <=> OwnsController(t, pc[t]))
      /\ (regLock = t <=> OwnsRegistry(t, pc[t]))
  BY OfThread
<1>3. t \in CallerThreads \/ t \in NestedThreads
  BY <1>1, <1>2 DEF ThreadOK, RemoverOK, Thread, NestedThreads
<1>4. pc'[t] = AfterCall(t) /\ call'[t] = NoCall /\ Others({t})
      /\ pc' \in [Thread -> Places] /\ call' \in [Thread -> Call]
  BY <1>1, <1>3, Kinds DEF IInv, TypeOK, Returns, Goto, AfterCall, Places, NoCall, Call, Others, NestedThreads, Operators
<1>5. AfterCall(t) = (IF t \in CallerThreads THEN "idle" ELSE "leaving")
  BY <1>3, Kinds DEF AfterCall, NestedThreads
<1>6. GoesOn(t)
  BY <1>1, <1>2, <1>3, <1>4, <1>5, Kinds DEF GoesOn, MovedWell, LocksWell, AddsWell, OwnsWell, Busy, ThreadOK, ConnOK,
     WorkOK, CallerOK, NestedOK, OwnsController, OwnsRegistry, lockVars, NestedThreads, Operators
<1> QED  BY <1>1, <1>4, <1>6, QuietStep DEF IInv, TypeOK, lockVars, uiVars, InboxInv, KeepLocks

\* remove_host_ begins, with the controller locked.
LEMMA RemoveHostStep ==
  ASSUME IInv, NEW t \in Thread, RemoveHost(t)
  PROVE  IInv'
<1>1. pc[t] = "enter" /\ call[t].op \in {"remove", "async_remove"} /\ ctrlLock = None /\ ctrlLock' = t
      /\ pc'[t] = "rm_context" /\ Others({t}) /\ pc' \in [Thread -> Places]
      /\ Quiet /\ UNCHANGED <<regLock, uiVars, call, cb>>
  BY DEF IInv, TypeOK, RemoveHost, Verified, Enters, Quiet, Goto, Others, Places
<1>2. ThreadOK(t, pc[t], call[t], cb[t]) /\ (regLock = t <=> OwnsRegistry(t, pc[t]))
  BY OfThread
<1>3. t \in Operators
  BY <1>1, <1>2 DEF ThreadOK, ConnOK, WorkOK, NestedOK, Thread, Operators
<1>4. GoesOn(t)
  BY <1>1, <1>2, <1>3, Kinds DEF GoesOn, MovedWell, LocksWell, AddsWell, OwnsWell, OwnerOK, ThreadOK, CallerOK,
     RemoverOK, OwnsController, OwnsRegistry, NestedThreads, Operators
<1>5. KeepLocks({t}) /\ InboxInv'
  BY <1>1, NoThreadIsNone DEF IInv, KeepLocks, InboxInv, uiVars
<1> QED  BY <1>1, <1>4, <1>5, QuietStep DEF IInv, TypeOK, uiVars

\* shutdown() has joined the scheduler, ...
LEMMA JoinSchedulerStep ==
  ASSUME IInv, NEW t \in Thread, JoinScheduler(t)
  PROVE  IInv'
<1>1. pc[t] = "sd_join" /\ pc'[t] = "sd_next" /\ Others({t}) /\ pc' \in [Thread -> Places]
      /\ Quiet /\ UNCHANGED <<lockVars, uiVars, call, cb>>
  BY DEF IInv, TypeOK, JoinScheduler, Quiet, Goto, Others, Places
<1>2. ThreadOK(t, pc[t], call[t], cb[t]) /\ (ctrlLock = t <=> OwnsController(t, pc[t]))
      /\ (regLock = t <=> OwnsRegistry(t, pc[t]))
  BY OfThread
<1>3. t \in CallerThreads
  BY <1>1, <1>2 DEF ThreadOK, ConnOK, WorkOK, RemoverOK, Thread
<1>4. GoesOn(t)
  BY <1>1, <1>2, <1>3, Kinds DEF GoesOn, MovedWell, LocksWell, AddsWell, OwnsWell, OwnerOK, ThreadOK, CallerOK,
     OwnsController, OwnsRegistry, NestedThreads, Operators, lockVars
<1> QED  BY <1>1, <1>4, QuietStep DEF IInv, TypeOK, uiVars, lockVars, KeepLocks, InboxInv

\* ... takes the next host ...
LEMMA RemoveNextStep ==
  ASSUME IInv, NEW t \in Thread, RemoveNext(t)
  PROVE  IInv'
<1>1. PICK h \in Hosts : call' = [call EXCEPT ![t].host = h] /\ Goto(t, "rm_context")
  BY DEF RemoveNext
<1>2. pc[t] = "sd_next" /\ pc'[t] = "rm_context" /\ pc' \in [Thread -> Places]
      /\ Quiet /\ UNCHANGED <<lockVars, uiVars, cb>>
  BY <1>1 DEF IInv, TypeOK, RemoveNext, Quiet, Goto, Places
<1>3. ThreadOK(t, pc[t], call[t], cb[t]) /\ (ctrlLock = t <=> OwnsController(t, pc[t]))
      /\ (regLock = t <=> OwnsRegistry(t, pc[t]))
  BY OfThread
<1>4. t \in CallerThreads
  BY <1>2, <1>3 DEF ThreadOK, ConnOK, WorkOK, RemoverOK, Thread
<1>5. call' \in [Thread -> Call] /\ call'[t].op = call[t].op /\ call'[t].host = h /\ Others({t})
  <2>1. call \in [Thread -> Call] /\ pc \in [Thread -> Places]
    BY DEF IInv, TypeOK
  <2>2. \A c \in Call : [c EXCEPT !.host = h] \in Call /\ [c EXCEPT !.host = h].op = c.op
                        /\ [c EXCEPT !.host = h].host = h
    BY DEF Call
  <2>3. call' = [call EXCEPT ![t] = [call[t] EXCEPT !.host = h]]
    BY <1>1
  <2>4. call' \in [Thread -> Call] /\ call'[t] = [call[t] EXCEPT !.host = h]
    BY <2>1, <2>2, <2>3
  <2>5. Others({t})
    BY <1>1, <1>2, <2>1, <2>3 DEF Others, Goto
  <2> QED  BY <2>1, <2>2, <2>4, <2>5
<1>6. GoesOn(t)
  BY <1>2, <1>3, <1>4, <1>5, Kinds DEF GoesOn, MovedWell, LocksWell, AddsWell, OwnsWell, OwnerOK, ThreadOK, CallerOK,
     OwnsController, OwnsRegistry, NestedThreads, Operators, lockVars
<1> QED  BY <1>2, <1>5, <1>6, QuietStep DEF IInv, TypeOK, uiVars, lockVars, KeepLocks, InboxInv

\* ... and returns when there is none left.
LEMMA ShutdownReturnsStep ==
  ASSUME IInv, NEW t \in Thread, ShutdownReturns(t)
  PROVE  IInv'
<1>1. pc[t] = "sd_next" /\ ctrlLock' = None /\ Returns(t)
      /\ Quiet /\ UNCHANGED <<regLock, uiVars, cb>>
  BY DEF ShutdownReturns, Quiet
<1>2. ThreadOK(t, pc[t], call[t], cb[t]) /\ (ctrlLock = t <=> OwnsController(t, pc[t]))
      /\ (regLock = t <=> OwnsRegistry(t, pc[t]))
  BY OfThread
<1>3. t \in CallerThreads
  BY <1>1, <1>2 DEF ThreadOK, ConnOK, WorkOK, RemoverOK, Thread
<1>4. ctrlLock = t
  BY <1>1, <1>2 DEF OwnsController
<1>5. pc'[t] = "idle" /\ call'[t] = NoCall /\ Others({t})
      /\ pc' \in [Thread -> Places] /\ call' \in [Thread -> Call]
  BY <1>1, <1>3, Kinds DEF IInv, TypeOK, Returns, Goto, AfterCall, Places, NoCall, Call, Others
<1>6. GoesOn(t)
  BY <1>1, <1>2, <1>3, <1>5, Kinds, NoThreadIsNone DEF GoesOn, MovedWell, LocksWell, AddsWell, OwnsWell, ThreadOK, CallerOK,
     OwnsController, OwnsRegistry, NestedThreads, Operators
<1>7. KeepLocks({t}) /\ InboxInv'
  BY <1>1, <1>4, NoThreadIsNone DEF IInv, KeepLocks, InboxInv, uiVars
<1> QED  BY <1>1, <1>5, <1>6, <1>7, QuietStep DEF IInv, TypeOK, uiVars

\* A caller enters a public operation.
LEMMA CallStarts ==
  ASSUME IInv, NEW t \in CallerThreads, NEW c \in Call, StartCall(t, c), cb' = cb, UNCHANGED lockVars,
         c.op \in {"add", "remove", "command", "authorize", "schedule", "shutdown"},
         c.op # "shutdown" => c.host \in Hosts,
         c.op = "add" => MayAdd(c.host)
  PROVE  /\ Others({t}) /\ pc' \in [Thread -> Places] /\ call' \in [Thread -> Call]
         /\ GoesOn(t)
<1>1. t \in Thread
  BY DEF Thread
<1>2. pc[t] = "idle" /\ pc'[t] = "enter" /\ call'[t] = c /\ Others({t})
      /\ pc' \in [Thread -> Places] /\ call' \in [Thread -> Call]
  BY <1>1 DEF IInv, TypeOK, StartCall, Goto, Others, Places
<1>3. ThreadOK(t, pc[t], call[t], cb[t]) /\ (ctrlLock = t <=> OwnsController(t, pc[t]))
      /\ (regLock = t <=> OwnsRegistry(t, pc[t]))
  BY <1>1, OfThread
<1>4. GoesOn(t)
  BY <1>2, <1>3, Kinds DEF GoesOn, MovedWell, LocksWell, AddsWell, OwnsWell, ThreadOK, CallerOK,
     OwnsController, OwnsRegistry, NestedThreads, Operators, lockVars
<1> QED  BY <1>2, <1>4

\* The user of the library makes a call.
LEMMA UserCallsStep ==
  ASSUME IInv, NEW t \in CallerThreads, UserCalls(t)
  PROVE  IInv'
<1>1. PICK h \in scenario.hosts :
        \/ MayAdd(h) /\ StartCall(t, MkCall("add", h))
        \/ StartCall(t, MkCall("remove", h))
        \/ StartCall(t, MkCall("command", h))
        \/ StartCall(t, MkCall("shutdown", None))
  BY DEF UserCalls
<1>2. Quiet /\ UNCHANGED <<lockVars, uiVars, cb>>
  BY DEF UserCalls, Quiet
<1>3. h \in Hosts
  BY ControllerAssumption DEF IInv, TypeOK
<1>4. PICK c \in Call :
        /\ StartCall(t, c)
        /\ c.op \in {"add", "remove", "command", "shutdown"}
        /\ c.op # "shutdown" => c.host \in Hosts
        /\ c.op = "add" => MayAdd(c.host)
  BY <1>1, <1>3 DEF MkCall, Call, AllOps
<1>5. Others({t}) /\ pc' \in [Thread -> Places] /\ call' \in [Thread -> Call] /\ GoesOn(t)
  BY <1>2, <1>4, CallStarts
<1>6. InboxInv' /\ KeepLocks({t})
  BY <1>2 DEF IInv, InboxInv, uiVars, lockVars, KeepLocks
<1> QED  BY <1>2, <1>5, <1>6, QuietStep DEF IInv, TypeOK, lockVars, uiVars

\* A removal thread is started by a caller, with the inbox as it is or one event shorter.
LEMMA SpawnStep ==
  ASSUME IInv, NEW h \in Hosts, SpawnRemoval(h, pc), Quiet, InboxInv', inbox' \in Seq(Call),
         UNCHANGED <<lockVars, errors, crash, gone, cb>>
  PROVE  IInv'
<1>1. PICK k \in 1..MaxRemovals :
        /\ pc[<<"rm", k>>] = "unused"
        /\ pc' = [pc EXCEPT ![<<"rm", k>>] = "enter"]
        /\ call' = [call EXCEPT ![<<"rm", k>>] = MkCall("async_remove", h)]
  BY DEF SpawnRemoval
<1> DEFINE u == <<"rm", k>>
<1>2. u \in Thread
  BY DEF Thread, RemoveThreads
<1>3. Others({u}) /\ pc'[u] = "enter" /\ call'[u] = MkCall("async_remove", h)
      /\ pc' \in [Thread -> Places] /\ call' \in [Thread -> Call]
  BY <1>1, <1>2 DEF IInv, TypeOK, Others, Places, MkCall, Call, AllOps
<1>4. GoesOn(u)
  BY <1>1, <1>3, RemoverStarts
<1>5. KeepLocks({u})
  BY DEF lockVars, KeepLocks
<1> QED  BY <1>3, <1>4, <1>5, QuietStep DEF IInv, TypeOK, lockVars

LEMMA UserRemovesAsyncStep ==
  ASSUME IInv, NEW t \in CallerThreads, UserRemovesAsync(t)
  PROVE  IInv'
<1>1. PICK h \in scenario.hosts : SpawnRemoval(h, pc)
  BY DEF UserRemovesAsync
<1>2. h \in Hosts
  BY ControllerAssumption DEF IInv, TypeOK
<1>3. Quiet /\ UNCHANGED <<lockVars, uiVars, cb>>
  BY DEF UserRemovesAsync, Quiet
<1>4. InboxInv' /\ inbox' \in Seq(Call)
  BY <1>3 DEF IInv, InboxInv, TypeOK, uiVars
<1> QED  BY <1>1, <1>2, <1>3, <1>4, SpawnStep DEF uiVars

\* A caller makes the oldest call the handlers have posted.
LEMMA HandlesEventStep ==
  ASSUME IInv, NEW t \in CallerThreads, HandlesEvent(t)
  PROVE  IInv'
<1> DEFINE c == Head(inbox)
<1>1. Quiet /\ UNCHANGED <<lockVars, errors, crash, gone, cb>> /\ inbox # <<>> /\ inbox' = Tail(inbox)
      /\ \/ c.op = "async_remove" /\ SpawnRemoval(c.host, pc)
         \/ c.op # "async_remove" /\ StartCall(t, c)
  BY DEF HandlesEvent, Quiet
<1>2. inbox \in Seq(Call) /\ InboxInv
  BY DEF IInv, TypeOK
<1>3. c \in Call /\ c.op \in {"authorize", "schedule", "async_remove"} /\ c.host \in Hosts
  BY <1>1, <1>2 DEF InboxInv
<1>4. InboxInv' /\ inbox' \in Seq(Call)
  <2>1. Tail(inbox) \in Seq(Call)
    BY <1>1, <1>2
  <2>2. \A k \in DOMAIN Tail(inbox) : k + 1 \in DOMAIN inbox /\ Tail(inbox)[k] = inbox[k + 1]
    BY <1>1, <1>2
  <2> QED  BY <1>1, <1>2, <2>1, <2>2 DEF InboxInv
<1>5. CASE c.op = "async_remove" /\ SpawnRemoval(c.host, pc)
  BY <1>1, <1>3, <1>4, <1>5, SpawnStep
<1>6. CASE c.op # "async_remove" /\ StartCall(t, c)
  <2>1. Others({t}) /\ pc' \in [Thread -> Places] /\ call' \in [Thread -> Call] /\ GoesOn(t)
    BY <1>1, <1>3, <1>6, CallStarts
  <2>2. KeepLocks({t})
    BY <1>1 DEF lockVars, KeepLocks
  <2> QED  BY <1>1, <1>4, <2>1, <2>2, QuietStep DEF IInv, TypeOK, lockVars
<1> QED  BY <1>1, <1>5, <1>6

\* The end of the controller, or of the process, leaves everything as it is.
LEMMA EndStep ==
  ASSUME IInv, UNCHANGED <<ctrlVars, schedVars, hostVars, lockVars, inbox, errors, pc, call, cb>>,
         crash' \in Crashes, gone' \in BOOLEAN
  PROVE  IInv'
<1>1. Others({}) /\ KeepLocks({}) /\ Quiet /\ InboxInv'
  BY DEF Others, KeepLocks, lockVars, Quiet, IInv, InboxInv
<1>2. shutdown' \in BOOLEAN /\ schedShutdown' \in BOOLEAN
  BY Zenon DEF IInv, TypeOK, ctrlVars, schedVars
<1>3. TypeOK'
  BY <1>2 DEF IInv, TypeOK, ctrlVars, schedVars, hostVars, lockVars
<1> QED  BY <1>1, <1>3, QuietFrame

\* A job ends in a callback.
LEMMA RunAndTellStep ==
  ASSUME IInv, NEW i \in Inc, RunAndTell(i)
  PROVE  IInv'
<1> DEFINE t == Work(i)
<1>1. t \in WorkThreads /\ t \in Thread /\ t \in NestedThreads /\ t \notin ConnThreads
  BY Kinds DEF Thread, NestedThreads
<1>2. PICK kind \in Outcomes(job[i]) :
        /\ kind \in Failures => errors < MaxErrors
        /\ errors' = IF kind \in Failures THEN errors + 1 ELSE errors
        /\ Delivers(t, kind, i[1])
  BY DEF RunAndTell
<1>3. pc[t] = "run" /\ Quiet /\ UNCHANGED <<lockVars, inbox, crash, gone, call>>
  BY DEF RunAndTell, Quiet
<1>4. kind \in {"authorized", "auth_failed", "error", "update"} /\ i[1] \in Hosts
  BY <1>2 DEF Outcomes, Inc
<1>5. errors' \in 0..MaxErrors
  BY <1>2, ControllerAssumption DEF IInv, TypeOK
<1>6. Others({t}) /\ pc'[t] = "notify" /\ cb'[t] = MkCallback(kind, i[1]) /\ call'[t] = call[t]
      /\ pc' \in [Thread -> Places] /\ cb' \in [Thread -> Callback]
  BY <1>1, <1>2, <1>3, <1>4 DEF IInv, TypeOK, Delivers, Goto, Others, Places, Callback, CallbackKinds, MkCallback
<1>7. ThreadOK(t, pc[t], call[t], cb[t]) /\ (ctrlLock = t <=> OwnsController(t, pc[t]))
      /\ (regLock = t <=> OwnsRegistry(t, pc[t]))
  BY <1>1, OfThread
<1>8. GoesOn(t)
  BY <1>1, <1>3, <1>4, <1>6, <1>7, Kinds DEF GoesOn, MovedWell, LocksWell, AddsWell, OwnsWell, ThreadOK, WorkOK, NestedOK,
     Busy, MkCallback, OwnsController, OwnsRegistry, NestedThreads, Operators, lockVars
<1> QED  BY <1>1, <1>3, <1>5, <1>6, <1>8, QuietStep DEF IInv, TypeOK, lockVars, InboxInv, KeepLocks

\* The connect thread tells of a failure.
LEMMA ConnectFailsStep ==
  ASSUME IInv, NEW i \in Inc, ConnectFails(i)
  PROVE  IInv'
<1> DEFINE t == <<"conn", i>>
<1>1. t \in ConnThreads /\ t \in Thread /\ t \in NestedThreads /\ t \notin WorkThreads
  BY Kinds DEF Thread, NestedThreads
<1>2. pc[t] = "connect" /\ Quiet /\ UNCHANGED <<lockVars, uiVars, call>> /\ Delivers(t, "error", i[1])
  BY DEF ConnectFails, Quiet
<1>3. Others({t}) /\ pc'[t] = "notify" /\ cb'[t] = MkCallback("error", i[1]) /\ call'[t] = call[t]
      /\ pc' \in [Thread -> Places] /\ cb' \in [Thread -> Callback]
  BY <1>1, <1>2 DEF IInv, TypeOK, Delivers, Goto, Others, Places, Callback, CallbackKinds, MkCallback, Inc
<1>4. ThreadOK(t, pc[t], call[t], cb[t]) /\ (ctrlLock = t <=> OwnsController(t, pc[t]))
      /\ (regLock = t <=> OwnsRegistry(t, pc[t]))
  BY <1>1, OfThread
<1>5. MovedWell(t) /\ LocksWell(t)
  BY <1>1, <1>2, <1>3, <1>4, Kinds DEF MovedWell, LocksWell, ThreadOK, ConnOK, NestedOK, MkCallback, OwnsController,
     OwnsRegistry, NestedThreads, Operators, lockVars, Inc
<1>6. LifeOK(i)'
  <2>1. LifeOK(i)
    BY DEF IInv, LifeInv
  <2>2. pc'[Work(i)] = pc[Work(i)]
    BY <1>1, <1>3, Kinds DEF Others, Thread
  <2> QED  BY <1>2, <1>3, <2>1, <2>2 DEF LifeOK, Quiet, ctrlVars, hostVars, IncOf
<1>7. StepsWell(t)
  BY <1>1, <1>2, <1>3, <1>5, <1>6, Kinds DEF StepsWell, AddsWell, Operators, NestedThreads
<1>8. TypeOK'
  BY <1>2, <1>3, TypesFrame DEF IInv, TypeOK, uiVars, lockVars
<1> QED  BY <1>1, <1>2, <1>3, <1>7, <1>8, Kinds, QuietFrame DEF IInv, uiVars, lockVars, InboxInv, KeepLocks

\* The worker ends.
LEMMA WorkerExitStep ==
  ASSUME IInv, NEW i \in Inc, WorkerExit(i)
  PROVE  IInv'
<1> DEFINE t == Work(i)
<1>1. t \in WorkThreads /\ t \in Thread /\ t \in NestedThreads /\ t \notin ConnThreads
  BY Kinds DEF Thread, NestedThreads
<1>2. pc[t] = "pop" /\ Quiet /\ UNCHANGED <<lockVars, uiVars, call, cb>> /\ Goto(t, "exited")
  BY DEF WorkerExit, Quiet
<1>3. Others({t}) /\ pc'[t] = "exited" /\ pc' \in [Thread -> Places]
  BY <1>1, <1>2 DEF IInv, TypeOK, Goto, Others, Places
<1>4. ThreadOK(t, pc[t], call[t], cb[t]) /\ (ctrlLock = t <=> OwnsController(t, pc[t]))
      /\ (regLock = t <=> OwnsRegistry(t, pc[t]))
  BY <1>1, OfThread
<1>5. MovedWell(t) /\ LocksWell(t)
  BY <1>1, <1>2, <1>3, <1>4, Kinds DEF MovedWell, LocksWell, ThreadOK, WorkOK, NestedOK, OwnsController,
     OwnsRegistry, NestedThreads, Operators, lockVars
<1>6. LifeOK(i)'
  <2>1. LifeOK(i)
    BY DEF IInv, LifeInv
  <2>2. pc'[<<"conn", i>>] = pc[<<"conn", i>>]
    BY <1>1, <1>3, Kinds DEF Others, Thread
  <2> QED  BY <1>2, <1>3, <2>1, <2>2 DEF LifeOK, Quiet, ctrlVars, hostVars, IncOf
<1>7. StepsWell(t)
  BY <1>1, <1>2, <1>3, <1>5, <1>6, Kinds DEF StepsWell, AddsWell, Operators, NestedThreads
<1>8. TypeOK'
  BY <1>2, <1>3, TypesFrame DEF IInv, TypeOK, uiVars, lockVars
<1> QED  BY <1>1, <1>2, <1>3, <1>7, <1>8, Kinds, QuietFrame DEF IInv, uiVars, lockVars, InboxInv, KeepLocks

\* The scheduler ends.
LEMMA SchedulerExitStep ==
  ASSUME IInv, SchedulerExit
  PROVE  IInv'
<1> DEFINE t == Scheduler
<1>1. t \in Thread /\ t \notin NestedThreads /\ t \notin Operators
  BY Kinds DEF Thread, NestedThreads, Operators
<1>2. Quiet /\ UNCHANGED <<lockVars, uiVars, call, cb>> /\ Goto(t, "exited")
  BY DEF SchedulerExit, Quiet
<1>3. Others({t}) /\ pc'[t] = "exited" /\ pc' \in [Thread -> Places]
  BY <1>1, <1>2 DEF IInv, TypeOK, Goto, Others, Places
<1>4. ThreadOK(t, pc[t], call[t], cb[t]) /\ (ctrlLock = t <=> OwnsController(t, pc[t]))
      /\ (regLock = t <=> OwnsRegistry(t, pc[t]))
  BY <1>1, OfThread
<1>5. GoesOn(t)
  BY <1>1, <1>2, <1>3, <1>4, Kinds DEF GoesOn, MovedWell, LocksWell, AddsWell, OwnsWell, ThreadOK, OwnsController,
     OwnsRegistry, NestedThreads, Operators, lockVars
<1> QED  BY <1>1, <1>2, <1>3, <1>5, QuietStep DEF IInv, TypeOK, lockVars, uiVars, InboxInv, KeepLocks

\* add_host releases the controller and starts the connect thread.
LEMMA AddSpawnsStep ==
  ASSUME IInv, NEW t \in Thread, AddSpawns(t)
  PROVE  IInv'
<1> DEFINE i == IncOf(call[t].host)  u == <<"conn", i>>
<1>1. pc[t] = "add_spawn" /\ ctrlLock' = None /\ Quiet /\ UNCHANGED <<regLock, uiVars, cb>>
      /\ pc' = [pc EXCEPT ![t] = AfterCall(t), ![u] = "connect"]
      /\ call' = [call EXCEPT ![t] = NoCall]
  BY DEF AddSpawns, Quiet
<1>2. ThreadOK(t, pc[t], call[t], cb[t]) /\ (ctrlLock = t <=> OwnsController(t, pc[t]))
      /\ (regLock = t <=> OwnsRegistry(t, pc[t]))
  BY OfThread
<1>3. t \in CallerThreads /\ t \in Operators /\ t \notin NestedThreads /\ t # Scheduler /\ t \notin RemoveThreads
  BY <1>1, <1>2, Kinds DEF ThreadOK, RemoverOK, ConnOK, WorkOK, Thread, Operators, NestedThreads
<1>4. ctrlLock = t /\ OwnerOK(t, pc[t], call[t], cb[t])
  BY <1>1, <1>2, <1>3, OfThread DEF OwnsController
<1>5. HasHost(call[t].host) /\ pc[u] = "unused" /\ i \in Inc /\ u \in ConnThreads /\ u \in Thread /\ u # t
  <2>1. HasHost(call[t].host) /\ pc[u] = "unused"
    BY <1>1, <1>4 DEF OwnerOK
  <2>2. i \in Inc
    BY <2>1, RegisteredInc DEF IInv
  <2> QED  BY <1>3, <2>1, <2>2, Kinds DEF Thread, NestedThreads
<1>6. Others({t, u}) /\ pc'[t] = "idle" /\ pc'[u] = "connect" /\ call'[t] = NoCall /\ call'[u] = call[u]
      /\ pc' \in [Thread -> Places] /\ call' \in [Thread -> Call]
  BY <1>1, <1>3, <1>5 DEF IInv, TypeOK, AfterCall, Others, Places, NoCall, Call
<1>7. MovedWell(t) /\ LocksWell(t)
  BY <1>1, <1>2, <1>3, <1>6, NoThreadIsNone DEF MovedWell, LocksWell, ThreadOK, CallerOK, OwnsController,
     OwnsRegistry, Operators, NestedThreads
<1>8. MovedWell(u) /\ LocksWell(u)
  <2>1. ThreadOK(u, pc[u], call[u], cb[u]) /\ (ctrlLock = u <=> OwnsController(u, pc[u]))
        /\ (regLock = u <=> OwnsRegistry(u, pc[u]))
    BY <1>5, OfThread
  <2> QED  BY <1>1, <1>5, <1>6, <2>1, NoThreadIsNone, Kinds DEF MovedWell, LocksWell, ThreadOK, ConnOK, NestedOK,
           OwnsController, OwnsRegistry, Operators, NestedThreads
<1>9. TypeOK'
  BY <1>1, <1>6, TypesFrame DEF IInv, TypeOK, uiVars
<1>10. InboxInv' /\ KeepLocks({t, u})
  BY <1>1, <1>4, <1>5, NoThreadIsNone DEF IInv, InboxInv, uiVars, KeepLocks
<1>11. ThreadsInv' /\ LocksHeld'
  BY <1>1, <1>6, <1>7, <1>8, <1>10, ThreadsFrame, LocksFrame DEF IInv, Quiet, ctrlVars
<1>12. HostsInv'
  <2>1. AddsWell(t) /\ AddsWell(u) /\ \A a, b \in {t, u} \cap CallerThreads : a = b
    BY <1>5, <1>6, Kinds DEF AddsWell
  <2> QED  BY <1>1, <1>6, <2>1, HostsFrame DEF IInv, Quiet, ctrlVars
<1>13. OwnerInv'
  BY <1>1, <1>3, <1>6, <1>11, OwnerStep DEF OwnsController
<1>14. LifeInv'
  <2>1. PICK j \in Inc : j = i
    BY <1>5
  <2>2. LifeOK(j) /\ ~(j[2] > adds[j[1]])
    BY <1>5, <2>1, RegisteredInc, ControllerAssumption DEF IInv, LifeInv, HostsInv, TypeOK, HasHost, IncOf
  <2>3. pc'[Work(j)] = pc[Work(j)] /\ pc'[<<"conn", j>>] = "connect" /\ pc[<<"conn", j>>] = "unused"
    BY <1>3, <1>5, <1>6, <2>1, Kinds DEF Others, Thread, NestedThreads
  <2>4. LifeOK(j)'
    BY <1>1, <2>2, <2>3 DEF LifeOK, Quiet, ctrlVars, hostVars, IncOf
  <2>5. \A k \in Inc : <<"conn", k>> \in {t, u} \/ Work(k) \in {t, u} => k = j
    BY <1>3, <1>5, <2>1, Kinds DEF NestedThreads
  <2> QED  BY <1>1, <1>6, <2>4, <2>5, LifeFrame DEF IInv, Quiet, ctrlVars
<1>15. BookInv'
  BY <1>1, <1>5, <1>6, BookFrame, Kinds DEF IInv, Quiet, ctrlVars, hostVars
<1> QED  BY <1>9, <1>10, <1>11, <1>12, <1>13, <1>14, <1>15 DEF IInv
-----------------------------------------------------------------------------
(* The end of a callback.                                                  *)

LEMMA LeaveCallbackStep ==
  ASSUME IInv, NEW t \in Thread, LeaveCallback(t)
  PROVE  IInv'
<1>1. pc[t] = "leaving" /\ regLock' = None /\ Goto(t, AfterCallback(t))
      /\ cb' = [cb EXCEPT ![t] = NoCallback]
      /\ job' = (IF t \in WorkThreads /\ AfterCallback(t) = "pop" THEN [job EXCEPT ![t[2]] = NoJob] ELSE job)
      /\ UNCHANGED <<ctrlVars, schedVars, queue, closed, joinable, alive, ctrlLock, uiVars, call>>
  BY DEF LeaveCallback
<1>2. ThreadOK(t, pc[t], call[t], cb[t]) /\ (ctrlLock = t <=> OwnsController(t, pc[t]))
      /\ (regLock = t <=> OwnsRegistry(t, pc[t]))
  BY OfThread
<1>3. regLock = t /\ KeepLocks({t}) /\ InboxInv'
  BY <1>1, <1>2, NoThreadIsNone DEF OwnsRegistry, KeepLocks, IInv, InboxInv, uiVars
<1>4. cb' \in [Thread -> Callback] /\ cb'[t].kind = "none"
  BY <1>1 DEF IInv, TypeOK, NoCallback, Callback
<1>5. CASE t \in Operators
  <2>1. t \notin WorkThreads /\ t \notin ConnThreads /\ t \notin NestedThreads /\ t # Scheduler
    BY <1>5, Kinds DEF Operators, NestedThreads
  <2>2. (t \in CallerThreads /\ cb[t].kind = "added" /\ AfterCallback(t) = "add_spawn")
        \/ (cb[t].kind = "removed" /\ AfterCallback(t) = "rm_config")
    <3>1. (t \in CallerThreads /\ cb[t].kind = "added") \/ cb[t].kind = "removed"
      BY <1>1, <1>2, <1>5 DEF Operators, ThreadOK, CallerOK, RemoverOK
    <3> QED  BY <2>1, <3>1 DEF AfterCallback
  <2>3. pc' \in [Thread -> Places] /\ Others({t}) /\ pc'[t] = AfterCallback(t) /\ Quiet
    BY <1>1, <2>1, <2>2 DEF IInv, TypeOK, Goto, Others, Places, Quiet, hostVars
  <2>4. OwnerOK(t, pc[t], call[t], cb[t]) /\ ctrlLock = t
    BY <1>1, <1>2, <1>5, OfThread DEF OwnsController
  <2>5. MovedWell(t)
    BY <1>1, <1>2, <1>4, <1>5, <2>1, <2>2, <2>3, Kinds DEF MovedWell, ThreadOK, CallerOK, RemoverOK
  <2>6. LocksWell(t)
    BY <1>1, <1>5, <2>1, <2>2, <2>3, <2>4, NoThreadIsNone DEF LocksWell, OwnsController, OwnsRegistry, NestedThreads
  <2>7. OwnsWell(t)
    BY <1>1, <2>2, <2>3, <2>4 DEF OwnsWell, OwnerOK
  <2>8. GoesOn(t)
    BY <2>1, <2>2, <2>3, <2>5, <2>6, <2>7 DEF GoesOn, AddsWell
  <2> QED  BY <1>1, <1>3, <1>4, <2>3, <2>8, QuietStep DEF IInv, TypeOK, uiVars
<1>6. CASE t \in ConnThreads
  <2>1. t \notin WorkThreads /\ t \notin Operators /\ t # Scheduler /\ t \in NestedThreads /\ t \notin CallerThreads
    BY <1>6, Kinds DEF Operators, NestedThreads
  <2>2. cb[t].kind \in {"connected", "error"}
    BY <1>1, <1>2, <1>6 DEF ThreadOK, ConnOK, NestedOK
  <2>3. AfterCallback(t) = "exited"
    BY <1>6, <2>1, <2>2 DEF AfterCallback
  <2>4. pc' \in [Thread -> Places] /\ Others({t}) /\ pc'[t] = "exited" /\ Quiet
    BY <1>1, <2>1, <2>3 DEF IInv, TypeOK, Goto, Others, Places, Quiet, hostVars
  <2>5. MovedWell(t) /\ LocksWell(t)
    BY <1>1, <1>2, <1>4, <1>6, <2>1, <2>4, Kinds, NoThreadIsNone DEF MovedWell, LocksWell, ThreadOK, ConnOK, NestedOK,
       OwnsController, OwnsRegistry, Operators
  <2>6. ASSUME NEW i \in Inc, t = <<"conn", i>> \/ t = Work(i)
        PROVE  LifeOK(i)'
    <3>1. LifeOK(i) /\ t = <<"conn", i>>
      BY <2>1, <2>6, Kinds DEF IInv, LifeInv
    <3>2. pc'[Work(i)] = pc[Work(i)]
      <4>1. Work(i) \in WorkThreads
        BY Kinds
      <4>2. Work(i) \in Thread \ {t}
        BY <2>1, <4>1 DEF Thread
      <4> QED  BY <2>4, <4>2 DEF Others
    <3>3. UNCHANGED <<adds, queue, closed, alive, joinable, job, hostControllers>>
      BY <2>4 DEF Quiet, ctrlVars, hostVars
    <3> QED  BY <1>1, <2>4, <3>1, <3>2, <3>3 DEF LifeOK, IncOf
  <2>7. StepsWell(t)
    BY <1>1, <2>1, <2>4, <2>5, <2>6 DEF StepsWell, AddsWell
  <2>8. TypeOK'
    BY <1>1, <1>4, <2>4, TypesFrame DEF IInv, TypeOK, uiVars
  <2> QED  BY <1>3, <2>4, <2>7, <2>8, QuietFrame
<1>7. CASE t \in WorkThreads
  <2>1. t \notin ConnThreads /\ t \notin Operators /\ t # Scheduler /\ t \in NestedThreads /\ t \notin CallerThreads
    BY <1>7, Kinds DEF Operators, NestedThreads
  <2>2. PICK i \in Inc : t = Work(i)
    BY <1>7, Kinds
  <2>3. t[2] = i /\ pc[Work(i)] = "leaving" /\ LifeOK(i)
    BY <1>1, <2>2 DEF Work, IInv, LifeInv
  <2>4. cb[t].kind \in {"authorized", "auth_failed", "error", "update"}
    BY <1>1, <1>2, <1>7 DEF ThreadOK, WorkOK, NestedOK
  <2>5. AfterCallback(t) = (IF job[i].kind = "periodic" THEN "post" ELSE "pop")
    BY <1>7, <2>1, <2>3, <2>4 DEF AfterCallback
  <2>6. pc' \in [Thread -> Places] /\ Others({t}) /\ pc'[t] = AfterCallback(t)
    BY <1>1, <2>1, <2>5 DEF IInv, TypeOK, Goto, Others, Places
  <2>7. MovedWell(t) /\ LocksWell(t)
    BY <1>1, <1>2, <1>4, <1>7, <2>1, <2>5, <2>6, Kinds, NoThreadIsNone DEF MovedWell, LocksWell, ThreadOK, WorkOK, NestedOK,
       OwnsController, OwnsRegistry, Operators
  <2>8. pc'[<<"conn", i>>] = pc[<<"conn", i>>]
    BY <2>1, <2>6, Kinds DEF Others, Thread
  <2>9. \A j \in Inc : t = <<"conn", j>> \/ t = Work(j) => j = i
    BY <2>1, <2>2, Kinds
  <2>10. CASE job[i].kind = "periodic"
    <3>1. Quiet
      BY <1>1, <2>5, <2>10 DEF Quiet, hostVars
    <3>2. LifeOK(i)'
      BY <2>2, <2>3, <2>5, <2>6, <2>8, <2>10, <3>1 DEF LifeOK, Quiet, ctrlVars, hostVars, IncOf
    <3>3. StepsWell(t)
      BY <2>1, <2>7, <2>9, <3>2 DEF StepsWell, AddsWell
    <3>4. TypeOK'
      BY <1>1, <1>4, <2>6, <3>1, TypesFrame DEF IInv, TypeOK, uiVars
    <3> QED  BY <1>3, <2>6, <3>1, <3>3, <3>4, QuietFrame
  <2>11. CASE job[i].kind # "periodic"
    <3>1. job' = [job EXCEPT ![i] = NoJob]
      BY <1>1, <1>7, <2>3, <2>5, <2>11
    <3>2. job \in [Inc -> Job \cup {NoJob}]
      BY DEF IInv, TypeOK
    <3>3. TypeOK'
      <4>1. job' \in [Inc -> Job \cup {NoJob}]
        BY <3>1, <3>2
      <4>2. shutdown' \in BOOLEAN /\ schedShutdown' \in BOOLEAN /\ gone' \in BOOLEAN
        BY <1>1, Zenon DEF IInv, TypeOK, ctrlVars, schedVars, uiVars
      <4> QED  BY <1>1, <1>4, <2>6, <4>1, <4>2 DEF IInv, TypeOK, ctrlVars, schedVars, uiVars
    <3>4. ThreadsInv' /\ LocksHeld'
      BY <1>1, <1>3, <2>6, <2>7, ThreadsFrame, LocksFrame DEF IInv, ctrlVars
    <3>5. HostsInv' /\ OwnerInv'
      BY <1>1, <1>3, <2>1, <2>6, HostsFrame, OwnerFrame DEF IInv, ctrlVars, schedVars, AddsWell
    <3>6. LifeInv'
      <4>1. ASSUME NEW j \in Inc, j # i
            PROVE  LifeOK(j)'
        <5>1. pc'[<<"conn", j>>] = pc[<<"conn", j>>] /\ pc'[Work(j)] = pc[Work(j)]
          BY <2>6, <2>9, <4>1, Kinds DEF Others, Thread
        <5>2. LifeOK(j) /\ job'[j] = job[j]
          BY <3>1, <3>2, <4>1 DEF IInv, LifeInv
        <5> QED  BY <1>1, <5>1, <5>2 DEF LifeOK, ctrlVars, IncOf
      <4>2. LifeOK(i)'
        BY <1>1, <2>2, <2>3, <2>5, <2>6, <2>8, <2>11, <3>1, <3>2 DEF LifeOK, ctrlVars, IncOf
      <4> QED  BY <4>1, <4>2 DEF LifeInv
    <3>7. BookInv'
      <4>1. \A j \in Inc, a \in Tasks : job'[j] = Periodic(a) <=> job[j] = Periodic(a)
        BY <2>11, <3>1, <3>2 DEF Periodic, NoJob
      <4>2. ASSUME NEW h \in known
            PROVE  KnownOK(h)'
        <5>1. KnownOK(h) /\ IncOf(h) \in Inc
          BY RegisteredInc DEF IInv, BookInv, KnownOK
        <5> QED  BY <1>1, <4>1, <5>1 DEF KnownOK, HasHost, IncOf, OneJobPerTask, TaskInHands, ctrlVars, schedVars
      <4>3. \A u \in CallerThreads : pc'[u] = "add_context" => pc[u] = "add_context" /\ call'[u] = call[u]
        BY <1>1, <2>1, <2>6 DEF Others, Thread
      <4> QED  BY <1>1, <4>2, <4>3 DEF IInv, BookInv, schedVars, ctrlVars, IncOf
    <3> QED  BY <1>3, <3>3, <3>4, <3>5, <3>6, <3>7 DEF IInv
  <2> QED  BY <2>10, <2>11
<1>8. t # Scheduler
  BY <1>1, <1>2 DEF ThreadOK
<1> QED  BY <1>5, <1>6, <1>7, <1>8 DEF Thread, Operators
-----------------------------------------------------------------------------
(* Steps that change the queue of an incarnation.                          *)

\* What the operations of the queue do to its entries.
LEMMA Entries ==
  ASSUME NEW S, NEW s \in Seq(S), NEW x \in S
  PROVE  /\ Append(s, x) \in Seq(S) /\ <<x>> \o s \in Seq(S)
         /\ DOMAIN Append(s, x) = 1..(Len(s) + 1) /\ DOMAIN (<<x>> \o s) = 1..(Len(s) + 1)
         /\ DOMAIN s = 1..Len(s) /\ Len(s) \in Nat
         /\ Append(s, x)[Len(s) + 1] = x /\ \A k \in 1..Len(s) : Append(s, x)[k] = s[k]
         /\ (<<x>> \o s)[1] = x /\ \A k \in 2..(Len(s) + 1) : (<<x>> \o s)[k] = s[k - 1]
  OBVIOUS

LEMMA TailEntries ==
  ASSUME NEW S, NEW s \in Seq(S), s # <<>>
  PROVE  /\ Tail(s) \in Seq(S) /\ Head(s) = s[1] /\ Head(s) \in S
         /\ DOMAIN s = 1..Len(s) /\ Len(s) \in Nat \ {0}
         /\ DOMAIN Tail(s) = 1..(Len(s) - 1)
         /\ \A k \in 1..(Len(s) - 1) : Tail(s)[k] = s[k + 1]
  OBVIOUS

\* The jobs of task t in queue q, of which there is one at most.
OneInQueue(q, t) == \A k, m \in DOMAIN q : q[k] = Periodic(t) /\ q[m] = Periodic(t) => k = m
InQueue(q, t) == \E k \in DOMAIN q : q[k] = Periodic(t)

\* Another job in the queue is no job of task t.
LEMMA PushOther ==
  ASSUME NEW q \in Seq(Job), NEW j \in Job, NEW t, j # Periodic(t),
         NEW r \in {q, Append(q, j), <<j>> \o q}
  PROVE  /\ r \in Seq(Job)
         /\ OneInQueue(q, t) => OneInQueue(r, t)
         /\ InQueue(r, t) <=> InQueue(q, t)
<1>1. CASE r = q
  BY <1>1
<1>2. CASE r = Append(q, j)
  <2>1. DOMAIN r = 1..(Len(q) + 1) /\ DOMAIN q = 1..Len(q) /\ Len(q) \in Nat /\ r[Len(q) + 1] = j
        /\ r \in Seq(Job) /\ \A k \in 1..Len(q) : r[k] = q[k]
    BY <1>2, Entries
  <2>2. \A k \in DOMAIN r : r[k] = Periodic(t) => k \in DOMAIN q /\ q[k] = Periodic(t)
    BY <2>1
  <2>3. \A k \in DOMAIN q : k \in DOMAIN r /\ r[k] = q[k]
    BY <2>1
  <2> QED  BY <2>1, <2>2, <2>3 DEF OneInQueue, InQueue
<1>3. CASE r = <<j>> \o q
  <2>1. DOMAIN r = 1..(Len(q) + 1) /\ DOMAIN q = 1..Len(q) /\ Len(q) \in Nat /\ r[1] = j
        /\ r \in Seq(Job) /\ \A k \in 2..(Len(q) + 1) : r[k] = q[k - 1]
    BY <1>3, Entries
  <2>2. \A k \in DOMAIN r : r[k] = Periodic(t) => k \in Int /\ k - 1 \in DOMAIN q /\ q[k - 1] = Periodic(t)
    BY <2>1
  <2>3. \A k \in DOMAIN q : k + 1 \in DOMAIN r /\ r[k + 1] = q[k]
    BY <2>1
  <2>4. OneInQueue(q, t) => OneInQueue(r, t)
    <3> SUFFICES ASSUME OneInQueue(q, t), NEW k \in DOMAIN r, NEW m \in DOMAIN r,
                        r[k] = Periodic(t), r[m] = Periodic(t)
                 PROVE  k = m
      BY DEF OneInQueue
    <3>1. k - 1 = m - 1 /\ k \in Int /\ m \in Int
      BY <2>2 DEF OneInQueue
    <3> QED  BY <3>1
  <2> QED  BY <2>1, <2>2, <2>3, <2>4 DEF InQueue
<1> QED  BY <1>1, <1>2, <1>3

\* The data of a host whose jobs do not change.
LEMMA KnownStays ==
  ASSUME NEW h, KnownOK(h), hostControllers'[h] = hostControllers[h], schedShutdown' = schedShutdown,
         pending'[h] = pending[h], closed'[IncOf(h)] = closed[IncOf(h)],
         \A t \in Tasks :
           /\ OneInQueue(queue[IncOf(h)], t) => OneInQueue(queue'[IncOf(h)], t)
           /\ InQueue(queue'[IncOf(h)], t) <=> InQueue(queue[IncOf(h)], t)
           /\ job'[IncOf(h)] = Periodic(t) <=> job[IncOf(h)] = Periodic(t)
  PROVE  KnownOK(h)'
<1>1. HasHost(h)' /\ IncOf(h)' = IncOf(h) /\ ~closed'[IncOf(h)]
  BY DEF KnownOK, HasHost, IncOf
<1>2. ASSUME ~schedShutdown', NEW t \in Tasks
      PROVE  OneJobPerTask(IncOf(h), t)' /\ (t \in pending'[h] <=> TaskInHands(IncOf(h), t)')
  <2>1. OneJobPerTask(IncOf(h), t) /\ (t \in pending[h] <=> TaskInHands(IncOf(h), t))
    BY <1>2 DEF KnownOK
  <2> QED  BY <1>1, <2>1 DEF OneJobPerTask, TaskInHands, OneInQueue, InQueue
<1> QED  BY <1>1, <1>2 DEF KnownOK

\* A job that is not periodic is queued for a registered host.
LEMMA PushStep ==
  ASSUME IInv, NEW t \in Thread, pc[t] = "enter", ctrlLock = None,
         call[t].op \in {"authorize", "command"}, HasHost(call[t].host),
         NEW j \in Job, j.kind # "periodic", NEW i \in Inc, i = IncOf(call[t].host),
         NEW q \in {queue[i], Append(queue[i], j), <<j>> \o queue[i]},
         queue' = [queue EXCEPT ![i] = q], Returns(t),
         UNCHANGED <<ctrlVars, schedVars, closed, joinable, alive, job, lockVars, uiVars, cb>>
  PROVE  IInv'
<1>1. ThreadOK(t, pc[t], call[t], cb[t]) /\ (ctrlLock = t <=> OwnsController(t, pc[t]))
      /\ (regLock = t <=> OwnsRegistry(t, pc[t]))
  BY OfThread
<1>2. t \in CallerThreads \/ t \in NestedThreads
  BY <1>1 DEF ThreadOK, RemoverOK, Thread, NestedThreads
<1>3. pc'[t] = (IF t \in CallerThreads THEN "idle" ELSE "leaving") /\ call'[t] = NoCall /\ Others({t})
      /\ pc' \in [Thread -> Places] /\ call' \in [Thread -> Call]
  BY <1>2, Kinds DEF IInv, TypeOK, Returns, Goto, AfterCall, Places, NoCall, Call, Others, NestedThreads, Operators
<1>4. MovedWell(t) /\ LocksWell(t)
  BY <1>1, <1>2, <1>3, Kinds DEF MovedWell, LocksWell, ThreadOK, ConnOK, WorkOK, CallerOK, NestedOK,
     OwnsController, OwnsRegistry, lockVars, NestedThreads, Operators
<1>5. KeepLocks({t}) /\ InboxInv'
  BY DEF IInv, InboxInv, lockVars, uiVars, KeepLocks
<1>6. ThreadsInv' /\ LocksHeld'
  BY <1>3, <1>4, <1>5, ThreadsFrame, LocksFrame DEF IInv, ctrlVars
<1>7. HostsInv'
  BY <1>3, HostsFrame DEF IInv, ctrlVars, AddsWell
<1>8. OwnerInv'
  <2>1. t \in ConnThreads => pc[t] # "unused"
    OBVIOUS
  <2>2. ~(t \in Operators /\ OwnsController(t, pc'[t]))
    BY <1>2, <1>3, Kinds DEF OwnsController, NestedThreads, Operators
  <2> QED  BY <1>3, <2>1, <2>2, OwnerFrame DEF IInv, ctrlVars, schedVars
<1>9. queue \in [Inc -> Seq(Job)] /\ q \in Seq(Job) /\ queue'[i] = q
      /\ \A k \in Inc : k # i => queue'[k] = queue[k]
  <2>1. queue \in [Inc -> Seq(Job)]
    BY DEF IInv, TypeOK
  <2>2. queue[i] \in Seq(Job)
    BY <2>1
  <2>3. \A s \in Seq(Job) : Append(s, j) \in Seq(Job) /\ <<j>> \o s \in Seq(Job)
    BY Entries
  <2>4. q \in Seq(Job)
    BY <2>2, <2>3
  <2> QED  BY <2>1, <2>4
<1>10. TypeOK'
  <2>1. shutdown' \in BOOLEAN /\ schedShutdown' \in BOOLEAN /\ gone' \in BOOLEAN
    BY Zenon DEF IInv, TypeOK, ctrlVars, schedVars, uiVars
  <2>2. queue' \in [Inc -> Seq(Job)]
    BY <1>9
  <2> QED  BY <1>3, <2>1, <2>2 DEF IInv, TypeOK, ctrlVars, schedVars, lockVars, uiVars
<1>11. LifeInv'
  <2> SUFFICES ASSUME NEW k \in Inc
               PROVE  LifeOK(k)'
    BY DEF LifeInv
  <2>1. LifeOK(k)
    BY DEF IInv, LifeInv
  <2>2. t \in NestedThreads => pc'[t] = "leaving"
    BY <1>3, Kinds DEF NestedThreads
  <2>3. ~(i[2] > adds[i[1]])
    BY RegisteredInc, ControllerAssumption DEF IInv, HostsInv, TypeOK, HasHost, IncOf
  <2>4. pc'[<<"conn", k>>] = pc[<<"conn", k>>] \/ (pc[<<"conn", k>>] = "enter" /\ pc'[<<"conn", k>>] = "leaving")
    BY <1>3, <2>2, Kinds DEF Others, Thread, NestedThreads
  <2>5. pc'[Work(k)] = pc[Work(k)] \/ (pc[Work(k)] = "enter" /\ pc'[Work(k)] = "leaving")
    <3>1. Work(k) \in NestedThreads /\ Work(k) \in Thread
      BY Kinds DEF Thread, NestedThreads
    <3>2. Work(k) # t => pc'[Work(k)] = pc[Work(k)]
      BY <1>3, <3>1 DEF Others
    <3> QED  BY <2>2, <3>1, <3>2
  <2> QED  BY <1>9, <2>1, <2>3, <2>4, <2>5 DEF LifeOK, ctrlVars, IncOf
<1>12. BookInv'
  <2>1. ASSUME NEW h \in known
        PROVE  KnownOK(h)'
    <3>1. KnownOK(h) /\ IncOf(h) \in Inc
      BY RegisteredInc DEF IInv, BookInv, KnownOK
    <3>2. ASSUME NEW a \in Tasks
          PROVE  /\ OneInQueue(queue[IncOf(h)], a) => OneInQueue(queue'[IncOf(h)], a)
                 /\ InQueue(queue'[IncOf(h)], a) <=> InQueue(queue[IncOf(h)], a)
      <4>1. j # Periodic(a)
        BY DEF Periodic
      <4>2. queue[i] \in Seq(Job)
        BY <1>9
      <4>3. /\ OneInQueue(queue[i], a) => OneInQueue(q, a)
            /\ InQueue(q, a) <=> InQueue(queue[i], a)
        <5>1. \A s \in Seq(Job) : \A r \in {s, Append(s, j), <<j>> \o s} :
                /\ OneInQueue(s, a) => OneInQueue(r, a)
                /\ InQueue(r, a) <=> InQueue(s, a)
          <6> SUFFICES ASSUME NEW s \in Seq(Job), NEW r \in {s, Append(s, j), <<j>> \o s}
                       PROVE  /\ OneInQueue(s, a) => OneInQueue(r, a)
                              /\ InQueue(r, a) <=> InQueue(s, a)
            OBVIOUS
          <6> QED  BY ONLY <4>1, j \in Job, s \in Seq(Job), r \in {s, Append(s, j), <<j>> \o s}, PushOther
        <5> QED  BY <4>2, <5>1
      <4>4. CASE IncOf(h) = i
        BY <1>9, <4>3, <4>4
      <4>5. CASE IncOf(h) # i
        BY <1>9, <3>1, <4>5
      <4> QED  BY <4>4, <4>5
    <3> QED  BY <3>1, <3>2, KnownStays DEF ctrlVars, schedVars
  <2>2. \A u \in CallerThreads : pc'[u] # "add_context"
    <3> SUFFICES ASSUME NEW u \in CallerThreads, pc'[u] = "add_context"
                 PROVE  FALSE
      OBVIOUS
    <3>1. pc[u] = "add_context" /\ u \in Thread
      BY <1>3 DEF Others, Thread
    <3> QED  BY <3>1, OfThread, NoThreadIsNone DEF OwnsController
  <2> QED  BY <2>1, <2>2 DEF IInv, BookInv, schedVars
<1> QED  BY <1>5, <1>6, <1>7, <1>8, <1>10, <1>11, <1>12 DEF IInv

LEMMA AuthorizeHostStep ==
  ASSUME IInv, NEW t \in Thread, AuthorizeHost(t)
  PROVE  IInv'
<1>1. IncOf(call[t].host) \in Inc
  BY RegisteredInc DEF IInv, AuthorizeHost, Verified
<1>2. PICK i \in Inc : i = IncOf(call[t].host)
  BY <1>1
<1> DEFINE q == IF closed[i] THEN queue[i] ELSE Append(queue[i], AuthJob)
<1>3. queue' = [queue EXCEPT ![i] = q] /\ q \in {queue[i], Append(queue[i], AuthJob), <<AuthJob>> \o queue[i]}
  BY <1>2 DEF IInv, TypeOK, AuthorizeHost, PushBack
<1>4. AuthJob \in Job /\ AuthJob.kind # "periodic"
  BY DEF AuthJob, Job
<1> QED  BY <1>2, <1>3, <1>4, PushStep DEF AuthorizeHost, Verified, Enters

LEMMA CommandStep ==
  ASSUME IInv, NEW t \in Thread, Command(t)
  PROVE  IInv'
<1>1. IncOf(call[t].host) \in Inc
  BY RegisteredInc DEF IInv, Command, Verified
<1>2. PICK i \in Inc : i = IncOf(call[t].host)
  BY <1>1
<1> DEFINE q == IF closed[i] THEN queue[i] ELSE <<AsyncJob>> \o queue[i]
<1>3. queue' = [queue EXCEPT ![i] = q] /\ q \in {queue[i], Append(queue[i], AsyncJob), <<AsyncJob>> \o queue[i]}
  BY <1>2 DEF IInv, TypeOK, Command, PushFront
<1>4. AsyncJob \in Job /\ AsyncJob.kind # "periodic"
  BY DEF AsyncJob, Job
<1> QED  BY <1>2, <1>3, <1>4, PushStep DEF Command, Verified, Enters

\* What nobody at work on an incarnation may touch: the scheduler queues a periodic job.
LEMMA ScheduleTaskStep ==
  ASSUME IInv, NEW h \in Hosts, NEW t \in Tasks, ScheduleTask(h, t)
  PROVE  IInv'
<1>1. h \in known /\ t \notin pending[h] /\ ~schedShutdown /\ KnownOK(h)
  BY DEF ScheduleTask, IInv, BookInv
<1>2. IncOf(h) \in Inc /\ HasHost(h) /\ ~closed[IncOf(h)]
  BY <1>1, RegisteredInc DEF IInv, KnownOK
<1>3. PICK i \in Inc : i = IncOf(h)
  BY <1>2
<1>4. UNCHANGED <<ctrlVars, schedShutdown, known, closed, joinable, alive, job, lockVars, uiVars, pc, call, cb>>
  BY DEF ScheduleTask
<1>5. pending' = [pending EXCEPT ![h] = pending[h] \cup {t}]
  BY DEF ScheduleTask
<1>6. queue' = [queue EXCEPT ![i] = Append(queue[i], Periodic(t))]
  BY <1>2, <1>3 DEF ScheduleTask, PushBack, IInv, TypeOK
<1>7. queue \in [Inc -> Seq(Job)] /\ pending \in [Hosts -> SUBSET Tasks] /\ Periodic(t) \in Job
  BY DEF IInv, TypeOK, Periodic, Job
<1> DEFINE q == queue[i]  r == Append(queue[i], Periodic(t))
<1>8. q \in Seq(Job)
  BY <1>7
<1>9. r \in Seq(Job) /\ DOMAIN r = 1..(Len(q) + 1) /\ DOMAIN q = 1..Len(q) /\ Len(q) \in Nat
      /\ r[Len(q) + 1] = Periodic(t) /\ \A k \in 1..Len(q) : r[k] = q[k]
  BY ONLY <1>7, <1>8, Entries
<1>10. queue' \in [Inc -> Seq(Job)] /\ queue'[i] = r /\ \A j \in Inc : j # i => queue'[j] = queue[j]
  BY <1>6, <1>7, <1>9
<1>11. TypeOK'
  <2>1. shutdown' \in BOOLEAN /\ schedShutdown' \in BOOLEAN /\ gone' \in BOOLEAN
    BY <1>4, Zenon DEF IInv, TypeOK, ctrlVars, uiVars
  <2>2. pending' \in [Hosts -> SUBSET Tasks]
    BY <1>5, <1>7
  <2> QED  BY <1>4, <1>10, <2>1, <2>2 DEF IInv, TypeOK, ctrlVars, lockVars, uiVars
<1>12. Others({}) /\ KeepLocks({}) /\ InboxInv'
  BY <1>4 DEF Others, KeepLocks, lockVars, IInv, InboxInv, uiVars
<1>13. ThreadsInv' /\ LocksHeld' /\ HostsInv' /\ OwnerInv'
  BY <1>4, <1>12, ThreadsFrame, LocksFrame, HostsFrame, OwnerFrame DEF IInv, ctrlVars
<1>14. LifeInv'
  <2>1. ~(i[2] > adds[i[1]])
    BY <1>2, <1>3, RegisteredInc, ControllerAssumption DEF IInv, HostsInv, TypeOK, HasHost, IncOf
  <2> SUFFICES ASSUME NEW j \in Inc
               PROVE  LifeOK(j)'
    BY DEF LifeInv
  <2> QED  BY <1>4, <1>10, <2>1 DEF IInv, LifeInv, LifeOK, ctrlVars, IncOf
<1>15. KnownOK(h)'
  <2>1. ASSUME NEW k \in DOMAIN q
        PROVE  q[k] # Periodic(t)
    BY <1>1, <1>3, <2>1 DEF KnownOK, TaskInHands
  <2>2. job[i] # Periodic(t)
    BY <1>1, <1>3 DEF KnownOK, TaskInHands
  <2>3. IncOf(h)' = i /\ HasHost(h)' /\ ~closed'[i]
    BY <1>2, <1>3, <1>4 DEF IncOf, HasHost, ctrlVars
  <2>4. ASSUME NEW a \in Tasks, a # t
        PROVE  OneJobPerTask(i, a)' /\ (a \in pending'[h] <=> TaskInHands(i, a)')
    <3>1. OneJobPerTask(i, a) /\ (a \in pending[h] <=> TaskInHands(i, a))
      BY <1>1, <1>3 DEF KnownOK
    <3>2. Periodic(t) # Periodic(a)
      BY <2>4 DEF Periodic
    <3>3. OneInQueue(r, a) /\ (InQueue(r, a) <=> InQueue(q, a))
      <4>1. OneInQueue(q, a)
        BY <3>1 DEF OneJobPerTask, OneInQueue
      <4> QED  BY ONLY <1>7, <1>8, <3>2, <4>1, PushOther
    <3>4. a \in pending'[h] <=> a \in pending[h]
      BY <1>5, <1>7, <2>4
    <3> QED  BY <1>4, <1>10, <3>1, <3>3, <3>4 DEF OneJobPerTask, TaskInHands, OneInQueue, InQueue
  <2>5. OneJobPerTask(i, t)' /\ t \in pending'[h] /\ TaskInHands(i, t)'
    <3>1. \A k \in DOMAIN r : r[k] = Periodic(t) => k = Len(q) + 1
      BY <1>9, <2>1
    <3>2. Len(q) + 1 \in DOMAIN r
      BY <1>9
    <3> QED  BY <1>4, <1>5, <1>7, <1>9, <1>10, <2>2, <3>1, <3>2 DEF OneJobPerTask, TaskInHands
  <2> QED  BY <2>3, <2>4, <2>5 DEF KnownOK
<1>16. BookInv'
  <2>1. ASSUME NEW g \in known, g # h
        PROVE  KnownOK(g)'
    <3>1. KnownOK(g) /\ g \in Hosts /\ IncOf(g) \in Inc /\ IncOf(g) # i
      BY <1>3, <2>1, RegisteredInc DEF IInv, BookInv, KnownOK, IncOf
    <3>2. pending'[g] = pending[g] /\ queue'[IncOf(g)] = queue[IncOf(g)]
      BY <1>5, <1>7, <1>10, <2>1, <3>1
    <3> QED  BY <1>4, <3>1, <3>2, KnownStays DEF ctrlVars
  <2>2. ASSUME NEW u \in CallerThreads, pc[u] = "add_context"
        PROVE  queue'[IncOf(call[u].host)] = <<>> /\ ~closed[IncOf(call[u].host)]
    <3>1. u \in Thread /\ u \in Operators
      BY DEF Thread, Operators
    <3>2. call[u].host \notin known /\ HasHost(call[u].host)
      BY <2>2, <3>1, OfThread DEF OwnsController, OwnerOK
    <3>3. IncOf(call[u].host) # i /\ IncOf(call[u].host) \in Inc
      BY <1>1, <1>3, <3>2, RegisteredInc DEF IncOf, IInv
    <3> QED  BY <1>10, <2>2, <3>3 DEF IInv, BookInv
  <2> QED  BY <1>4, <1>15, <2>1, <2>2 DEF BookInv, IncOf, ctrlVars
<1> QED  BY <1>11, <1>12, <1>13, <1>14, <1>16 DEF IInv

-----------------------------------------------------------------------------
(* Steps of the thread that holds the controller's lock.                   *)

\* Nobody but the holder of the lock is at a place that needs it.
LEMMA OnlyOwner ==
  ASSUME IInv, NEW t \in Thread, ctrlLock \in {t, None}, NEW u \in Thread, OwnsController(u, pc[u])
  PROVE  u = t
  BY OfThread, NoThreadIsNone

\* What a step of one operator leaves to show.
LEMMA OperatorStep ==
  ASSUME IInv, NEW t \in Operators, Others({t}), UNCHANGED <<scenario, inbox, regLock>>,
         ctrlLock \in {t, None}, ctrlLock' \in {t, None}, MovedWell(t), LocksWell(t),
         OwnsController(t, pc'[t]) => OwnerOK(t, pc[t], call[t], cb[t])'
  PROVE  /\ ThreadsInv' /\ InboxInv' /\ LocksHeld' /\ OwnerInv'
         /\ \A i \in Inc : pc'[<<"conn", i>>] = pc[<<"conn", i>>] /\ pc'[Work(i)] = pc[Work(i)]
         /\ \A u \in CallerThreads \ {t} : pc'[u] # "add_context"
<1>1. KeepLocks({t})
  BY NoThreadIsNone DEF KeepLocks
<1>2. ThreadsInv' /\ LocksHeld' /\ InboxInv'
  BY <1>1, ThreadsFrame, LocksFrame DEF IInv, InboxInv
<1>3. OwnerInv'
  BY <1>2, OwnerStep
<1>4. \A i \in Inc : pc'[<<"conn", i>>] = pc[<<"conn", i>>] /\ pc'[Work(i)] = pc[Work(i)]
  <2>1. \A i \in Inc : <<"conn", i>> \in Thread \ {t} /\ Work(i) \in Thread \ {t}
    BY Kinds DEF Thread, Operators
  <2> QED  BY <2>1 DEF Others
<1>5. \A u \in CallerThreads \ {t} : pc'[u] # "add_context"
  <2> SUFFICES ASSUME NEW u \in CallerThreads \ {t}, pc'[u] = "add_context"
               PROVE  FALSE
    OBVIOUS
  <2>1. u \in Thread /\ t \in Thread /\ pc[u] = "add_context"
    BY DEF Others, Thread, Operators
  <2> QED  BY <2>1, OnlyOwner DEF OwnsController
<1> QED  BY <1>2, <1>3, <1>4, <1>5

\* schedule_periodic_tasks switches the tasks of a registered host on.
LEMMA SchedulePeriodicTasksStep ==
  ASSUME IInv, NEW t \in Thread, SchedulePeriodicTasks(t)
  PROVE  IInv'
<1>1. pc[t] = "enter" /\ call[t].op = "schedule" /\ HasHost(call[t].host) /\ Returns(t)
      /\ config' = [config EXCEPT ![call[t].host] = "on"]
      /\ UNCHANGED <<scenario, shutdown, hostControllers, adds, schedVars, hostVars, lockVars, uiVars, cb>>
  BY DEF SchedulePeriodicTasks, Verified, Enters
<1>2. ThreadOK(t, pc[t], call[t], cb[t]) /\ (ctrlLock = t <=> OwnsController(t, pc[t]))
      /\ (regLock = t <=> OwnsRegistry(t, pc[t]))
  BY OfThread
<1>3. t \in CallerThreads \/ t \in NestedThreads
  BY <1>1, <1>2 DEF ThreadOK, RemoverOK, Thread, NestedThreads
<1>4. pc'[t] = (IF t \in CallerThreads THEN "idle" ELSE "leaving") /\ call'[t] = NoCall /\ Others({t})
      /\ pc' \in [Thread -> Places] /\ call' \in [Thread -> Call]
  BY <1>1, <1>3, Kinds DEF IInv, TypeOK, Returns, Goto, AfterCall, Places, NoCall, Call, Others, NestedThreads, Operators
<1>5. MovedWell(t) /\ LocksWell(t) /\ KeepLocks({t})
  BY <1>1, <1>2, <1>3, <1>4, Kinds DEF MovedWell, LocksWell, KeepLocks, ThreadOK, ConnOK, WorkOK, CallerOK, NestedOK,
     OwnsController, OwnsRegistry, lockVars, NestedThreads, Operators
<1>6. ThreadsInv' /\ LocksHeld' /\ InboxInv'
  BY <1>1, <1>4, <1>5, ThreadsFrame, LocksFrame DEF IInv, InboxInv, uiVars
<1>7. config' \in [Hosts -> {"absent", "off", "on"}] /\ \A h \in Hosts : HasHost(h) => config'[h] # "absent"
  BY <1>1 DEF IInv, TypeOK, HostsInv
<1>8. TypeOK'
  <2>1. shutdown' \in BOOLEAN /\ schedShutdown' \in BOOLEAN /\ gone' \in BOOLEAN
    BY <1>1, Zenon DEF IInv, TypeOK, schedVars, uiVars
  <2> QED  BY <1>1, <1>4, <1>7, <2>1 DEF IInv, TypeOK, schedVars, hostVars, lockVars, uiVars
<1>9. HostsInv'
  BY <1>1, <1>4, <1>7, ConfigFrame DEF IInv, AddsWell
<1>10. OwnerInv'
  <2>1. ~(t \in Operators /\ OwnsController(t, pc'[t]))
    BY <1>3, <1>4, Kinds DEF OwnsController, NestedThreads, Operators
  <2> QED  BY <1>1, <1>4, <2>1, OwnerFrame DEF IInv, schedVars
<1>11. LifeInv'
  <2>1. \A a \in {t} \cap NestedThreads : pc[a] \in Busy /\ pc'[a] \in Busy
    BY <1>1, <1>3, <1>4, Kinds DEF Busy, NestedThreads
  <2> QED  BY <1>1, <1>4, <2>1, LifeStays DEF IInv, LifeInv
<1>12. BookInv'
  BY <1>1, <1>4, BookFrame DEF IInv, hostVars
<1> QED  BY <1>6, <1>8, <1>9, <1>10, <1>11, <1>12 DEF IInv

\* remove_host_ takes the host from the scheduler, ...
LEMMA RemoveFromContextStep ==
  ASSUME IInv, NEW t \in Thread, RemoveFromContext(t)
  PROVE  IInv'
<1> DEFINE h == call[t].host
<1>1. pc[t] = "rm_context" /\ Goto(t, "rm_close")
      /\ known' = known \ {h} /\ pending' = [g \in Hosts |-> IF g = h THEN {} ELSE pending[g]]
      /\ UNCHANGED <<ctrlVars, schedShutdown, hostVars, lockVars, uiVars, call, cb>>
  BY DEF RemoveFromContext
<1>2. ThreadOK(t, pc[t], call[t], cb[t]) /\ (ctrlLock = t <=> OwnsController(t, pc[t]))
      /\ (regLock = t <=> OwnsRegistry(t, pc[t]))
  BY OfThread
<1>3. t \in Operators /\ t \notin NestedThreads /\ t # Scheduler
  BY <1>1, <1>2, Kinds DEF ThreadOK, ConnOK, WorkOK, Thread, Operators, NestedThreads
<1>4. Others({t}) /\ pc'[t] = "rm_close" /\ pc' \in [Thread -> Places]
  BY <1>1 DEF IInv, TypeOK, Goto, Others, Places
<1>5. MovedWell(t) /\ LocksWell(t) /\ ctrlLock = t
  BY <1>1, <1>2, <1>3, <1>4, Kinds DEF MovedWell, LocksWell, ThreadOK, CallerOK, RemoverOK,
     OwnsController, OwnsRegistry, lockVars, NestedThreads, Operators
<1>6. OwnerOK(t, pc[t], call[t], cb[t])'
  BY <1>1, <1>2, <1>3, <1>4 DEF OwnerOK
<1>7. /\ ThreadsInv' /\ InboxInv' /\ LocksHeld' /\ OwnerInv'
      /\ \A i \in Inc : pc'[<<"conn", i>>] = pc[<<"conn", i>>] /\ pc'[Work(i)] = pc[Work(i)]
      /\ \A u \in CallerThreads : pc'[u] # "add_context"
  BY <1>1, <1>3, <1>4, <1>5, <1>6, OperatorStep DEF ctrlVars, uiVars, lockVars
<1>8. TypeOK'
  <2>1. shutdown' \in BOOLEAN /\ schedShutdown' \in BOOLEAN /\ gone' \in BOOLEAN
    BY <1>1, Zenon DEF IInv, TypeOK, ctrlVars, uiVars
  <2> QED  BY <1>1, <1>4, <2>1 DEF IInv, TypeOK, ctrlVars, hostVars, lockVars, uiVars
<1>9. HostsInv'
  BY <1>1, <1>4, HostsFrame DEF IInv, ctrlVars, AddsWell
<1>10. LifeInv'
  <2> SUFFICES ASSUME NEW i \in Inc
               PROVE  LifeOK(i)'
    BY DEF LifeInv
  <2>1. LifeOK(i)
    BY DEF IInv, LifeInv
  <2> QED  BY <1>1, <1>7, <2>1 DEF LifeOK, IncOf, ctrlVars, hostVars
<1>11. BookInv'
  <2>1. ASSUME NEW g \in known'
        PROVE  KnownOK(g)'
    <3>1. KnownOK(g) /\ g \in Hosts /\ pending'[g] = pending[g]
      BY <1>1, <2>1 DEF IInv, BookInv, TypeOK
    <3> QED  BY <1>1, <3>1, KnownStays DEF ctrlVars, hostVars
  <2> QED  BY <1>7, <2>1 DEF BookInv
<1> QED  BY <1>7, <1>8, <1>9, <1>10, <1>11 DEF IInv

\* ... shuts the queue of its host controller down ...
LEMMA CloseQueueStep ==
  ASSUME IInv, NEW t \in Thread, CloseQueue(t)
  PROVE  IInv'
<1> DEFINE h == call[t].host
<1>1. pc[t] = "rm_close" /\ Goto(t, "rm_join") /\ HasHost(h)
      /\ closed' = [closed EXCEPT ![IncOf(h)] = TRUE]
      /\ UNCHANGED <<ctrlVars, schedVars, queue, joinable, alive, job, lockVars, uiVars, call, cb>>
  BY DEF CloseQueue
<1>2. ThreadOK(t, pc[t], call[t], cb[t]) /\ (ctrlLock = t <=> OwnsController(t, pc[t]))
      /\ (regLock = t <=> OwnsRegistry(t, pc[t]))
  BY OfThread
<1>3. t \in Operators /\ t \notin NestedThreads /\ t # Scheduler
  BY <1>1, <1>2, Kinds DEF ThreadOK, ConnOK, WorkOK, Thread, Operators, NestedThreads
<1>4. Others({t}) /\ pc'[t] = "rm_join" /\ pc' \in [Thread -> Places]
  BY <1>1 DEF IInv, TypeOK, Goto, Others, Places
<1>5. MovedWell(t) /\ LocksWell(t) /\ ctrlLock = t
  BY <1>1, <1>2, <1>3, <1>4, Kinds DEF MovedWell, LocksWell, ThreadOK, CallerOK, RemoverOK,
     OwnsController, OwnsRegistry, lockVars, NestedThreads, Operators
<1>6. OwnerOK(t, pc[t], call[t], cb[t]) /\ h \notin known
  BY <1>1, <1>3, OfThread DEF OwnsController, OwnerOK
<1>7. OwnerOK(t, pc[t], call[t], cb[t])'
  BY <1>1, <1>4, <1>6 DEF OwnerOK, HasHost, ctrlVars, schedVars
<1>8. /\ ThreadsInv' /\ InboxInv' /\ LocksHeld' /\ OwnerInv'
      /\ \A j \in Inc : pc'[<<"conn", j>>] = pc[<<"conn", j>>] /\ pc'[Work(j)] = pc[Work(j)]
      /\ \A u \in CallerThreads : pc'[u] # "add_context"
  BY <1>1, <1>3, <1>4, <1>5, <1>7, OperatorStep DEF ctrlVars, uiVars, lockVars
<1>9. PICK i \in Inc : i = IncOf(h)
  BY <1>1, RegisteredInc DEF IInv
<1>10. closed' \in [Inc -> BOOLEAN] /\ \A j \in Inc : j # i => closed'[j] = closed[j]
  <2>1. closed \in [Inc -> BOOLEAN]
    BY DEF IInv, TypeOK
  <2>2. closed' \in [Inc -> BOOLEAN]
    BY <1>1, <1>9, <2>1
  <2> QED  BY <1>1, <1>9, <2>1, <2>2
<1>11. TypeOK'
  <2>1. shutdown' \in BOOLEAN /\ schedShutdown' \in BOOLEAN /\ gone' \in BOOLEAN
    BY <1>1, Zenon DEF IInv, TypeOK, ctrlVars, schedVars, uiVars
  <2> QED  BY <1>1, <1>4, <1>10, <2>1 DEF IInv, TypeOK, ctrlVars, schedVars, lockVars, uiVars
<1>12. HostsInv'
  BY <1>1, <1>4, HostsFrame DEF IInv, ctrlVars, AddsWell
<1>13. LifeInv'
  <2> SUFFICES ASSUME NEW j \in Inc
               PROVE  LifeOK(j)'
    BY DEF LifeInv
  <2>1. LifeOK(j)
    BY DEF IInv, LifeInv
  <2>2. ~(i[2] > adds[i[1]])
    BY <1>1, <1>9, RegisteredInc, ControllerAssumption DEF IInv, HostsInv, TypeOK, HasHost, IncOf
  <2> QED  BY <1>1, <1>8, <1>10, <2>1, <2>2 DEF LifeOK, IncOf, ctrlVars
<1>14. BookInv'
  <2>1. ASSUME NEW g \in known
        PROVE  KnownOK(g)'
    <3>1. KnownOK(g) /\ IncOf(g) \in Inc
      BY RegisteredInc DEF IInv, BookInv, KnownOK
    <3>2. IncOf(g) # i
      BY <1>6, <1>9, <2>1 DEF IncOf
    <3> QED  BY <1>1, <1>10, <3>1, <3>2, KnownStays DEF ctrlVars, schedVars
  <2> QED  BY <1>1, <1>8, <2>1 DEF BookInv, schedVars
<1> QED  BY <1>8, <1>11, <1>12, <1>13, <1>14 DEF IInv

\* ... waits for the worker ...
LEMMA JoinWorkerStep ==
  ASSUME IInv, NEW t \in Thread, JoinWorker(t)
  PROVE  IInv'
<1> DEFINE h == call[t].host
<1>1. pc[t] = "rm_join" /\ Goto(t, "rm_erase")
      /\ (joinable[IncOf(h)] => pc[Work(IncOf(h))] = "exited")
      /\ joinable' = [joinable EXCEPT ![IncOf(h)] = FALSE]
      /\ UNCHANGED <<ctrlVars, schedVars, queue, closed, alive, job, lockVars, uiVars, call, cb>>
  BY DEF JoinWorker
<1>2. ThreadOK(t, pc[t], call[t], cb[t]) /\ (ctrlLock = t <=> OwnsController(t, pc[t]))
      /\ (regLock = t <=> OwnsRegistry(t, pc[t]))
  BY OfThread
<1>3. t \in Operators /\ t \notin NestedThreads /\ t # Scheduler
  BY <1>1, <1>2, Kinds DEF ThreadOK, ConnOK, WorkOK, Thread, Operators, NestedThreads
<1>4. Others({t}) /\ pc'[t] = "rm_erase" /\ pc' \in [Thread -> Places]
  BY <1>1 DEF IInv, TypeOK, Goto, Others, Places
<1>5. MovedWell(t) /\ LocksWell(t) /\ ctrlLock = t
  BY <1>1, <1>2, <1>3, <1>4, Kinds DEF MovedWell, LocksWell, ThreadOK, CallerOK, RemoverOK,
     OwnsController, OwnsRegistry, lockVars, NestedThreads, Operators
<1>6. h \notin known /\ HasHost(h)
  BY <1>1, <1>3, OfThread DEF OwnsController, OwnerOK
<1>7. OwnerOK(t, pc[t], call[t], cb[t])'
  BY <1>1, <1>2, <1>3, <1>4, <1>6 DEF OwnerOK, HasHost, ctrlVars, schedVars
<1>8. /\ ThreadsInv' /\ InboxInv' /\ LocksHeld' /\ OwnerInv'
      /\ \A j \in Inc : pc'[<<"conn", j>>] = pc[<<"conn", j>>] /\ pc'[Work(j)] = pc[Work(j)]
      /\ \A u \in CallerThreads : pc'[u] # "add_context"
  BY <1>1, <1>3, <1>4, <1>5, <1>7, OperatorStep DEF ctrlVars, uiVars, lockVars
<1>9. PICK i \in Inc : i = IncOf(h)
  BY <1>6, RegisteredInc DEF IInv
<1>10. joinable' \in [Inc -> BOOLEAN] /\ ~joinable'[i] /\ \A j \in Inc : j # i => joinable'[j] = joinable[j]
  <2>1. joinable \in [Inc -> BOOLEAN]
    BY DEF IInv, TypeOK
  <2> QED  BY <1>1, <1>9, <2>1
<1>11. TypeOK'
  <2>1. shutdown' \in BOOLEAN /\ schedShutdown' \in BOOLEAN /\ gone' \in BOOLEAN
    BY <1>1, Zenon DEF IInv, TypeOK, ctrlVars, schedVars, uiVars
  <2> QED  BY <1>1, <1>4, <1>10, <2>1 DEF IInv, TypeOK, ctrlVars, schedVars, lockVars, uiVars
<1>12. HostsInv'
  BY <1>1, <1>4, HostsFrame DEF IInv, ctrlVars, AddsWell
<1>13. LifeInv'
  <2> SUFFICES ASSUME NEW j \in Inc
               PROVE  LifeOK(j)'
    BY DEF LifeInv
  <2>1. LifeOK(j)
    BY DEF IInv, LifeInv
  <2>2. CASE j = i
    BY <1>1, <1>8, <1>9, <1>10, <2>1, <2>2 DEF LifeOK, IncOf, ctrlVars
  <2>3. CASE j # i
    BY <1>1, <1>8, <1>10, <2>1, <2>3 DEF LifeOK, IncOf, ctrlVars
  <2> QED  BY <2>2, <2>3
<1>14. BookInv'
  <2>1. ASSUME NEW g \in known
        PROVE  KnownOK(g)'
    <3>1. KnownOK(g)
      BY DEF IInv, BookInv
    <3> QED  BY <1>1, <3>1, KnownStays DEF ctrlVars, schedVars
  <2> QED  BY <1>1, <1>8, <2>1 DEF BookInv, schedVars
<1> QED  BY <1>8, <1>11, <1>12, <1>13, <1>14 DEF IInv

\* ... destroys the host controller and tells the handlers ...
LEMMA EraseHostStep ==
  ASSUME IInv, NEW t \in Thread, EraseHost(t)
  PROVE  IInv'
<1> DEFINE h == call[t].host
<1>1. pc[t] = "rm_erase" /\ Delivers(t, "removed", h)
      /\ (joinable[IncOf(h)] => pc[Work(IncOf(h))] = "exited")
      /\ joinable' = [joinable EXCEPT ![IncOf(h)] = FALSE]
      /\ alive' = [alive EXCEPT ![IncOf(h)] = "destroyed"]
      /\ queue' = [queue EXCEPT ![IncOf(h)] = <<>>]
      /\ hostControllers' = [hostControllers EXCEPT ![h] = 0]
      /\ UNCHANGED <<scenario, shutdown, adds, config, schedVars, closed, job, lockVars, uiVars, call>>
  BY DEF EraseHost
<1>2. ThreadOK(t, pc[t], call[t], cb[t]) /\ (ctrlLock = t <=> OwnsController(t, pc[t]))
      /\ (regLock = t <=> OwnsRegistry(t, pc[t]))
  BY OfThread
<1>3. t \in Operators /\ t \notin NestedThreads /\ t # Scheduler
  BY <1>1, <1>2, Kinds DEF ThreadOK, ConnOK, WorkOK, Thread, Operators, NestedThreads
<1>4. h \notin known /\ HasHost(h) /\ h \in Hosts
  BY <1>1, <1>3, OfThread DEF OwnsController, OwnerOK, HasHost
<1>5. Others({t}) /\ pc'[t] = "notify" /\ cb'[t] = MkCallback("removed", h)
      /\ pc' \in [Thread -> Places] /\ cb' \in [Thread -> Callback]
  BY <1>1, <1>4 DEF IInv, TypeOK, Delivers, Goto, Others, Places, MkCallback, Callback, CallbackKinds
<1>6. MovedWell(t) /\ LocksWell(t) /\ ctrlLock = t
  BY <1>1, <1>2, <1>3, <1>4, <1>5, Kinds DEF MovedWell, LocksWell, ThreadOK, CallerOK, RemoverOK, MkCallback,
     OwnsController, OwnsRegistry, lockVars, NestedThreads, Operators
<1>7. hostControllers' \in [Hosts -> 0..MaxAdds] /\ hostControllers'[h] = 0
      /\ \A g \in Hosts : g # h => hostControllers'[g] = hostControllers[g]
  BY <1>1, <1>4, ControllerAssumption DEF IInv, TypeOK
<1>8. OwnerOK(t, pc[t], call[t], cb[t])'
  BY <1>1, <1>4, <1>5, <1>7 DEF OwnerOK, HasHost, schedVars, MkCallback
<1>9. /\ ThreadsInv' /\ InboxInv' /\ LocksHeld' /\ OwnerInv'
      /\ \A j \in Inc : pc'[<<"conn", j>>] = pc[<<"conn", j>>] /\ pc'[Work(j)] = pc[Work(j)]
      /\ \A u \in CallerThreads : pc'[u] # "add_context"
  BY <1>1, <1>3, <1>5, <1>6, <1>8, OperatorStep DEF uiVars, lockVars
<1>10. PICK i \in Inc : i = IncOf(h)
  BY <1>4, RegisteredInc DEF IInv
<1>11. joinable' \in [Inc -> BOOLEAN] /\ ~joinable'[i] /\ \A j \in Inc : j # i => joinable'[j] = joinable[j]
  <2>1. joinable \in [Inc -> BOOLEAN]
    BY DEF IInv, TypeOK
  <2> QED  BY <1>1, <1>10, <2>1
<1>12. queue' \in [Inc -> Seq(Job)] /\ queue'[i] = <<>> /\ \A j \in Inc : j # i => queue'[j] = queue[j]
  <2>1. queue \in [Inc -> Seq(Job)]
    BY DEF IInv, TypeOK
  <2>2. <<>> \in Seq(Job)
    OBVIOUS
  <2> QED  BY <1>1, <1>10, <2>1, <2>2
<1>13. alive' \in [Inc -> {"unborn", "alive", "destroyed"}] /\ alive'[i] = "destroyed"
       /\ \A j \in Inc : j # i => alive'[j] = alive[j]
  BY <1>1, <1>10 DEF IInv, TypeOK
<1>14. TypeOK'
  <2>1. shutdown' \in BOOLEAN /\ schedShutdown' \in BOOLEAN /\ gone' \in BOOLEAN
    BY <1>1, Zenon DEF IInv, TypeOK, schedVars, uiVars
  <2> QED  BY <1>1, <1>5, <1>7, <1>11, <1>12, <1>13, <2>1 DEF IInv, TypeOK, schedVars, lockVars, uiVars
<1>15. HostsInv'
  <2>1. \A u \in CallerThreads : pc'[u] = "enter" => pc[u] = "enter" /\ call'[u] = call[u]
    BY <1>1, <1>5 DEF Others, Thread
  <2> QED  BY <1>1, <1>7, <2>1 DEF IInv, HostsInv, HasHost
<1>16. LifeInv'
  <2> SUFFICES ASSUME NEW j \in Inc
               PROVE  LifeOK(j)'
    BY DEF LifeInv
  <2>1. LifeOK(j)
    BY DEF IInv, LifeInv
  <2>2. CASE j = i
    <3>1. j[2] # 0 /\ j[1] = h
      BY <1>10, <2>2, ControllerAssumption DEF Inc, IncOf
    <3>2. j # IncOf(j[1])'
      BY <1>7, <3>1 DEF IncOf
    <3> QED  BY <1>1, <1>9, <1>10, <1>11, <1>12, <1>13, <2>1, <2>2, <3>2 DEF LifeOK
  <2>3. CASE j # i
    <3>1. j = IncOf(j[1]) <=> j = IncOf(j[1])'
      <4>1. j[2] # 0 /\ j[1] \in Hosts
        BY ControllerAssumption DEF Inc
      <4> QED  BY <1>7, <1>10, <2>3, <4>1 DEF IncOf
    <3> QED  BY <1>1, <1>9, <1>11, <1>12, <1>13, <2>1, <2>3, <3>1 DEF LifeOK
  <2> QED  BY <2>2, <2>3
<1>17. BookInv'
  <2>1. ASSUME NEW g \in known
        PROVE  KnownOK(g)'
    <3>1. KnownOK(g) /\ g \in Hosts /\ g # h /\ IncOf(g) \in Inc
      BY <1>4, RegisteredInc DEF IInv, BookInv, KnownOK
    <3>2. IncOf(g) # i
      BY <1>10, <3>1 DEF IncOf
    <3> QED  BY <1>1, <1>7, <1>12, <3>1, <3>2, KnownStays DEF schedVars
  <2> QED  BY <1>1, <1>9, <2>1 DEF BookInv, schedVars
<1> QED  BY <1>9, <1>14, <1>15, <1>16, <1>17 DEF IInv

\* ... and forgets its configuration.
LEMMA RemoveFromConfigStep ==
  ASSUME IInv, NEW t \in Thread, RemoveFromConfig(t)
  PROVE  IInv'
<1> DEFINE h == call[t].host
<1>1. pc[t] = "rm_config" /\ config' = [config EXCEPT ![h] = "absent"]
      /\ (IF call[t].op = "shutdown"
          THEN Goto(t, "sd_next") /\ call' = [call EXCEPT ![t].host = None] /\ UNCHANGED ctrlLock
          ELSE Returns(t) /\ ctrlLock' = None)
      /\ UNCHANGED <<scenario, shutdown, hostControllers, adds, schedVars, hostVars, regLock, uiVars, cb>>
  BY DEF RemoveFromConfig
<1>2. ThreadOK(t, pc[t], call[t], cb[t]) /\ (ctrlLock = t <=> OwnsController(t, pc[t]))
      /\ (regLock = t <=> OwnsRegistry(t, pc[t]))
  BY OfThread
<1>3. t \in Operators /\ t \notin NestedThreads /\ t # Scheduler
  BY <1>1, <1>2, Kinds DEF ThreadOK, ConnOK, WorkOK, Thread, Operators, NestedThreads
<1>4. ctrlLock = t /\ regLock # t
  BY <1>1, <1>2, <1>3 DEF OwnsController, OwnsRegistry
<1>5. ~HasHost(h)
  BY <1>1, <1>3, OfThread DEF OwnsController, OwnerOK
<1>6. /\ Others({t}) /\ MovedWell(t) /\ LocksWell(t) /\ ctrlLock' \in {t, None}
      /\ pc' \in [Thread -> Places] /\ call' \in [Thread -> Call]
      /\ pc'[t] \in {"sd_next", "idle", "unused"}
  <2>1. CASE call[t].op = "shutdown"
    <3>1. call \in [Thread -> Call] /\ pc \in [Thread -> Places]
      BY DEF IInv, TypeOK
    <3>2. \A c \in Call : [c EXCEPT !.host = None] \in Call /\ [c EXCEPT !.host = None].op = c.op
      BY DEF Call
    <3>3. call' = [call EXCEPT ![t] = [call[t] EXCEPT !.host = None]] /\ Goto(t, "sd_next")
      BY <1>1, <2>1
    <3>4. call' \in [Thread -> Call] /\ call'[t].op = call[t].op
      <4>1. call[t] \in Call
        BY <3>1
      <4>2. [call[t] EXCEPT !.host = None] \in Call /\ [call[t] EXCEPT !.host = None].op = call[t].op
        BY <3>2, <4>1
      <4> QED  BY ONLY <3>1, <3>3, <4>2, t \in Thread
    <3>5. Others({t}) /\ pc'[t] = "sd_next" /\ pc' \in [Thread -> Places]
      BY <1>1, <3>1, <3>3 DEF Others, Goto, Places
    <3>6. t \in CallerThreads
      BY <1>1, <1>2, <1>3, <2>1 DEF ThreadOK, RemoverOK, Operators
    <3> QED  BY <1>1, <1>2, <1>3, <1>4, <2>1, <3>4, <3>5, <3>6, Kinds DEF MovedWell, LocksWell, ThreadOK, CallerOK,
             OwnsController, OwnsRegistry, NestedThreads, Operators
  <2>2. CASE call[t].op # "shutdown"
    <3>0. AfterCall(t) = (IF t \in CallerThreads THEN "idle" ELSE "unused")
      <4>1. t \in CallerThreads => AfterCall(t) = "idle"
        BY Kinds DEF AfterCall
      <4>2. t \in RemoveThreads => AfterCall(t) = "unused"
        BY Kinds DEF AfterCall
      <4> QED  BY <1>3, <4>1, <4>2 DEF Operators
    <3>1. Others({t}) /\ pc'[t] = AfterCall(t) /\ call'[t] = NoCall
          /\ pc' \in [Thread -> Places] /\ call' \in [Thread -> Call]
      <4>1. pc' = [pc EXCEPT ![t] = AfterCall(t)] /\ call' = [call EXCEPT ![t] = NoCall] /\ cb' = cb
        BY <1>1, <2>2 DEF Returns, Goto
      <4>2. pc \in [Thread -> Places] /\ call \in [Thread -> Call] /\ AfterCall(t) \in Places /\ NoCall \in Call
        BY <3>0 DEF IInv, TypeOK, Places, NoCall, Call
      <4> QED  BY <4>1, <4>2 DEF Others
    <3> QED  BY <1>1, <1>2, <1>3, <1>4, <2>2, <3>0, <3>1, Kinds, NoThreadIsNone DEF MovedWell, LocksWell, ThreadOK, CallerOK,
             RemoverOK, OwnsController, OwnsRegistry, NestedThreads, Operators
  <2> QED  BY <2>1, <2>2
<1>7. OwnsController(t, pc'[t]) => OwnerOK(t, pc[t], call[t], cb[t])'
  BY <1>6 DEF OwnsController, OwnerOK
<1>8. /\ ThreadsInv' /\ InboxInv' /\ LocksHeld' /\ OwnerInv'
      /\ \A i \in Inc : pc'[<<"conn", i>>] = pc[<<"conn", i>>] /\ pc'[Work(i)] = pc[Work(i)]
      /\ \A u \in CallerThreads : pc'[u] # "add_context"
  BY <1>1, <1>3, <1>4, <1>6, <1>7, OperatorStep DEF uiVars
<1>9. config' \in [Hosts -> {"absent", "off", "on"}] /\ \A g \in Hosts : HasHost(g) => config'[g] # "absent"
  BY <1>1, <1>5 DEF IInv, TypeOK, HostsInv
<1>10. TypeOK'
  <2>1. shutdown' \in BOOLEAN /\ schedShutdown' \in BOOLEAN /\ gone' \in BOOLEAN
    BY <1>1, Zenon DEF IInv, TypeOK, schedVars, uiVars
  <2> QED  BY <1>1, <1>6, <1>9, <2>1 DEF IInv, TypeOK, schedVars, hostVars, uiVars
<1>11. HostsInv'
  BY <1>1, <1>6, <1>9, ConfigFrame DEF IInv, AddsWell
<1>12. LifeInv'
  <2> SUFFICES ASSUME NEW i \in Inc
               PROVE  LifeOK(i)'
    BY DEF LifeInv
  <2>1. LifeOK(i)
    BY DEF IInv, LifeInv
  <2> QED  BY <1>1, <1>8, <2>1 DEF LifeOK, IncOf, hostVars
<1>13. BookInv'
  BY <1>1, <1>6, BookFrame DEF IInv, hostVars
<1> QED  BY <1>8, <1>10, <1>11, <1>12, <1>13 DEF IInv

\* shutdown() begins: from now on the scheduler's data is nobody's business.
LEMMA ShutdownStep ==
  ASSUME IInv, NEW t \in Thread, Shutdown(t)
  PROVE  IInv'
<1>1. pc[t] = "enter" /\ call[t].op = "shutdown" /\ ctrlLock = None /\ ctrlLock' = t /\ Goto(t, "sd_join")
      /\ shutdown' = TRUE /\ schedShutdown' = TRUE
      /\ UNCHANGED <<scenario, hostControllers, adds, config, known, pending, hostVars, regLock, uiVars, call, cb>>
  BY DEF Shutdown, Enters
<1>2. ThreadOK(t, pc[t], call[t], cb[t]) /\ (ctrlLock = t <=> OwnsController(t, pc[t]))
      /\ (regLock = t <=> OwnsRegistry(t, pc[t]))
  BY OfThread
<1>3. t \in CallerThreads /\ t \in Operators /\ t \notin NestedThreads /\ t # Scheduler /\ t \notin RemoveThreads
  BY <1>1, <1>2, Kinds DEF ThreadOK, RemoverOK, ConnOK, WorkOK, NestedOK, Thread, Operators, NestedThreads
<1>4. Others({t}) /\ pc'[t] = "sd_join" /\ pc' \in [Thread -> Places]
  BY <1>1 DEF IInv, TypeOK, Goto, Others, Places
<1>5. MovedWell(t) /\ LocksWell(t)
  BY <1>1, <1>2, <1>3, <1>4, Kinds DEF MovedWell, LocksWell, ThreadOK, CallerOK,
     OwnsController, OwnsRegistry, NestedThreads, Operators
<1>6. OwnerOK(t, pc[t], call[t], cb[t])'
  BY <1>4 DEF OwnerOK
<1>7. /\ ThreadsInv' /\ InboxInv' /\ LocksHeld' /\ OwnerInv'
      /\ \A i \in Inc : pc'[<<"conn", i>>] = pc[<<"conn", i>>] /\ pc'[Work(i)] = pc[Work(i)]
      /\ \A u \in CallerThreads : pc'[u] # "add_context"
  BY <1>1, <1>3, <1>4, <1>5, <1>6, OperatorStep DEF uiVars
<1>8. TypeOK'
  <2>1. shutdown' \in BOOLEAN /\ schedShutdown' \in BOOLEAN /\ gone' \in BOOLEAN
    BY <1>1, Zenon DEF IInv, TypeOK, uiVars
  <2> QED  BY <1>1, <1>4, <2>1 DEF IInv, TypeOK, hostVars, uiVars
<1>9. HostsInv'
  BY <1>1, <1>4, HostsFrame DEF IInv, AddsWell
<1>10. LifeInv'
  <2> SUFFICES ASSUME NEW i \in Inc
               PROVE  LifeOK(i)'
    BY DEF LifeInv
  <2>1. LifeOK(i)
    BY DEF IInv, LifeInv
  <2> QED  BY <1>1, <1>7, <2>1 DEF LifeOK, IncOf, hostVars
<1>11. BookInv'
  BY <1>1, <1>7 DEF IInv, BookInv, KnownOK, HasHost, IncOf, hostVars
<1> QED  BY <1>7, <1>8, <1>9, <1>10, <1>11 DEF IInv

\* add_host tells the scheduler of the new host, which has no jobs.
LEMMA AddToContextStep ==
  ASSUME IInv, NEW t \in Thread, AddToContext(t)
  PROVE  IInv'
<1>0. PICK h : h = call[t].host
  OBVIOUS
<1>1. pc[t] = "add_context" /\ Delivers(t, "added", h)
      /\ known' = known \cup {h} /\ pending' = [pending EXCEPT ![h] = {}]
      /\ UNCHANGED <<ctrlVars, schedShutdown, hostVars, lockVars, uiVars, call>>
  BY <1>0 DEF AddToContext
<1>2. ThreadOK(t, pc[t], call[t], cb[t]) /\ (ctrlLock = t <=> OwnsController(t, pc[t]))
      /\ (regLock = t <=> OwnsRegistry(t, pc[t]))
  BY OfThread
<1>3. t \in CallerThreads /\ t \in Operators /\ t \notin NestedThreads /\ t # Scheduler /\ t \notin RemoveThreads
  BY <1>1, <1>2, Kinds DEF ThreadOK, RemoverOK, ConnOK, WorkOK, Thread, Operators, NestedThreads
<1>4. ctrlLock = t /\ HasHost(h) /\ h \in Hosts /\ pc[<<"conn", IncOf(h)>>] = "unused"
  BY <1>0, <1>1, <1>2, <1>3, OfThread DEF OwnsController, OwnerOK, HasHost
<1>5. Others({t}) /\ pc'[t] = "notify" /\ cb'[t] = MkCallback("added", h)
      /\ pc' \in [Thread -> Places] /\ cb' \in [Thread -> Callback]
  BY <1>1, <1>4 DEF IInv, TypeOK, Delivers, Goto, Others, Places, MkCallback, Callback, CallbackKinds
<1>6. MovedWell(t) /\ LocksWell(t)
  BY <1>0, <1>1, <1>2, <1>3, <1>4, <1>5, Kinds DEF MovedWell, LocksWell, ThreadOK, CallerOK, MkCallback,
     OwnsController, OwnsRegistry, lockVars, NestedThreads, Operators
<1>7. PICK i \in Inc : i = IncOf(h)
  BY <1>4, RegisteredInc DEF IInv
<1>8. pc'[<<"conn", i>>] = "unused" /\ IncOf(h)' = i /\ HasHost(h)'
  <2>1. <<"conn", i>> \in Thread \ {t}
    BY <1>3, Kinds DEF Thread, NestedThreads
  <2> QED  BY <1>1, <1>4, <1>5, <1>7, <2>1 DEF Others, IncOf, HasHost, ctrlVars
<1>9. OwnerOK(t, pc[t], call[t], cb[t])'
  BY <1>0, <1>1, <1>5, <1>8 DEF OwnerOK, MkCallback
<1>10. /\ ThreadsInv' /\ InboxInv' /\ LocksHeld' /\ OwnerInv'
       /\ \A j \in Inc : pc'[<<"conn", j>>] = pc[<<"conn", j>>] /\ pc'[Work(j)] = pc[Work(j)]
       /\ \A u \in CallerThreads : pc'[u] # "add_context"
  BY <1>1, <1>3, <1>4, <1>5, <1>6, <1>9, OperatorStep DEF ctrlVars, uiVars, lockVars
<1>11. pending' \in [Hosts -> SUBSET Tasks] /\ pending'[h] = {} /\ \A g \in Hosts : g # h => pending'[g] = pending[g]
  BY <1>1, <1>4 DEF IInv, TypeOK
<1>12. TypeOK'
  <2>1. shutdown' \in BOOLEAN /\ schedShutdown' \in BOOLEAN /\ gone' \in BOOLEAN
    BY <1>1, Zenon DEF IInv, TypeOK, ctrlVars, uiVars
  <2> QED  BY <1>1, <1>4, <1>5, <1>11, <2>1 DEF IInv, TypeOK, ctrlVars, hostVars, lockVars, uiVars
<1>13. HostsInv'
  BY <1>1, <1>5, HostsFrame DEF IInv, ctrlVars, AddsWell
<1>14. LifeInv'
  <2> SUFFICES ASSUME NEW j \in Inc
               PROVE  LifeOK(j)'
    BY DEF LifeInv
  <2>1. LifeOK(j)
    BY DEF IInv, LifeInv
  <2> QED  BY <1>1, <1>10, <2>1 DEF LifeOK, IncOf, ctrlVars, hostVars
<1>15. BookInv'
  <2>1. queue[i] = <<>> /\ ~closed[i] /\ job[i] = NoJob
    <3>1. queue[i] = <<>> /\ ~closed[i]
      BY <1>0, <1>1, <1>3, <1>7 DEF IInv, BookInv
    <3>2. LifeOK(i)
      BY DEF IInv, LifeInv
    <3> QED  BY <1>4, <1>7, <3>1, <3>2 DEF LifeOK
  <2>2. KnownOK(h)'
    <3>1. queue'[i] = <<>> /\ ~closed'[i] /\ job'[i] = NoJob
      BY <1>1, <2>1 DEF hostVars
    <3>2. \A a : Periodic(a) # NoJob
      BY DEF Periodic, NoJob
    <3>3. DOMAIN queue'[i] = {}
      BY <3>1
    <3> QED  BY <1>8, <1>11, <3>1, <3>2, <3>3 DEF KnownOK, OneJobPerTask, TaskInHands
  <2>3. ASSUME NEW g \in known, g # h
        PROVE  KnownOK(g)'
    <3>1. KnownOK(g) /\ g \in Hosts
      BY DEF IInv, BookInv, TypeOK
    <3> QED  BY <1>1, <1>11, <2>3, <3>1, KnownStays DEF ctrlVars, hostVars
  <2> QED  BY <1>1, <1>10, <2>2, <2>3 DEF BookInv
<1> QED  BY <1>10, <1>12, <1>13, <1>14, <1>15 DEF IInv

-----------------------------------------------------------------------------
(* Steps of a worker.                                                      *)

\* A worker between its jobs, or in one and not in a callback.
AtWork == {"pop", "run", "post"}

\* What a step of the worker of incarnation i leaves to show.
LEMMA WorkerMoves ==
  ASSUME IInv, NEW i \in Inc, Others({Work(i)}), pc[Work(i)] \in AtWork, pc'[Work(i)] \in AtWork,
         UNCHANGED <<ctrlVars, schedShutdown, known, closed, joinable, alive, lockVars, uiVars, call, cb>>,
         pc' \in [Thread -> Places], queue' \in [Inc -> Seq(Job)], job' \in [Inc -> Job \cup {NoJob}],
         pending' \in [Hosts -> SUBSET Tasks],
         \A j \in Inc \ {i} : queue'[j] = queue[j] /\ job'[j] = job[j],
         queue[i] = <<>> => queue'[i] = <<>>,
         pc'[Work(i)] = "pop" <=> job'[i] = NoJob,
         pc'[Work(i)] = "post" => job'[i].kind = "periodic",
         \A g \in known : IF IncOf(g) = i THEN KnownOK(g)' ELSE pending'[g] = pending[g]
  PROVE  IInv'
<1> DEFINE t == Work(i)
<1>1. t \in WorkThreads /\ t \in Thread /\ t \in NestedThreads /\ t \notin ConnThreads /\ t \notin CallerThreads
      /\ t \notin RemoveThreads /\ t \notin Operators /\ t # Scheduler
  BY Kinds DEF Thread, NestedThreads, Operators
<1>2. ThreadOK(t, pc[t], call[t], cb[t]) /\ (ctrlLock = t <=> OwnsController(t, pc[t]))
      /\ (regLock = t <=> OwnsRegistry(t, pc[t]))
  BY <1>1, OfThread
<1>3. MovedWell(t) /\ LocksWell(t) /\ KeepLocks({t})
  BY <1>1, <1>2 DEF MovedWell, LocksWell, KeepLocks, ThreadOK, WorkOK, NestedOK, OwnsController, OwnsRegistry,
     lockVars, AtWork
<1>4. ThreadsInv' /\ LocksHeld' /\ InboxInv'
  BY <1>3, ThreadsFrame, LocksFrame DEF IInv, InboxInv, uiVars, ctrlVars
<1>5. HostsInv' /\ OwnerInv'
  BY <1>1, HostsFrame, OwnerFrame DEF IInv, AddsWell, ctrlVars
<1>6. TypeOK'
  <2>1. shutdown' \in BOOLEAN /\ schedShutdown' \in BOOLEAN /\ gone' \in BOOLEAN
    BY Zenon DEF IInv, TypeOK, ctrlVars, uiVars
  <2> QED  BY <2>1 DEF IInv, TypeOK, ctrlVars, lockVars, uiVars
<1>7. \A j \in Inc : pc'[<<"conn", j>>] = pc[<<"conn", j>>] /\ (j # i => pc'[Work(j)] = pc[Work(j)])
  <2>1. \A j \in Inc : <<"conn", j>> \in Thread \ {t} /\ (j # i => Work(j) \in Thread \ {t})
    BY <1>1, Kinds DEF Thread
  <2> QED  BY <2>1 DEF Others
<1>8. pc[<<"conn", i>>] # "unused" /\ LifeOK(i)
  BY DEF AtWork, IInv, LifeInv, LifeOK
<1>9. LifeInv'
  <2> SUFFICES ASSUME NEW j \in Inc
               PROVE  LifeOK(j)'
    BY DEF LifeInv
  <2>1. LifeOK(j)
    BY DEF IInv, LifeInv
  <2>2. CASE j = i
    BY <1>7, <1>8, <2>2 DEF LifeOK, IncOf, ctrlVars, AtWork
  <2>3. CASE j # i
    BY <1>7, <2>1, <2>3 DEF LifeOK, IncOf, ctrlVars
  <2> QED  BY <2>2, <2>3
<1>10. BookInv'
  <2>1. ASSUME NEW g \in known
        PROVE  KnownOK(g)'
    <3>1. KnownOK(g) /\ IncOf(g) \in Inc
      BY RegisteredInc DEF IInv, BookInv, KnownOK
    <3>2. ASSUME IncOf(g) # i
          PROVE  KnownOK(g)'
      <4>1. queue'[IncOf(g)] = queue[IncOf(g)] /\ job'[IncOf(g)] = job[IncOf(g)] /\ pending'[g] = pending[g]
        BY <3>1, <3>2
      <4> QED  BY <3>1, <4>1, KnownStays DEF ctrlVars
    <3> QED  BY <3>2
  <2>2. ASSUME NEW u \in CallerThreads, pc'[u] = "add_context"
        PROVE  queue'[IncOf(call[u].host)] = <<>> /\ ~closed[IncOf(call[u].host)]
    <3>1. u \in Thread /\ u \in Operators /\ pc[u] = "add_context"
      BY <1>1, <2>2 DEF Thread, Operators, Others
    <3>2. HasHost(call[u].host) /\ pc[<<"conn", IncOf(call[u].host)>>] = "unused"
      BY <3>1, OfThread DEF OwnsController, OwnerOK
    <3>3. IncOf(call[u].host) # i /\ IncOf(call[u].host) \in Inc
      BY <1>8, <3>2, RegisteredInc DEF IInv
    <3> QED  BY <2>2, <3>1, <3>3 DEF IInv, BookInv
  <2> QED  BY <2>1, <2>2 DEF BookInv, IncOf, ctrlVars
<1> QED  BY <1>4, <1>5, <1>6, <1>9, <1>10 DEF IInv

\* The first job of a queue leaves it.
LEMMA PopTask ==
  ASSUME NEW q \in Seq(Job), q # <<>>, NEW t
  PROVE  /\ InQueue(q, t) <=> Head(q) = Periodic(t) \/ InQueue(Tail(q), t)
         /\ OneInQueue(q, t) => OneInQueue(Tail(q), t)
         /\ OneInQueue(q, t) /\ Head(q) = Periodic(t) => ~InQueue(Tail(q), t)
<1> DEFINE r == Tail(q)
<1>1. /\ Head(q) = q[1] /\ DOMAIN q = 1..Len(q) /\ Len(q) \in Nat \ {0}
      /\ DOMAIN r = 1..(Len(q) - 1) /\ \A k \in 1..(Len(q) - 1) : r[k] = q[k + 1]
  BY ONLY q \in Seq(Job), q # <<>>, TailEntries
<1>2. \A k \in DOMAIN r : k + 1 \in DOMAIN q /\ k + 1 # 1 /\ r[k] = q[k + 1] /\ k \in Int
  BY <1>1
<1>3. \A k \in DOMAIN q : k = 1 \/ (k - 1 \in DOMAIN r /\ r[k - 1] = q[k])
  BY <1>1
<1>4. 1 \in DOMAIN q
  BY <1>1
<1>5. OneInQueue(q, t) => OneInQueue(r, t)
  <2> SUFFICES ASSUME OneInQueue(q, t), NEW k \in DOMAIN r, NEW m \in DOMAIN r,
                      r[k] = Periodic(t), r[m] = Periodic(t)
               PROVE  k = m
    BY DEF OneInQueue
  <2>1. k + 1 = m + 1 /\ k \in Int /\ m \in Int
    BY <1>2 DEF OneInQueue
  <2> QED  BY <2>1
<1> QED  BY <1>1, <1>2, <1>3, <1>4, <1>5 DEF InQueue, OneInQueue

\* The worker takes the first job.
LEMMA WorkerPopStep ==
  ASSUME IInv, NEW i \in Inc, WorkerPop(i)
  PROVE  IInv'
<1> DEFINE t == Work(i)  q == queue[i]
<1>1. pc[t] = "pop" /\ q # <<>> /\ Goto(t, "run")
      /\ job' = [job EXCEPT ![i] = Head(q)] /\ queue' = [queue EXCEPT ![i] = Tail(q)]
      /\ UNCHANGED <<ctrlVars, schedVars, closed, joinable, alive, lockVars, uiVars, call, cb>>
  BY DEF WorkerPop
<1>2. t \in Thread
  BY Kinds DEF Thread
<1>3. Others({t}) /\ pc'[t] = "run" /\ pc' \in [Thread -> Places]
  BY <1>1, <1>2 DEF IInv, TypeOK, Goto, Others, Places
<1>4. queue \in [Inc -> Seq(Job)] /\ job \in [Inc -> Job \cup {NoJob}]
  BY DEF IInv, TypeOK
<1>5. q \in Seq(Job)
  BY <1>4
<1>6. Tail(q) \in Seq(Job) /\ Head(q) \in Job
  BY ONLY <1>1, <1>5, TailEntries
<1>7. /\ queue' \in [Inc -> Seq(Job)] /\ job' \in [Inc -> Job \cup {NoJob}]
      /\ queue'[i] = Tail(q) /\ job'[i] = Head(q)
      /\ \A j \in Inc \ {i} : queue'[j] = queue[j] /\ job'[j] = job[j]
  BY <1>1, <1>4, <1>6
<1>8. job'[i] # NoJob
  BY <1>6, <1>7 DEF Job, NoJob
<1>9. ASSUME NEW g \in known, IncOf(g) = i
      PROVE  KnownOK(g)'
  <2>1. KnownOK(g) /\ job[i] = NoJob
    BY <1>1 DEF IInv, BookInv, LifeInv, LifeOK
  <2>2. HasHost(g)' /\ IncOf(g)' = i /\ ~closed'[i]
    BY <1>1, <1>9, <2>1 DEF KnownOK, HasHost, IncOf, ctrlVars
  <2>3. ASSUME NEW a \in Tasks, ~schedShutdown
        PROVE  OneJobPerTask(i, a)' /\ (a \in pending'[g] <=> TaskInHands(i, a)')
    <3>1. OneJobPerTask(i, a) /\ (a \in pending[g] <=> TaskInHands(i, a))
      BY <1>9, <2>1, <2>3 DEF KnownOK
    <3>2. OneInQueue(q, a) /\ (a \in pending[g] <=> InQueue(q, a))
      BY <2>1, <3>1 DEF OneJobPerTask, TaskInHands, OneInQueue, InQueue, Periodic, NoJob
    <3>3. /\ InQueue(q, a) <=> Head(q) = Periodic(a) \/ InQueue(Tail(q), a)
          /\ OneInQueue(Tail(q), a) /\ (Head(q) = Periodic(a) => ~InQueue(Tail(q), a))
      BY ONLY <1>1, <1>5, <3>2, PopTask
    <3> QED  BY <1>1, <1>7, <3>2, <3>3 DEF OneJobPerTask, TaskInHands, OneInQueue, InQueue, schedVars
  <2> QED  BY <1>1, <2>2, <2>3 DEF KnownOK, schedVars
<1> QED  BY <1>1, <1>3, <1>7, <1>8, <1>9, WorkerMoves DEF schedVars, AtWork, IInv, TypeOK

\* A job that ends without a callback.
LEMMA RunQuietlyStep ==
  ASSUME IInv, NEW i \in Inc, RunQuietly(i)
  PROVE  IInv'
<1> DEFINE t == Work(i)
<1>1. pc[t] = "run"
      /\ (\/ job[i].kind = "async" /\ Goto(t, "pop") /\ job' = [job EXCEPT ![i] = NoJob]
          \/ job[i].kind = "periodic" /\ Goto(t, "post") /\ job' = job)
      /\ UNCHANGED <<ctrlVars, schedVars, queue, closed, joinable, alive, lockVars, uiVars, call, cb>>
  BY DEF RunQuietly
<1>2. t \in Thread
  BY Kinds DEF Thread
<1>3. Others({t}) /\ pc' \in [Thread -> Places]
      /\ (\/ job[i].kind = "async" /\ pc'[t] = "pop" /\ job'[i] = NoJob
          \/ job[i].kind = "periodic" /\ pc'[t] = "post" /\ job'[i] = job[i])
  BY <1>1, <1>2 DEF IInv, TypeOK, Goto, Others, Places
<1>4. job' \in [Inc -> Job \cup {NoJob}] /\ \A j \in Inc \ {i} : job'[j] = job[j]
  BY <1>1 DEF IInv, TypeOK
<1>5. job[i] # NoJob
  BY <1>1 DEF IInv, LifeInv, LifeOK
<1>6. ASSUME NEW g \in known, IncOf(g) = i
      PROVE  KnownOK(g)'
  <2>1. \A a \in Tasks : job'[i] = Periodic(a) <=> job[i] = Periodic(a)
    BY <1>3 DEF Periodic, NoJob
  <2>2. KnownOK(g)
    BY DEF IInv, BookInv
  <2> QED  BY <1>1, <1>6, <2>1, <2>2, KnownStays DEF ctrlVars, schedVars
<1> QED  BY <1>1, <1>3, <1>4, <1>5, <1>6, WorkerMoves DEF schedVars, AtWork, IInv, TypeOK

\* handle_post_execution clears the pending flag of the job that ends.
LEMMA PostExecutionStep ==
  ASSUME IInv, NEW i \in Inc, PostExecution(i)
  PROVE  IInv'
<1>0. PICK h : h = i[1]
  OBVIOUS
<1> DEFINE t == Work(i)  a == job[i].task
<1>1. pc[t] = "post" /\ Goto(t, "pop") /\ job' = [job EXCEPT ![i] = NoJob] /\ (schedShutdown \/ h \in known)
      /\ pending' = (IF schedShutdown THEN pending ELSE [pending EXCEPT ![h] = pending[h] \ {job[i].task}])
      /\ UNCHANGED <<ctrlVars, schedShutdown, known, queue, closed, joinable, alive, lockVars, uiVars, call, cb>>
  BY <1>0 DEF PostExecution
<1>2. t \in Thread
  BY Kinds DEF Thread
<1>3. Others({t}) /\ pc' \in [Thread -> Places] /\ pc'[t] = "pop"
  BY <1>1, <1>2 DEF IInv, TypeOK, Goto, Others, Places
<1>4. job' \in [Inc -> Job \cup {NoJob}] /\ job'[i] = NoJob /\ \A j \in Inc \ {i} : job'[j] = job[j]
  BY <1>1 DEF IInv, TypeOK
<1>5. i = IncOf(h) /\ h \in Hosts /\ job[i].kind = "periodic" /\ job[i] \in Job
  <2>1. LifeOK(i)
    BY DEF IInv, LifeInv
  <2>2. i = IncOf(h) /\ job[i].kind = "periodic"
    BY <1>0, <1>1, <2>1 DEF LifeOK
  <2> QED  BY <1>0, <2>2 DEF IInv, TypeOK, NoJob, Inc
<1>6. PICK b \in Tasks : b = job[i].task /\ job[i] = Periodic(b)
  BY <1>5 DEF Job, Periodic
<1>7. /\ pending' \in [Hosts -> SUBSET Tasks]
      /\ \A g \in Hosts \ {h} : pending'[g] = pending[g]
      /\ ~schedShutdown => pending'[h] = pending[h] \ {b}
  BY <1>1, <1>5, <1>6 DEF IInv, TypeOK
<1>8. ASSUME NEW g \in known, IncOf(g) = i
      PROVE  KnownOK(g)'
  <2>1. g = h /\ KnownOK(g)
    BY <1>5, <1>8 DEF IncOf, IInv, BookInv
  <2>2. HasHost(g)' /\ IncOf(g)' = i /\ ~closed'[i]
    BY <1>1, <1>8, <2>1 DEF KnownOK, HasHost, IncOf, ctrlVars
  <2>3. ASSUME NEW c \in Tasks, ~schedShutdown
        PROVE  OneJobPerTask(i, c)' /\ (c \in pending'[g] <=> TaskInHands(i, c)')
    <3>1. OneJobPerTask(i, c) /\ (c \in pending[g] <=> TaskInHands(i, c))
      BY <1>8, <2>1, <2>3 DEF KnownOK
    <3>2. job'[i] # Periodic(c) /\ queue' = queue /\ (c \in pending'[g] <=> c \in pending[g] /\ c # b)
      BY <1>1, <1>4, <1>7, <2>1, <2>3 DEF Periodic, NoJob
    <3>3. job[i] = Periodic(c) <=> c = b
      BY <1>6 DEF Periodic
    <3> QED  BY <3>1, <3>2, <3>3 DEF OneJobPerTask, TaskInHands
  <2> QED  BY <1>1, <2>2, <2>3 DEF KnownOK
<1>9. \A g \in known : IncOf(g) # i => pending'[g] = pending[g]
  BY <1>5, <1>7 DEF IInv, TypeOK
<1> QED  BY <1>1, <1>3, <1>4, <1>7, <1>8, <1>9, WorkerMoves DEF AtWork, IInv, TypeOK

-----------------------------------------------------------------------------
(* The first steps of an incarnation.                                      *)

\* add_host makes a new incarnation, which nobody has ever seen.
LEMMA AddHostStep ==
  ASSUME IInv, NEW t \in Thread, AddHost(t)
  PROVE  IInv'
<1>0. PICK h : h = call[t].host
  OBVIOUS
<1> DEFINE i == <<h, adds[h] + 1>>
<1>1. /\ pc[t] = "enter" /\ ctrlLock = None /\ call[t].op = "add" /\ ~HasHost(h)
      /\ adds' = [adds EXCEPT ![h] = adds[h] + 1]
      /\ hostControllers' = [hostControllers EXCEPT ![h] = adds[h] + 1]
      /\ config' = [config EXCEPT ![h] = "off"]
      /\ alive' = [alive EXCEPT ![i] = "alive"]
      /\ ctrlLock' = t /\ Goto(t, "add_context")
      /\ UNCHANGED <<scenario, shutdown, schedVars, queue, closed, joinable, job, regLock, uiVars, call, cb>>
  <2>1. adds \in [Hosts -> 0..MaxAdds] /\ h \in Hosts
    <3>1. ThreadOK(t, pc[t], call[t], cb[t])
      BY OfThread
    <3> QED  BY <1>0, <3>1 DEF AddHost, Enters, IInv, TypeOK, ThreadOK, CallerOK, RemoverOK, ConnOK, WorkOK, NestedOK, Thread
  <2> QED  BY <1>0, <2>1 DEF AddHost, Enters
<1>2. ThreadOK(t, pc[t], call[t], cb[t]) /\ (ctrlLock = t <=> OwnsController(t, pc[t]))
      /\ (regLock = t <=> OwnsRegistry(t, pc[t]))
  BY OfThread
<1>3. t \in CallerThreads /\ t \in Operators /\ t \notin NestedThreads /\ t # Scheduler /\ t \notin RemoveThreads
      /\ h \in Hosts
  BY <1>0, <1>1, <1>2, Kinds DEF ThreadOK, CallerOK, RemoverOK, ConnOK, WorkOK, NestedOK, Thread, Operators, NestedThreads
<1>4. Others({t}) /\ pc'[t] = "add_context" /\ pc' \in [Thread -> Places]
  BY <1>1 DEF IInv, TypeOK, Goto, Others, Places
<1>5. MovedWell(t) /\ LocksWell(t)
  BY <1>1, <1>2, <1>3, <1>4, Kinds DEF MovedWell, LocksWell, ThreadOK, CallerOK,
     OwnsController, OwnsRegistry, NestedThreads, Operators
<1>6. adds[h] \in Nat /\ adds[h] < scenario.adds /\ scenario.adds \in 0..MaxAdds /\ adds[h] + 1 \in 1..MaxAdds /\ i \in Inc
  <2>1. adds \in [Hosts -> 0..MaxAdds] /\ scenario.adds \in 0..MaxAdds
    BY ControllerAssumption DEF IInv, TypeOK
  <2>2. adds[h] < scenario.adds
    BY <1>0, <1>1, <1>3 DEF IInv, HostsInv
  <2> QED  BY <1>3, <2>1, <2>2, ControllerAssumption DEF Inc
<1>7. PICK k \in Inc : k = i
  BY <1>6
<1>8. /\ adds' \in [Hosts -> 0..MaxAdds] /\ adds'[h] = adds[h] + 1
      /\ \A g \in Hosts : g # h => adds'[g] = adds[g]
      /\ hostControllers' \in [Hosts -> 0..MaxAdds] /\ hostControllers'[h] = adds[h] + 1
      /\ \A g \in Hosts : g # h => hostControllers'[g] = hostControllers[g]
  BY <1>1, <1>3, <1>6, ControllerAssumption DEF IInv, TypeOK
<1>9. /\ config' \in [Hosts -> {"absent", "off", "on"}] /\ config'[h] = "off"
      /\ \A g \in Hosts : g # h => config'[g] = config[g]
  BY <1>1, <1>3 DEF IInv, TypeOK
<1>10. alive' \in [Inc -> {"unborn", "alive", "destroyed"}] /\ alive'[k] = "alive"
       /\ \A j \in Inc : j # k => alive'[j] = alive[j]
  BY <1>1, <1>7 DEF IInv, TypeOK
<1>11. IncOf(h)' = k /\ HasHost(h)' /\ h \notin known
  <2>1. IncOf(h)' = k
    BY <1>7, <1>8 DEF IncOf
  <2>2. HasHost(h)'
    BY <1>3, <1>6, <1>8 DEF HasHost
  <2>3. h \notin known
    BY <1>1 DEF IInv, BookInv, KnownOK
  <2> QED  BY <2>1, <2>2, <2>3
<1>12. LifeOK(k) /\ pc[<<"conn", k>>] = "unused" /\ queue[k] = <<>> /\ ~closed[k] /\ k[1] = h /\ k[2] = adds[h] + 1
  <2>1. LifeOK(k) /\ k[1] = h /\ k[2] = adds[h] + 1
    BY <1>7 DEF IInv, LifeInv
  <2>2. k[2] > adds[k[1]]
    BY <1>6, <2>1
  <2> QED  BY <2>1, <2>2 DEF LifeOK
<1>13. OwnerOK(t, pc[t], call[t], cb[t])'
  <2>1. pc'[<<"conn", k>>] = "unused"
    <3>1. <<"conn", k>> \in Thread \ {t}
      BY <1>3, Kinds DEF Thread, NestedThreads
    <3> QED  BY <1>4, <1>12, <3>1 DEF Others
  <2> QED  BY <1>0, <1>1, <1>4, <1>11, <2>1 DEF OwnerOK, schedVars
<1>14. /\ ThreadsInv' /\ InboxInv' /\ LocksHeld' /\ OwnerInv'
       /\ \A j \in Inc : pc'[<<"conn", j>>] = pc[<<"conn", j>>] /\ pc'[Work(j)] = pc[Work(j)]
       /\ \A u \in CallerThreads \ {t} : pc'[u] # "add_context"
  BY <1>1, <1>3, <1>4, <1>5, <1>13, OperatorStep DEF uiVars
<1>15. TypeOK'
  <2>1. shutdown' \in BOOLEAN /\ schedShutdown' \in BOOLEAN /\ gone' \in BOOLEAN
    BY <1>1, Zenon DEF IInv, TypeOK, schedVars, uiVars
  <2> QED  BY <1>1, <1>4, <1>8, <1>9, <1>10, <2>1 DEF IInv, TypeOK, schedVars, uiVars
<1>16. HostsInv'
  <2>1. ASSUME NEW g \in Hosts
        PROVE  /\ adds'[g] <= scenario'.adds
               /\ hostControllers'[g] \in {0, adds'[g]}
               /\ HasHost(g)' => config'[g] # "absent"
    <3>1. CASE g = h
      BY <1>1, <1>6, <1>8, <1>9, <3>1
    <3>2. CASE g # h
      BY <1>1, <1>8, <1>9, <3>2 DEF IInv, HostsInv, HasHost
    <3> QED  BY <3>1, <3>2
  <2>2. \A u \in CallerThreads : pc'[u] = "enter" => pc[u] = "enter" /\ call'[u] = call[u] /\ u # t
    BY <1>1, <1>4 DEF Others, Thread
  <2>3. ASSUME NEW u \in CallerThreads, pc'[u] = "enter", call'[u].op = "add"
        PROVE  adds'[call'[u].host] < scenario'.adds
    <3>1. pc[u] = "enter" /\ call'[u] = call[u] /\ u # t
      BY <2>2, <2>3
    <3>2. adds[call[u].host] < scenario.adds /\ call[u].host # h
      BY <1>0, <1>1, <1>3, <2>3, <3>1 DEF IInv, HostsInv
    <3>3. call[u].host \in Hosts
      BY <2>3, <3>1, OfThread DEF Thread, ThreadOK, CallerOK
    <3> QED  BY <1>1, <1>8, <3>1, <3>2, <3>3
  <2>4. \A u, v \in CallerThreads :
          pc'[u] = "enter" /\ call'[u].op = "add" /\ pc'[v] = "enter" /\ call'[v].op = "add"
          /\ call'[v].host = call'[u].host => u = v
    BY <2>2 DEF IInv, HostsInv
  <2> QED  BY <2>1, <2>3, <2>4 DEF HostsInv
<1>17. LifeInv'
  <2> SUFFICES ASSUME NEW j \in Inc
               PROVE  LifeOK(j)'
    BY DEF LifeInv
  <2>1. LifeOK(j)
    BY DEF IInv, LifeInv
  <2>2. CASE j = k
    <3>1. k = IncOf(k[1])'
      BY <1>11, <1>12
    <3>2. ~(k[2] > adds'[k[1]])
      BY <1>6, <1>8, <1>12
    <3> QED  BY <1>1, <1>10, <1>12, <1>14, <2>2, <3>1, <3>2 DEF LifeOK
  <2>3. CASE j # k
    <3>1. j[1] \in Hosts /\ j[2] \in 1..MaxAdds /\ j = <<j[1], j[2]>>
      BY DEF Inc
    <3>2. j = IncOf(j[1]) <=> j = IncOf(j[1])'
      <4>1. CASE j[1] = h
        <5>1. j # IncOf(h)' /\ IncOf(h) = <<h, 0>>
          BY <1>1, <1>3, <1>11, <2>3 DEF IncOf, HasHost
        <5> QED  BY <3>1, <4>1, <5>1
      <4>2. CASE j[1] # h
        BY <1>8, <3>1, <4>2 DEF IncOf
      <4> QED  BY <4>1, <4>2
    <3>3. j[2] > adds'[j[1]] => j[2] > adds[j[1]]
      <4>1. CASE j[1] = h
        BY <1>6, <1>8, <3>1, <4>1, ControllerAssumption
      <4>2. CASE j[1] # h
        BY <1>8, <3>1, <4>2
      <4> QED  BY <4>1, <4>2
    <3> QED  BY <1>1, <1>10, <1>14, <2>1, <2>3, <3>2, <3>3 DEF LifeOK
  <2> QED  BY <2>2, <2>3
<1>18. BookInv'
  <2>1. ASSUME NEW g \in known
        PROVE  KnownOK(g)'
    <3>1. KnownOK(g) /\ g \in Hosts /\ g # h
      BY <1>11 DEF IInv, BookInv, TypeOK
    <3> QED  BY <1>1, <1>8, <3>1, KnownStays DEF schedVars
  <2>2. queue'[IncOf(call[t].host)'] = <<>> /\ ~closed'[IncOf(call[t].host)']
    <3>1. IncOf(call[t].host)' = k
      BY <1>0, <1>1, <1>11 DEF IncOf
    <3> QED  BY <1>1, <1>12, <3>1
  <2> QED  BY <1>1, <1>14, <2>1, <2>2 DEF BookInv, schedVars
<1> QED  BY <1>14, <1>15, <1>16, <1>17, <1>18 DEF IInv

\* The connection is there: the worker starts, and the handlers are told.
LEMMA ConnectSucceedsStep ==
  ASSUME IInv, NEW i \in Inc, ConnectSucceeds(i)
  PROVE  IInv'
<1> DEFINE t == <<"conn", i>>  w == Work(i)
<1>1. /\ pc[t] = "connect" /\ alive[i] = "alive" /\ joinable' = [joinable EXCEPT ![i] = TRUE]
      /\ pc' = [pc EXCEPT ![t] = "notify", ![w] = "pop"]
      /\ cb' = [cb EXCEPT ![t] = MkCallback("connected", i[1])]
      /\ UNCHANGED <<ctrlVars, schedVars, queue, closed, alive, job, lockVars, uiVars, call>>
  BY DEF ConnectSucceeds, Work
<1>2. /\ t \in ConnThreads /\ t \in Thread /\ t \in NestedThreads /\ t \notin WorkThreads /\ t \notin Operators
      /\ w \in WorkThreads /\ w \in Thread /\ w \in NestedThreads /\ w \notin ConnThreads /\ w \notin Operators /\ w # t
      /\ t \notin CallerThreads /\ w \notin CallerThreads /\ t \notin RemoveThreads /\ w \notin RemoveThreads
      /\ t # Scheduler /\ w # Scheduler /\ i[1] \in Hosts
  BY Kinds DEF Thread, NestedThreads, Operators, Inc
<1>3. Others({t, w}) /\ pc'[t] = "notify" /\ pc'[w] = "pop" /\ cb'[t] = MkCallback("connected", i[1]) /\ cb'[w] = cb[w]
      /\ pc' \in [Thread -> Places] /\ cb' \in [Thread -> Callback]
  BY <1>1, <1>2 DEF IInv, TypeOK, Others, Places, Callback, CallbackKinds, MkCallback
<1>4. LifeOK(i) /\ pc[w] = "unused" /\ ~(i[2] > adds[i[1]]) /\ job[i] = NoJob
  BY <1>1 DEF IInv, LifeInv, LifeOK
<1>5. MovedWell(t) /\ LocksWell(t)
  <2>1. ThreadOK(t, pc[t], call[t], cb[t]) /\ (ctrlLock = t <=> OwnsController(t, pc[t]))
        /\ (regLock = t <=> OwnsRegistry(t, pc[t]))
    BY <1>2, OfThread
  <2> QED  BY <1>1, <1>2, <1>3, <2>1 DEF MovedWell, LocksWell, ThreadOK, ConnOK, NestedOK, MkCallback, OwnsController,
           OwnsRegistry, lockVars
<1>6. MovedWell(w) /\ LocksWell(w)
  <2>1. ThreadOK(w, pc[w], call[w], cb[w]) /\ (ctrlLock = w <=> OwnsController(w, pc[w]))
        /\ (regLock = w <=> OwnsRegistry(w, pc[w]))
    BY <1>2, OfThread
  <2> QED  BY <1>1, <1>2, <1>3, <1>4, <2>1 DEF MovedWell, LocksWell, ThreadOK, WorkOK, NestedOK, OwnsController,
           OwnsRegistry, lockVars
<1>7. KeepLocks({t, w}) /\ InboxInv'
  BY <1>1 DEF KeepLocks, lockVars, IInv, InboxInv, uiVars
<1>8. ThreadsInv' /\ LocksHeld'
  BY <1>1, <1>3, <1>5, <1>6, <1>7, ThreadsFrame, LocksFrame DEF IInv, ctrlVars
<1>9. HostsInv' /\ OwnerInv'
  BY <1>1, <1>2, <1>3, HostsFrame, OwnerFrame DEF IInv, ctrlVars, schedVars, AddsWell
<1>10. joinable' \in [Inc -> BOOLEAN] /\ joinable'[i] /\ \A j \in Inc : j # i => joinable'[j] = joinable[j]
  <2>1. joinable \in [Inc -> BOOLEAN]
    BY DEF IInv, TypeOK
  <2> QED  BY <1>1, <2>1
<1>11. TypeOK'
  <2>1. shutdown' \in BOOLEAN /\ schedShutdown' \in BOOLEAN /\ gone' \in BOOLEAN
    BY <1>1, Zenon DEF IInv, TypeOK, ctrlVars, schedVars, uiVars
  <2> QED  BY <1>1, <1>3, <1>10, <2>1 DEF IInv, TypeOK, ctrlVars, schedVars, lockVars, uiVars
<1>12. LifeInv'
  <2> SUFFICES ASSUME NEW j \in Inc
               PROVE  LifeOK(j)'
    BY DEF LifeInv
  <2>1. CASE j = i
    BY <1>1, <1>3, <1>4, <1>10, <2>1 DEF LifeOK, IncOf, ctrlVars
  <2>2. CASE j # i
    <3>1. <<"conn", j>> \in Thread \ {t, w} /\ Work(j) \in Thread \ {t, w}
      BY <1>2, <2>2, Kinds DEF Thread
    <3>2. pc'[<<"conn", j>>] = pc[<<"conn", j>>] /\ pc'[Work(j)] = pc[Work(j)]
      BY <1>3, <3>1 DEF Others
    <3>3. LifeOK(j)
      BY DEF IInv, LifeInv
    <3> QED  BY <1>1, <1>10, <2>2, <3>2, <3>3 DEF LifeOK, IncOf, ctrlVars
  <2> QED  BY <2>1, <2>2
<1>13. BookInv'
  BY <1>1, <1>2, <1>3, BookFrame DEF IInv, ctrlVars
<1> QED  BY <1>7, <1>8, <1>9, <1>11, <1>12, <1>13 DEF IInv

-----------------------------------------------------------------------------
(* The invariant is inductive.                                             *)

LEMMA InitIInv == Init => IInv
<1> SUFFICES ASSUME Init
             PROVE  IInv
  OBVIOUS
<1>1. TypeOK
  <2>1. shutdown \in BOOLEAN /\ schedShutdown \in BOOLEAN /\ gone \in BOOLEAN
    BY Zenon DEF Init
  <2>2. <<>> \in Seq(Job) /\ <<>> \in Seq(Call) /\ 0 \in 0..MaxAdds /\ 0 \in 0..MaxErrors
    BY ControllerAssumption
  <2>3. queue \in [Inc -> Seq(Job)] /\ inbox \in Seq(Call)
    BY <2>2 DEF Init
  <2> QED  BY <2>1, <2>2, <2>3 DEF Init, TypeOK, Places, NoCall, Call, NoCallback, Callback, Crashes
<1>2. \A t \in Thread : /\ pc[t] = (IF t \in CallerThreads THEN "idle" ELSE IF t = Scheduler THEN "loop" ELSE "unused")
                        /\ cb[t].kind = "none"
  BY DEF Init, NoCallback
<1>3. ThreadsInv
  <2>1. \A t \in Thread : ThreadOK(t, pc[t], call[t], cb[t])
    BY <1>2, Kinds DEF ThreadOK, CallerOK, RemoverOK, ConnOK, WorkOK, NestedOK
  <2> QED  BY <1>2, <2>1 DEF ThreadsInv, NestedThreads, Thread
<1>4. InboxInv
  BY DEF Init, InboxInv
<1>5. LocksHeld
  BY <1>2, NoThreadIsNone DEF Init, LocksHeld, OwnsController, OwnsRegistry
<1>6. HostsInv
  <2>1. scenario.adds \in 0..MaxAdds
    BY ControllerAssumption DEF Init
  <2>2. \A t \in CallerThreads : pc[t] = "idle"
    BY <1>2 DEF Thread
  <2> QED  BY <2>1, <2>2, ControllerAssumption DEF Init, HostsInv, HasHost
<1>7. OwnerInv
  BY <1>2 DEF OwnerInv, OwnsController, Operators, Thread
<1>8. LifeInv
  <2> SUFFICES ASSUME NEW i \in Inc
               PROVE  LifeOK(i)
    BY DEF LifeInv
  <2>1. pc[<<"conn", i>>] = "unused" /\ pc[Work(i)] = "unused"
    BY <1>2, Kinds DEF Thread
  <2>2. i # IncOf(i[1])
    BY ControllerAssumption DEF Init, Inc, IncOf
  <2> QED  BY <2>1, <2>2 DEF Init, LifeOK
<1>9. BookInv
  BY <1>2 DEF Init, BookInv, Thread
<1> QED  BY <1>1, <1>3, <1>4, <1>5, <1>6, <1>7, <1>8, <1>9 DEF IInv

LEMMA NextIInv == IInv /\ [Next]_vars => IInv'
<1> SUFFICES ASSUME IInv, [Next]_vars
             PROVE  IInv'
  OBVIOUS
<1>1. ASSUME NEW t \in CallerThreads, CallerStep(t)
      PROVE  IInv'
  <2>1. CASE UserCalls(t)
    BY <2>1, UserCallsStep
  <2>2. CASE UserRemovesAsync(t)
    BY <2>2, UserRemovesAsyncStep
  <2>3. CASE HandlesEvent(t)
    BY <2>3, HandlesEventStep
  <2>4. CASE DestroyController(t)
    <3>1. gone' \in BOOLEAN /\ crash' \in Crashes
      BY <2>4 DEF DestroyController, IInv, TypeOK
    <3> QED  BY <2>4, <3>1, EndStep DEF DestroyController
  <2> QED  BY <1>1, <2>1, <2>2, <2>3, <2>4 DEF CallerStep
<1>2. ASSUME NEW reason \in Crashes, Terminates(reason)
      PROVE  IInv'
  <2>1. gone' \in BOOLEAN
    BY <1>2, Zenon DEF Terminates, IInv, TypeOK
  <2> QED  BY <1>2, <2>1, EndStep DEF Terminates
<1>3. ASSUME NEW t \in Thread, OperationStep(t)
      PROVE  IInv'
  <2>1. CASE CallThrows(t)
    BY <2>1, CallThrowsStep
  <2>2. CASE AuthorizeHost(t)
    BY <2>2, AuthorizeHostStep
  <2>3. CASE SchedulePeriodicTasks(t)
    BY <2>3, SchedulePeriodicTasksStep
  <2>4. CASE Command(t)
    BY <2>4, CommandStep
  <2>5. CASE AddHost(t)
    BY <2>5, AddHostStep
  <2>6. CASE AddToContext(t)
    BY <2>6, AddToContextStep
  <2>7. CASE AddSpawns(t)
    BY <2>7, AddSpawnsStep
  <2>8. CASE RemoveHost(t)
    BY <2>8, RemoveHostStep
  <2>9. CASE AsyncRemoveThrows(t)
    BY <1>2, <2>9 DEF AsyncRemoveThrows, Crashes
  <2>10. CASE RemoveFromContext(t)
    BY <2>10, RemoveFromContextStep
  <2>11. CASE CloseQueue(t)
    BY <2>11, CloseQueueStep
  <2>12. CASE RemoveUnknownThrows(t)
    BY <1>2, <2>12 DEF RemoveUnknownThrows, Crashes
  <2>13. CASE JoinWorker(t)
    BY <2>13, JoinWorkerStep
  <2>14. CASE EraseHost(t)
    BY <2>14, EraseHostStep
  <2>15. CASE RemoveFromConfig(t)
    BY <2>15, RemoveFromConfigStep
  <2>16. CASE Shutdown(t)
    BY <2>16, ShutdownStep
  <2>17. CASE JoinScheduler(t)
    BY <2>17, JoinSchedulerStep
  <2>18. CASE RemoveNext(t)
    BY <2>18, RemoveNextStep
  <2>19. CASE ShutdownReturns(t)
    BY <2>19, ShutdownReturnsStep
  <2> QED  BY <1>3, <2>1, <2>2, <2>3, <2>4, <2>5, <2>6, <2>7, <2>8, <2>9, <2>10, <2>11, <2>12, <2>13, <2>14,
           <2>15, <2>16, <2>17, <2>18, <2>19 DEF OperationStep
<1>4. ASSUME NEW t \in Thread, CallbackStep(t)
      PROVE  IInv'
  BY <1>4, TakeRegistryStep, HandlerPostsStep, HandlerCallsStep, LeaveCallbackStep DEF CallbackStep
<1>5. ASSUME NEW i \in Inc, ConnectStep(i)
      PROVE  IInv'
  <2>1. CASE ConnectInDestroyed(i)
    BY <1>2, <2>1 DEF ConnectInDestroyed, Crashes
  <2> QED  BY <1>5, <2>1, ConnectFailsStep, ConnectSucceedsStep DEF ConnectStep
<1>6. ASSUME NEW i \in Inc, WorkerStep(i)
      PROVE  IInv'
  <2>1. CASE PostExecutionThrows(i)
    BY <1>2, <2>1 DEF PostExecutionThrows, Crashes
  <2> QED  BY <1>6, <2>1, WorkerPopStep, WorkerExitStep, RunQuietlyStep, RunAndTellStep, PostExecutionStep DEF WorkerStep
<1>7. CASE SchedulerStep
  BY <1>7, ScheduleTaskStep, SchedulerExitStep DEF SchedulerStep
<1>8. CASE DetachedThreadInDestroyed
  BY <1>2, <1>8 DEF DetachedThreadInDestroyed, Crashes
<1>9. CASE UNCHANGED vars
  <2>1. crash' \in Crashes
    BY <1>9 DEF vars, uiVars, IInv, TypeOK
  <2>2. gone' \in BOOLEAN
    BY <1>9, Zenon DEF vars, uiVars, IInv, TypeOK
  <2> QED  BY <1>9, <2>1, <2>2, EndStep DEF vars, uiVars
<1> QED  BY <1>1, <1>3, <1>4, <1>5, <1>6, <1>7, <1>8, <1>9 DEF Next

LEMMA SpecIInv == Spec => []IInv
  BY InitIInv, NextIInv, PTL DEF Spec

-----------------------------------------------------------------------------
(* The results.                                                            *)

\* No operation, callback or job takes a variable of the controller, its hosts, its
\* scheduler or its threads out of its type.
THEOREM TypeCorrect == Spec => []TypeOK
<1>1. IInv => TypeOK
  BY DEF IInv
<1> QED  BY <1>1, SpecIInv, PTL

\* handler.h's promise, kept by for_host_handler and for_periodic_task_handler under
\* the registry's mutex: two threads are never in callbacks at the same time, even if
\* the handlers call the controller from inside them.
THEOREM CallbacksAreExclusive == Spec => []CallbacksExclusive
<1>1. IInv => CallbacksExclusive
  <2> SUFFICES ASSUME IInv
               PROVE  CallbacksExclusive
    OBVIOUS
  <2>1. ASSUME NEW t \in Thread, InCallback(t)
        PROVE  regLock = t
    <3>1. ThreadOK(t, pc[t], call[t], cb[t]) /\ (regLock = t <=> OwnsRegistry(t, pc[t]))
      BY OfThread
    <3>2. cb[t].kind # "none" /\ pc[t] # "notify"
      BY <2>1 DEF InCallback
    <3>3. pc[t] \in {"callback", "leaving"} \/ (t \in NestedThreads /\ pc[t] = "enter")
      BY <3>1, <3>2 DEF ThreadOK, CallerOK, RemoverOK, ConnOK, WorkOK, NestedOK, Thread, NestedThreads
    <3> QED  BY <3>1, <3>3 DEF OwnsRegistry
  <2> QED  BY <2>1 DEF CallbacksExclusive
<1> QED  BY <1>1, SpecIInv, PTL

\* remove_host_ joins the worker before it destroys the host controller: no job runs
\* and no callback is delivered for a host that is gone.
THEOREM WorkerNeverOutlivesHost == Spec => []WorkerOutlivedByHost
<1>1. IInv => WorkerOutlivedByHost
  BY DEF IInv, LifeInv, LifeOK, WorkerOutlivedByHost
<1> QED  BY <1>1, SpecIInv, PTL

\* The scheduler knows only hosts that are registered and configured, and a task is
\* pending exactly while one job for it is queued or running.
THEOREM BookkeepingAlwaysAgrees == Spec => []BookkeepingAgrees
<1>1. IInv => BookkeepingAgrees
  <2> SUFFICES ASSUME IInv
               PROVE  BookkeepingAgrees
    OBVIOUS
  <2>1. \A h \in Hosts : (h \in known => HasHost(h)) /\ (HasHost(h) => config[h] # "absent")
    BY DEF IInv, HostsInv, BookInv, KnownOK
  <2>2. ASSUME ~schedShutdown, NEW h \in known, NEW t \in Tasks
        PROVE  InFlight(IncOf(h), t) = (IF t \in pending[h] THEN 1 ELSE 0)
    <3> DEFINE i == IncOf(h)
               S == {k \in DOMAIN queue[i] : queue[i][k] = Periodic(t)}
    <3>1. OneJobPerTask(i, t) /\ (t \in pending[h] <=> TaskInHands(i, t))
      BY <2>2 DEF IInv, BookInv, KnownOK
    <3>2. CASE job[i] = Periodic(t)
      <4>1. S = {}
        BY <3>1, <3>2 DEF OneJobPerTask
      <4>2. Cardinality(S) = 0
        BY <4>1, FS_EmptySet
      <4> QED  BY <3>1, <3>2, <4>2 DEF InFlight, TaskInHands
    <3>3. CASE job[i] # Periodic(t) /\ S = {}
      <4>1. Cardinality(S) = 0
        BY <3>3, FS_EmptySet
      <4>2. t \notin pending[h]
        BY <3>1, <3>3 DEF TaskInHands
      <4> QED  BY <3>3, <4>1, <4>2 DEF InFlight
    <3>4. CASE job[i] # Periodic(t) /\ S # {}
      <4>1. PICK k \in S : TRUE
        BY <3>4
      <4>2. S = {k}
        BY <3>1, <4>1 DEF OneJobPerTask
      <4>3. Cardinality(S) = 1
        BY <4>2, FS_Singleton
      <4>4. t \in pending[h]
        BY <3>1, <4>1 DEF TaskInHands
      <4> QED  BY <3>4, <4>3, <4>4 DEF InFlight
    <3> QED  BY <3>2, <3>3, <3>4
  <2> QED  BY <2>1, <2>2 DEF BookkeepingAgrees
<1> QED  BY <1>1, SpecIInv, PTL

\* Whatever the callers, the hosts and the jobs do, the two mutexes, the joins of the
\* workers and the join of the scheduler never close a circle, as long as the
\* handlers post what they want to call.
THEOREM LocksNeverCircle == Spec => []NoCircularWait
<1>1. IInv => NoCircularWait
  <2> SUFFICES ASSUME IInv, ~scenario.direct,
                      NEW D \in SUBSET Thread, D # {}, \A t \in D : \E u \in D : WaitsFor(t, u)
               PROVE  FALSE
    BY DEF NoCircularWait, CircularWait
  <2> DEFINE Waiting(t) == pc[t] \in {"enter", "notify", "rm_join", "rm_erase", "sd_join"}
  <2>1. \A t \in D : Waiting(t)
    BY DEF WaitsFor
  <2>2. \A t \in D \cap NestedThreads : pc[t] = "notify"
    BY <2>1, OfThread DEF NestedThreads, ThreadOK, ConnOK, WorkOK, IInv, ThreadsInv
  <2>3. ASSUME NEW t \in D
        PROVE  pc[t] # "notify"
    <3> SUFFICES ASSUME pc[t] = "notify"
                 PROVE  FALSE
      OBVIOUS
    <3>1. PICK u \in D : regLock = u
      BY DEF WaitsFor
    <3>2. OwnsRegistry(u, pc[u])
      BY <3>1, OfThread
    <3> QED  BY <2>1, <2>2, <3>2 DEF OwnsRegistry
  <2>4. Scheduler \notin D
    BY <2>1, OfThread DEF ThreadOK
  <2>5. ASSUME NEW t \in D
        PROVE  pc[t] \notin {"rm_join", "rm_erase"}
    <3> SUFFICES ASSUME pc[t] \in {"rm_join", "rm_erase"}
                 PROVE  FALSE
      OBVIOUS
    <3>1. PICK u \in D : u = Work(IncOf(call[t].host))
      BY DEF WaitsFor
    <3>2. t \in Operators
      BY <2>2, <2>4, Kinds DEF Operators, NestedThreads, Thread
    <3>3. HasHost(call[t].host)
      BY <3>2, OfThread DEF OwnsController, OwnerOK
    <3>4. u \in NestedThreads
      BY <3>1, <3>3, RegisteredInc, Kinds DEF IInv, NestedThreads
    <3> QED  BY <2>2, <2>3, <3>4
  <2>6. ASSUME NEW t \in D
        PROVE  pc[t] # "sd_join"
    BY <2>4 DEF WaitsFor
  <2>7. ASSUME NEW t \in D, pc[t] = "enter"
        PROVE  FALSE
    <3>1. PICK u \in D : ctrlLock = u
      BY <2>7 DEF WaitsFor
    <3>2. OwnsController(u, pc[u])
      BY <3>1, OfThread
    <3> QED  BY <2>1, <2>3, <2>5, <2>6, <3>2 DEF OwnsController
  <2> QED  BY <2>1, <2>3, <2>5, <2>6, <2>7
<1> QED  BY <1>1, SpecIInv, PTL
=============================================================================
