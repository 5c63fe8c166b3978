------------------------------ MODULE GuiProofs ------------------------------
(***************************************************************************)
(* The event queue of the GUI thread, what the tabs show and the pending   *)
(* logins: the events of a host are handled while the model knows it, what *)
(* is shown is the selected host's, the statistics tab agrees with itself, *)
(* and a host is authorized with its own password, for every set of hosts  *)
(* and projects and every scenario.                                        *)
(***************************************************************************)
EXTENDS Gui, StatisticsTabProofs, SequenceTheorems, FiniteSetTheorems, TLAPS

-----------------------------------------------------------------------------
(* Which hosts the model knows at which place of a queue of events.        *)

IsAdded(e, h) == e.to = "model" /\ e.kind = "added" /\ e.host = h
IsRemoved(e, h) == e.to = "model" /\ e.kind = "removed" /\ e.host = h

\* A model that knows the hosts M knows h when it has handled the first k events of q.
Knows(q, M, k, h) ==
  \/ \E j \in 1..k : IsAdded(q[j], h) /\ \A i \in (j + 1)..k : ~IsRemoved(q[i], h)
  \/ h \in M /\ \A i \in 1..k : ~IsRemoved(q[i], h)

\* Every event but the addition of a host finds its host.
Ordered(q, M) ==
  \A k \in 1..Len(q) :
    q[k].to = "model" /\ q[k].kind # "added" => Knows(q, M, k - 1, q[k].host)

\* What is known at some place is known after what comes later is queued ...
LEMMA KnowsStays ==
  ASSUME NEW S, NEW q \in Seq(S), NEW t \in Seq(S), NEW M, NEW h,
         NEW k \in 0..Len(q), Knows(q, M, k, h)
  PROVE  Knows(q \o t, M, k, h)
<1>1. Len(q) \in Nat /\ Len(t) \in Nat
  BY LenProperties
<1>2. \A i \in 1..k : (q \o t)[i] = q[i]
  <2>1. \A i \in 1..(Len(q) + Len(t)) :
          (q \o t)[i] = IF i <= Len(q) THEN q[i] ELSE t[i - Len(q)]
    BY ConcatProperties
  <2>2. \A i \in 1..k : i \in 1..(Len(q) + Len(t)) /\ i <= Len(q)
    BY <1>1
  <2> QED  BY ONLY <2>1, <2>2
<1>3. k \in Nat
  BY <1>1
<1>4. \A j \in 1..k : \A i \in (j + 1)..k : i \in 1..k
  BY <1>3
<1> QED  BY <1>2, <1>4 DEF Knows

\* ... and known further on unless the host is removed.
LEMMA KnowsFurther ==
  ASSUME NEW q, NEW M, NEW h, NEW k \in Nat, NEW n \in Nat, k <= n, Knows(q, M, k, h),
         \A i \in (k + 1)..n : ~IsRemoved(q[i], h)
  PROVE  Knows(q, M, n, h)
<1>1. \A j \in Nat : \A i \in (j + 1)..n : i \in (j + 1)..k \/ i \in (k + 1)..n
  OBVIOUS
<1>2. \A i \in 1..n : i \in 1..k \/ i \in (k + 1)..n
  OBVIOUS
<1>3. \A j \in 1..k : j \in 1..n /\ j \in Nat
  OBVIOUS
<1>4. CASE \E j \in 1..k : IsAdded(q[j], h) /\ \A i \in (j + 1)..k : ~IsRemoved(q[i], h)
  <2>1. PICK j \in 1..k : IsAdded(q[j], h) /\ \A i \in (j + 1)..k : ~IsRemoved(q[i], h)
    BY <1>4
  <2>2. \A i \in (j + 1)..n : ~IsRemoved(q[i], h)
    BY <1>1, <1>3, <2>1
  <2> QED  BY <1>3, <2>1, <2>2 DEF Knows
<1>5. CASE h \in M /\ \A i \in 1..k : ~IsRemoved(q[i], h)
  BY <1>2, <1>5 DEF Knows
<1> QED  BY <1>4, <1>5 DEF Knows

LEMMA KnowsAdded ==
  ASSUME NEW q, NEW M, NEW h, NEW k \in Nat \ {0}, IsAdded(q[k], h)
  PROVE  Knows(q, M, k, h)
<1>1. k \in 1..k /\ \A i \in (k + 1)..k : FALSE
  OBVIOUS
<1> QED  BY <1>1 DEF Knows

\* Queueing one event whose host is known at the end.
LEMMA Posted ==
  ASSUME NEW S, NEW q \in Seq(S), NEW e \in S, NEW M, Ordered(q, M),
         e.to = "model" /\ e.kind # "added" => Knows(q, M, Len(q), e.host)
  PROVE  /\ Append(q, e) \in Seq(S)
         /\ Ordered(Append(q, e), M)
         /\ \A h : IsAdded(e, h) \/ (Knows(q, M, Len(q), h) /\ ~IsRemoved(e, h))
              => Knows(Append(q, e), M, Len(Append(q, e)), h)
<1>1. Len(q) \in Nat
  BY LenProperties
<1>2. PICK p : p = Append(q, e)
  OBVIOUS
<1>3. /\ p \in Seq(S) /\ Len(p) = Len(q) + 1
      /\ \A i \in 1..Len(q) : p[i] = q[i]
      /\ p[Len(q) + 1] = e
  BY <1>2, AppendProperties
<1>4. <<e>> \in Seq(S) /\ p = q \o <<e>>
  BY <1>2, AppendIsConcat
<1>5. ASSUME NEW k \in 0..Len(q), NEW h, Knows(q, M, k, h)
      PROVE  Knows(p, M, k, h)
  BY <1>4, <1>5, KnowsStays
<1>6. ASSUME NEW k \in 1..Len(p), p[k].to = "model", p[k].kind # "added"
      PROVE  Knows(p, M, k - 1, p[k].host)
  <2>1. CASE k <= Len(q)
    <3>1. k \in 1..Len(q) /\ k - 1 \in 0..Len(q)
      BY <1>1, <2>1
    <3>2. Knows(q, M, k - 1, p[k].host)
      BY <1>3, <1>6, <3>1 DEF Ordered
    <3> QED  BY <1>5, <3>1, <3>2
  <2>2. CASE k > Len(q)
    <3>1. k = Len(q) + 1 /\ k - 1 = Len(q) /\ Len(q) \in 0..Len(q)
      BY <1>1, <1>3, <2>2
    <3>2. Knows(q, M, Len(q), p[k].host)
      BY <1>3, <1>6, <3>1
    <3> QED  BY <1>5, <3>1, <3>2
  <2>3. k \in Nat
    OBVIOUS
  <2> QED  BY <1>1, <2>1, <2>2, <2>3
<1>7. ASSUME NEW h, IsAdded(e, h) \/ (Knows(q, M, Len(q), h) /\ ~IsRemoved(e, h))
      PROVE  Knows(p, M, Len(p), h)
  <2>1. CASE IsAdded(e, h)
    <3>1. Len(p) \in Nat \ {0} /\ p[Len(p)] = e
      BY <1>1, <1>3
    <3> QED  BY <2>1, <3>1, KnowsAdded
  <2>2. CASE Knows(q, M, Len(q), h) /\ ~IsRemoved(e, h)
    <3>1. Knows(p, M, Len(q), h)
      BY <1>1, <1>5, <2>2
    <3>2. \A i \in (Len(q) + 1)..Len(p) : p[i] = e
      BY <1>1, <1>3
    <3>3. Len(p) \in Nat /\ Len(q) <= Len(p)
      BY <1>1, <1>3
    <3> QED  BY <1>1, <2>2, <3>1, <3>2, <3>3, KnowsFurther
  <2> QED  BY <1>7, <2>1, <2>2
<1> QED  BY <1>2, <1>3, <1>6, <1>7 DEF Ordered

\* Handling the first event, after which the model knows the hosts N.
LEMMA HandledFirst ==
  ASSUME NEW S, NEW q \in Seq(S), q # <<>>, NEW M, NEW N,
         \A h : IsAdded(q[1], h) \/ (h \in M /\ ~IsRemoved(q[1], h)) => h \in N
  PROVE  /\ Tail(q) \in Seq(S) /\ Len(Tail(q)) = Len(q) - 1
         /\ \A k \in 0..Len(Tail(q)) : \A h : Knows(q, M, k + 1, h) => Knows(Tail(q), N, k, h)
         /\ Ordered(q, M) => Ordered(Tail(q), N)
<1>1. PICK p : p = Tail(q)
  OBVIOUS
<1>2. p \in Seq(S) /\ Len(p) = Len(q) - 1 /\ \A i \in 1..Len(p) : p[i] = q[i + 1]
  BY <1>1, HeadTailProperties
<1>3. Len(p) \in Nat /\ Len(q) \in Nat
  BY <1>2, LenProperties
<1>4. ASSUME NEW k \in 0..Len(p), NEW h, Knows(q, M, k + 1, h)
      PROVE  Knows(p, N, k, h)
  <2>0. k \in Nat /\ \A i \in 1..k : p[i] = q[i + 1] /\ i + 1 \in 1..(k + 1)
    <3>1. k \in Nat /\ \A i \in 1..k : i \in 1..Len(p) /\ i + 1 \in 1..(k + 1)
      BY <1>3
    <3> QED  BY <1>2, <3>1
  <2>1. CASE h \in M /\ \A i \in 1..(k + 1) : ~IsRemoved(q[i], h)
    <3>1. 1 \in 1..(k + 1)
      BY <2>0
    <3>2. h \in N
      BY <2>1, <3>1
    <3>3. \A i \in 1..k : ~IsRemoved(p[i], h)
      BY <2>0, <2>1
    <3> QED  BY <3>2, <3>3 DEF Knows
  <2>2. ASSUME NEW j \in 1..(k + 1), IsAdded(q[j], h),
               \A i \in (j + 1)..(k + 1) : ~IsRemoved(q[i], h)
        PROVE  Knows(p, N, k, h)
    <3>1. CASE j = 1
      <4>1. h \in N
        BY <2>2, <3>1
      <4>2. \A i \in 1..k : i + 1 \in (j + 1)..(k + 1)
        BY <2>0, <3>1
      <4>3. \A i \in 1..k : ~IsRemoved(p[i], h)
        BY <2>0, <2>2, <4>2
      <4> QED  BY <4>1, <4>3 DEF Knows
    <3>2. CASE j # 1
      <4>1. j - 1 \in 1..k /\ (j - 1) + 1 = j
        BY <2>0, <3>2
      <4>2. IsAdded(p[j - 1], h)
        BY <2>0, <2>2, <4>1
      <4>3. \A i \in ((j - 1) + 1)..k : i \in 1..k /\ i + 1 \in (j + 1)..(k + 1)
        BY <2>0, <3>2
      <4>4. \A i \in ((j - 1) + 1)..k : ~IsRemoved(p[i], h)
        BY <2>0, <2>2, <4>3
      <4> QED  BY <4>1, <4>2, <4>4 DEF Knows
    <3> QED  BY <3>1, <3>2
  <2> QED  BY <1>4, <2>1, <2>2 DEF Knows
<1>5. ASSUME Ordered(q, M), NEW k \in 1..Len(p), p[k].to = "model", p[k].kind # "added"
      PROVE  Knows(p, N, k - 1, p[k].host)
  <2>1. k + 1 \in 1..Len(q) /\ k - 1 \in 0..Len(p) /\ (k - 1) + 1 = k /\ (k + 1) - 1 = k
    BY <1>2, <1>3
  <2>2. p[k] = q[k + 1]
    BY <1>2
  <2>3. Knows(q, M, k, p[k].host)
    BY <1>5, <2>1, <2>2 DEF Ordered
  <2> QED  BY <1>4, <2>1, <2>3
<1>6. Ordered(q, M) => Ordered(p, N)
  BY <1>5 DEF Ordered
<1> QED  BY <1>1, <1>2, <1>4, <1>6

\* Queueing several events whose hosts are known at the end.
LEMMA Extended ==
  ASSUME NEW S, NEW q \in Seq(S), NEW t \in Seq(S), NEW M, Ordered(q, M),
         \A k \in 1..Len(t) : t[k].to = "model" /\ t[k].kind # "added" =>
           /\ Knows(q, M, Len(q), t[k].host)
           /\ \A i \in 1..(k - 1) : ~IsRemoved(t[i], t[k].host)
  PROVE  /\ q \o t \in Seq(S)
         /\ Ordered(q \o t, M)
         /\ \A h : Knows(q, M, Len(q), h) /\ (\A i \in 1..Len(t) : ~IsRemoved(t[i], h))
              => Knows(q \o t, M, Len(q \o t), h)
<1>1. Len(q) \in Nat /\ Len(t) \in Nat
  BY LenProperties
<1>2. PICK p : p = q \o t
  OBVIOUS
<1>3. /\ p \in Seq(S) /\ Len(p) = Len(q) + Len(t)
      /\ \A i \in 1..(Len(q) + Len(t)) : p[i] = IF i <= Len(q) THEN q[i] ELSE t[i - Len(q)]
  BY <1>2, ConcatProperties
<1>4. \A i \in 1..Len(q) : p[i] = q[i] /\ i \in 1..Len(p)
  <2>1. \A i \in 1..Len(q) : i \in 1..(Len(q) + Len(t)) /\ i <= Len(q)
    BY <1>1
  <2> QED  BY ONLY <1>3, <2>1
<1>5. \A i \in (Len(q) + 1)..Len(p) : p[i] = t[i - Len(q)] /\ i - Len(q) \in 1..Len(t)
  <2>1. \A i \in (Len(q) + 1)..(Len(q) + Len(t)) :
          i \in 1..(Len(q) + Len(t)) /\ ~(i <= Len(q)) /\ i - Len(q) \in 1..Len(t)
    BY <1>1
  <2> QED  BY ONLY <1>3, <2>1
<1>6. ASSUME NEW k \in 0..Len(q), NEW h, Knows(q, M, k, h)
      PROVE  Knows(p, M, k, h)
  BY <1>2, <1>6, KnowsStays
<1>7. ASSUME NEW n \in 0..Len(t), NEW h, Knows(q, M, Len(q), h),
             \A i \in 1..n : ~IsRemoved(t[i], h)
      PROVE  Knows(p, M, Len(q) + n, h)
  <2>1. Knows(p, M, Len(q), h)
    BY <1>1, <1>6, <1>7
  <2>2. /\ Len(q) + n \in Nat /\ Len(q) <= Len(q) + n
        /\ \A i \in (Len(q) + 1)..(Len(q) + n) : i \in (Len(q) + 1)..Len(p) /\ i - Len(q) \in 1..n
    BY <1>1, <1>3
  <2>3. \A i \in (Len(q) + 1)..(Len(q) + n) : ~IsRemoved(p[i], h)
    BY <1>5, <1>7, <2>2
  <2> QED  BY <1>1, <2>1, <2>2, <2>3, KnowsFurther
<1>8. ASSUME NEW k \in 1..Len(p), p[k].to = "model", p[k].kind # "added"
      PROVE  Knows(p, M, k - 1, p[k].host)
  <2>1. CASE k <= Len(q)
    <3>1. k \in 1..Len(q) /\ k - 1 \in 0..Len(q)
      BY <1>1, <2>1
    <3>2. Knows(q, M, k - 1, p[k].host)
      BY <1>4, <1>8, <3>1 DEF Ordered
    <3> QED  BY <1>6, <3>1, <3>2
  <2>2. CASE k > Len(q)
    <3>1. PICK n : n = k - Len(q)
      OBVIOUS
    <3>2. k \in (Len(q) + 1)..Len(p) /\ n \in 1..Len(t) /\ n - 1 \in 0..Len(t)
          /\ Len(q) + (n - 1) = k - 1
      BY <1>1, <1>3, <2>2, <3>1
    <3>3. p[k] = t[n]
      BY <1>5, <3>1, <3>2
    <3>4. Knows(q, M, Len(q), p[k].host) /\ \A i \in 1..(n - 1) : ~IsRemoved(t[i], p[k].host)
      BY <1>8, <3>2, <3>3
    <3>5. Knows(p, M, Len(q) + (n - 1), p[k].host)
      BY <1>7, <3>2, <3>4
    <3> QED  BY <3>2, <3>5
  <2>3. k \in Nat
    OBVIOUS
  <2> QED  BY <1>1, <2>1, <2>2, <2>3
<1>9. ASSUME NEW h, Knows(q, M, Len(q), h), \A i \in 1..Len(t) : ~IsRemoved(t[i], h)
      PROVE  Knows(p, M, Len(p), h)
  BY <1>1, <1>3, <1>7, <1>9
<1> QED  BY <1>2, <1>3, <1>8, <1>9 DEF Ordered

\* A finite set as a sequence without repetition.
LEMMA SetToSeqProperties ==
  ASSUME NEW S, IsFiniteSet(S)
  PROVE  /\ SetToSeq(S) \in Seq(S)
         /\ \A i, j \in 1..Len(SetToSeq(S)) : SetToSeq(S)[i] = SetToSeq(S)[j] => i = j
<1>1. Cardinality(S) \in Nat /\ ExistsBijection(1..Cardinality(S), S)
  BY FS_CardinalityType
<1>2. \E f \in [1..Cardinality(S) -> S] : IsInjective(f)
  BY <1>1 DEF ExistsBijection, Bijection, Injection, Surjection, IsInjective
<1>3. PICK f : f = SetToSeq(S)
  OBVIOUS
<1>4. f \in [1..Cardinality(S) -> S] /\ IsInjective(f)
  BY <1>2, <1>3 DEF SetToSeq
<1>5. f \in Seq(S) /\ DOMAIN f = 1..Len(f)
  <2>1. f \in Seq(S)
    BY <1>1, <1>4, SeqDef
  <2> QED  BY <2>1, LenProperties
<1> QED  BY <1>3, <1>4, <1>5 DEF IsInjective

-----------------------------------------------------------------------------
(* The inductive invariant, in five parts.                                 *)

Statuses == {"off", "connecting", "failed", "connected", "leaving"}
On == {h \in Hosts : host[h] # "off"}

\* What a client says of itself.
ClientFits(c) ==
  /\ {"logged", "projects", "credit"} \subseteq DOMAIN c
  /\ c.logged \in Nat
  /\ DOMAIN c.projects \subseteq Projects /\ DOMAIN c.credit \subseteq Projects

\* The hosts and their clients.
LibInv ==
  /\ scenario \in Scenarios
  /\ host \in [Hosts -> Statuses] /\ IsFiniteSet(On)
  /\ DOMAIN client = Hosts
  /\ \A h \in Hosts : ClientFits(client[h])
  /\ fetched \in [Hosts -> Nat]
  /\ answer \in {"none", "taken", "refused", "exception"}

ModelKinds == Kinds \cup {"added", "removed"}
NewsKinds == {"messages", "notices"}
NewsOf(h) == [host : {h}, number : Nat]

\* An event tells of a host, news of a host are its own, and projects are projects.
Fits(e) ==
  /\ e.host \in Hosts
  /\ e.to = "model" =>
       /\ e.kind \in ModelKinds
       /\ e.kind \in NewsKinds => e.data \in Seq(NewsOf(e.host))
       /\ e.kind \in {"projects", "statistics"} => DOMAIN e.data \subseteq Projects

\* Every event will find its host, and a host that is there will be known.
QueueInv ==
  /\ \E S : events \in Seq(S)
  /\ \A k \in 1..Len(events) : Fits(events[k])
  /\ Ordered(events, DOMAIN models)
  /\ \A h \in On : Knows(events, DOMAIN models, Len(events), h)

\* What a tab shows is the selected host's; a tab that was told nothing since the
\* host was selected shows nothing.
ShownInv ==
  /\ selected \in Hosts \cup {NoHost}
  /\ DOMAIN shown = Kinds \ {"client_state"}
  /\ \A kind \in DOMAIN shown \ {"cc_status"} :
       /\ shown[kind].host \in {selected, NoHost}
       /\ shown[kind].host = NoHost => shown[kind].data = <<>>
       /\ kind \in NewsKinds => shown[kind].data \in Seq(NewsOf(shown[kind].host))

\* The statistics tab agrees with itself, whatever it still holds.
TabInv == Consistent(tab, Cardinality(Projects))

Passwords == UNION {s.passwords : s \in Scenarios}

\* The logins of a host are those of its last addition, and none is kept of a host
\* that is gone or going, unless an attempt left some behind.
OwnLogins(h) ==
  h \in leftover \/
  /\ down \/ host[h] \notin {"off", "leaving"} \/ logins[h] = <<>>
  /\ \A k \in 1..Len(logins[h]) : logins[h][k] = entered[h]

LoginInv ==
  /\ logins \in [Hosts -> Seq(Passwords)]
  /\ DOMAIN entered = Hosts /\ DOMAIN used = Hosts
  /\ \A h \in Hosts : OwnLogins(h)
  /\ OwnPassword

-----------------------------------------------------------------------------
(* The hosts and their clients.                                            *)

LEMMA HostTurns ==
  ASSUME LibInv, NEW h \in Hosts, NEW status \in Statuses, host' = [host EXCEPT ![h] = status]
  PROVE  host' \in [Hosts -> Statuses] /\ IsFiniteSet(On')
<1>1. On' \in SUBSET (On \cup {h})
  BY DEF LibInv, On
<1>2. IsFiniteSet(On \cup {h})
  BY FS_AddElement DEF LibInv
<1>3. IsFiniteSet(On')
  BY <1>1, <1>2, FS_Subset
<1> QED  BY <1>3 DEF LibInv

LEMMA LibInitially == GuiInit => LibInv
<1> SUFFICES ASSUME GuiInit PROVE LibInv
  OBVIOUS
<1>1. On = {}
  BY DEF GuiInit, On
<1>2. IsFiniteSet(On)
  BY <1>1, FS_EmptySet
<1>3. ClientFits(NewClient)
  <2>1. scenario \in Scenarios
    BY DEF GuiInit
  <2> QED  BY <2>1, ScenarioAssumption DEF ClientFits, NewClient
<1> QED  BY <1>2, <1>3 DEF GuiInit, LibInv, Statuses

LEMMA ClientChangesLib == ASSUME LibInv, ClientChanges PROVE LibInv'
<1>1. UNCHANGED <<scenario, host, fetched, answer>>
  BY DEF ClientChanges, Attach, Detach, TaskChanges, ModesChange, OthersChange, Changed,
         libVars, guiVars, endVars
<1>2. DOMAIN client' = Hosts /\ \A h \in Hosts : ClientFits(client'[h])
  <2> USE DEF LibInv
  <2>C. ASSUME NEW h, NEW c, client' = [client EXCEPT ![h] = c],
               h \in Hosts => ClientFits(c)
        PROVE  <1>2
    BY <2>C
  <2>1. ASSUME NEW h, NEW p \in scenario.projects, Attach(h, p) PROVE <1>2
    <3>1. p \in Projects
      BY ScenarioAssumption
    <3>2. PICK c : c = [client[h] EXCEPT !.projects = With(@, p, {}), !.credit = With(@, p, 0)]
      OBVIOUS
    <3>3. client' = [client EXCEPT ![h] = c]
      BY <2>1, <3>2 DEF Attach
    <3>4. ASSUME h \in Hosts PROVE ClientFits(c)
      BY <3>1, <3>2, <3>4 DEF ClientFits, With
    <3> QED  BY <2>C, <3>3, <3>4
  <2>2. ASSUME NEW h, NEW p, Detach(h, p) PROVE <1>2
    <3>1. PICK rest : rest = DOMAIN client[h].projects \ {p}
      OBVIOUS
    <3>2. PICK c : c = [client[h] EXCEPT !.projects = Only(@, rest), !.credit = Only(@, rest),
                                         !.tasks = Only(@, rest)]
      OBVIOUS
    <3>3. client' = [client EXCEPT ![h] = c]
      BY <2>2, <3>1, <3>2 DEF Detach
    <3>4. ASSUME h \in Hosts PROVE ClientFits(c)
      BY <3>2, <3>4 DEF ClientFits, Only
    <3> QED  BY <2>C, <3>3, <3>4
  <2>3. ASSUME NEW h, NEW p, TaskChanges(h, p) PROVE <1>2
    <3>1. PICK tasks : client' = [client EXCEPT ![h].tasks = tasks]
      BY <2>3 DEF TaskChanges
    <3>2. PICK c : c = [client[h] EXCEPT !.tasks = tasks]
      OBVIOUS
    <3>3. client' = [client EXCEPT ![h] = c]
      BY <3>1, <3>2
    <3>4. ASSUME h \in Hosts PROVE ClientFits(c)
      BY <3>2, <3>4 DEF ClientFits
    <3> QED  BY <2>C, <3>3, <3>4
  <2>4. ASSUME NEW h, ModesChange(h) PROVE <1>2
    <3>1. PICK modes : client' = [client EXCEPT ![h].modes = modes]
      BY <2>4 DEF ModesChange
    <3>2. PICK c : c = [client[h] EXCEPT !.modes = modes]
      OBVIOUS
    <3>3. client' = [client EXCEPT ![h] = c]
      BY <3>1, <3>2
    <3>4. ASSUME h \in Hosts PROVE ClientFits(c)
      BY <3>2, <3>4 DEF ClientFits
    <3> QED  BY <2>C, <3>3, <3>4
  <2>5. ASSUME NEW h, OthersChange(h) PROVE <1>2
    <3>1. PICK c : /\ client' = [client EXCEPT ![h] = c]
                   /\ \/ \E p : c = [client[h] EXCEPT !.credit[p] = 1 - @]
                      \/ \E p, flag : c = [client[h] EXCEPT !.projects[p] = {flag}]
                      \/ \E t : c = [client[h] EXCEPT !.transfers = <<t>>]
                      \/ c = [client[h] EXCEPT !.logged = @ + 1]
      BY <2>5 DEF OthersChange
    <3>2. ASSUME h \in Hosts PROVE ClientFits(c)
      <4> USE <3>2 DEF ClientFits
      <4>1. ASSUME NEW p, c = [client[h] EXCEPT !.credit[p] = 1 - @] PROVE ClientFits(c)
        BY <4>1
      <4>2. ASSUME NEW p, NEW flag, c = [client[h] EXCEPT !.projects[p] = {flag}] PROVE ClientFits(c)
        BY <4>2
      <4>3. ASSUME NEW t, c = [client[h] EXCEPT !.transfers = <<t>>] PROVE ClientFits(c)
        BY <4>3
      <4>4. ASSUME c = [client[h] EXCEPT !.logged = @ + 1] PROVE ClientFits(c)
        BY <4>4
      <4> QED  BY ONLY <3>1, <4>1, <4>2, <4>3, <4>4
    <3> QED  BY <2>C, <3>1, <3>2
  <2> QED  BY <2>1, <2>2, <2>3, <2>4, <2>5 DEF ClientChanges
<1> QED  BY <1>1, <1>2 DEF LibInv, On

LEMMA LibPreserved == LibInv /\ [GuiNext]_vars => LibInv'
<1> SUFFICES ASSUME LibInv, [GuiNext]_vars PROVE LibInv'
  OBVIOUS
<1>U. ASSUME UNCHANGED <<scenario, host, client, fetched, answer>> PROVE LibInv'
  BY <1>U DEF LibInv, On
<1>H. ASSUME NEW h \in Hosts, NEW status \in Statuses, host' = [host EXCEPT ![h] = status],
             UNCHANGED <<scenario, client, fetched, answer>>
      PROVE  LibInv'
  <2>1. host' \in [Hosts -> Statuses] /\ IsFiniteSet(On')
    BY <1>H, HostTurns
  <2> QED  BY <1>H, <2>1 DEF LibInv
<1>1. ASSUME HandleEvent PROVE LibInv'
  <2>1. UNCHANGED <<scenario, client, fetched, answer>>
    BY <1>1 DEF HandleEvent, ModelSlot, ControllerSlot, HandleConnected, HandleAuthorized,
         HandleAuthorizationFailed, HandleError, RemoveLater, ScheduleUpdate, Throws, libVars,
         endVars
  <2>2. UNCHANGED host \/ \E h \in Hosts : host' = [host EXCEPT ![h] = "leaving"]
    <3>1. PICK e : e = Head(events)
      OBVIOUS
    <3>2. CASE e.to = "model" /\ ModelSlot(e)
      BY <3>2 DEF ModelSlot, libVars
    <3>3. CASE e.to = "controller" /\ ControllerSlot(e)
      <4>1. ASSUME RemoveLater(e.host) PROVE <2>2
        <5>1. CASE e.host \in Hosts
          BY <4>1, <5>1 DEF RemoveLater, Throws, libVars
        <5>2. CASE e.host \notin Hosts
          BY <4>1, <5>2 DEF RemoveLater, Throws, libVars, LibInv
        <5> QED  BY <5>1, <5>2
      <4> QED  BY <3>3, <4>1 DEF ControllerSlot, HandleConnected, HandleAuthorized,
                 HandleAuthorizationFailed, HandleError, ScheduleUpdate, Throws, libVars
    <3> QED  BY <1>1, <3>1, <3>2, <3>3 DEF HandleEvent
  <2> QED  BY <1>U, <1>H, <2>1, <2>2 DEF Statuses
<1>2. ASSUME ClientAnswered PROVE LibInv'
  <2>1. UNCHANGED <<scenario, client>> /\ answer' = "none"
    BY <1>2 DEF ClientAnswered
  <2>2. UNCHANGED fetched /\ (UNCHANGED host \/ host' = [h \in Hosts |-> "off"])
    BY <1>2 DEF ClientAnswered, LibInv, libVars
  <2>3. CASE UNCHANGED host
    BY <2>1, <2>2, <2>3 DEF LibInv, On
  <2>4. CASE host' = [h \in Hosts |-> "off"]
    <3>1. On' = {} /\ host' \in [Hosts -> Statuses]
      BY <2>4 DEF On, Statuses
    <3>2. IsFiniteSet(On')
      BY <3>1, FS_EmptySet
    <3> QED  BY <2>1, <2>2, <3>1, <3>2 DEF LibInv
  <2> QED  BY <2>2, <2>3, <2>4
<1>3. ASSUME NEW h \in scenario.hosts, ShutDownClient(h) PROVE LibInv'
  BY <1>3, <1>U DEF ShutDownClient, Throws, libVars
<1>4. ASSUME NEW h \in scenario.hosts, NEW password, AddComputer(h, password) PROVE LibInv'
  <2>1. h \in Hosts
    BY ScenarioAssumption DEF LibInv
  <2>2. UNCHANGED <<scenario, client, fetched, answer>>
        /\ (UNCHANGED host \/ host' = [host EXCEPT ![h] = "connecting"])
    BY <1>4 DEF AddComputer, endVars
  <2> QED  BY <1>U, <1>H, <2>1, <2>2 DEF Statuses
<1>5. ASSUME UNCHANGED <<scenario, client, libVars, loginVars, modelVars, endVars>> PROVE LibInv'
  BY <1>5, <1>U DEF libVars, endVars
<1>6. ASSUME ClientChanges PROVE LibInv'
  BY <1>6, ClientChangesLib
<1>7. ASSUME NEW h \in Hosts, Connected(h) PROVE LibInv'
  BY <1>7, <1>H DEF Connected, endVars, Statuses
<1>8. ASSUME NEW h \in Hosts, ConnectFails(h) PROVE LibInv'
  BY <1>8, <1>H DEF ConnectFails, endVars, Statuses
<1>9. ASSUME NEW h \in Hosts, IntervalPasses(h) \/ SchedulerPass(h) \/ PostExecution(h) PROVE LibInv'
  BY <1>9, <1>U DEF IntervalPasses, SchedulerPass, PostExecution, guiVars, endVars
<1>10. ASSUME NEW h \in Hosts, RunPeriodic(h) PROVE LibInv'
  <2>1. UNCHANGED <<scenario, host, client, answer>>
        /\ (UNCHANGED fetched \/ fetched' = [fetched EXCEPT ![h] = client[h].logged])
    BY <1>10 DEF RunPeriodic, endVars
  <2>2. fetched' \in [Hosts -> Nat]
    BY <2>1 DEF LibInv, ClientFits
  <2> QED  BY <2>1, <2>2 DEF LibInv, On
<1>11. ASSUME NEW h \in Hosts, Authorize(h) \/ JobFails(h) PROVE LibInv'
  BY <1>11, <1>U DEF Authorize, JobFails, endVars
<1>12. ASSUME NEW h \in Hosts, RunQuit(h) PROVE LibInv'
  BY <1>12 DEF RunQuit, LibInv, On
<1>13. ASSUME NEW h \in Hosts, Removed(h) PROVE LibInv'
  <2>1. host' \in [Hosts -> Statuses] /\ IsFiniteSet(On')
    BY <1>13, HostTurns DEF Removed, Statuses
  <2>2. fetched' \in [Hosts -> Nat]
    BY <1>13 DEF Removed, LibInv
  <2>3. answer' \in {"none", "taken", "refused", "exception"} /\ UNCHANGED <<scenario, client>>
    BY <1>13 DEF Removed, LibInv
  <2> QED  BY <2>1, <2>2, <2>3 DEF LibInv
<1>14. CASE UNCHANGED vars
  BY <1>14, <1>U DEF vars, libVars, guiVars, endVars
<1> QED
  BY <1>1, <1>2, <1>3, <1>4, <1>5, <1>6, <1>7, <1>8, <1>9, <1>10, <1>11, <1>12, <1>13, <1>14
     DEF GuiNext, GuiStep, User, Connects, Schedules, Works, WorkerStep, Leaves

-----------------------------------------------------------------------------
(* The event queue.                                                        *)

LEMMA QueueInitially == GuiInit => QueueInv
<1> SUFFICES ASSUME GuiInit PROVE QueueInv
  OBVIOUS
<1>1. events = <<>> /\ On = {}
  BY DEF GuiInit, Init, On
<1>2. <<>> \in Seq({}) /\ Len(<<>>) = 0
  OBVIOUS
<1> QED  BY <1>1, <1>2 DEF QueueInv, Ordered

LEMMA QueueStays ==
  ASSUME QueueInv, UNCHANGED events, UNCHANGED models, On' \subseteq On
  PROVE  QueueInv'
BY DEF QueueInv, Ordered, Fits

LEMMA QueuePosts ==
  ASSUME QueueInv, NEW e, events' = Append(events, e), UNCHANGED models, Fits(e),
         e.to = "model" /\ e.kind # "added" => e.host \in On,
         \A h \in On' : IsAdded(e, h) \/ (h \in On /\ ~IsRemoved(e, h))
  PROVE  QueueInv'
<1>1. PICK S : events \in Seq(S)
  BY DEF QueueInv
<1>2. events \in Seq(S \cup {e}) /\ e \in S \cup {e}
  BY <1>1, SeqMonotonic
<1>3. /\ events' \in Seq(S \cup {e}) /\ Ordered(events', DOMAIN models)
      /\ \A h : IsAdded(e, h) \/ (Knows(events, DOMAIN models, Len(events), h) /\ ~IsRemoved(e, h))
           => Knows(events', DOMAIN models, Len(events'), h)
  BY <1>2, Posted DEF QueueInv
<1>4. \A k \in 1..Len(events') : Fits(events'[k])
  <2>1. /\ Len(events') = Len(events) + 1 /\ Len(events) \in Nat
        /\ \A k \in 1..Len(events) : events'[k] = events[k]
        /\ events'[Len(events) + 1] = e
    BY <1>2, AppendProperties, LenProperties
  <2>2. \A k \in 1..(Len(events) + 1) : k \in 1..Len(events) \/ k = Len(events) + 1
    BY <2>1
  <2> QED  BY <2>1, <2>2 DEF QueueInv
<1>5. \A h \in On' : Knows(events', DOMAIN models, Len(events'), h)
  BY <1>3 DEF QueueInv
<1> QED  BY <1>3, <1>4, <1>5 DEF QueueInv

\* The first event is handled, and something is asked of the controller.
LEMMA QueueHandles ==
  ASSUME QueueInv, events # <<>>, NEW T, NEW t \in Seq(T),
         \A k \in 1..Len(t) : t[k].to = "controller" /\ t[k].host \in Hosts,
         events' = Tail(events) \o t, On' \subseteq On,
         \A h : IsAdded(events[1], h) \/ (h \in DOMAIN models /\ ~IsRemoved(events[1], h))
           => h \in DOMAIN models'
  PROVE  QueueInv'
<1>1. PICK S : events \in Seq(S)
  BY DEF QueueInv
<1>2. events \in Seq(S \cup T) /\ t \in Seq(S \cup T)
  BY <1>1, SeqMonotonic
<1>3. PICK rest : rest = Tail(events)
  OBVIOUS
<1>4. PICK N : N = DOMAIN models'
  OBVIOUS
<1>5. /\ rest \in Seq(S \cup T) /\ Len(rest) = Len(events) - 1
      /\ \A h : Knows(events, DOMAIN models, Len(rest) + 1, h) => Knows(rest, N, Len(rest), h)
      /\ Ordered(rest, N)
  <2>1. /\ rest \in Seq(S \cup T) /\ Len(rest) = Len(events) - 1
        /\ \A k \in 0..Len(rest) : \A h : Knows(events, DOMAIN models, k + 1, h) => Knows(rest, N, k, h)
        /\ Ordered(events, DOMAIN models) => Ordered(rest, N)
    BY <1>2, <1>3, <1>4, HandledFirst
  <2>2. Len(rest) \in 0..Len(rest)
    BY <2>1, LenProperties
  <2> QED  BY <2>1, <2>2 DEF QueueInv
<1>6. /\ rest \o t \in Seq(S \cup T) /\ Ordered(rest \o t, N)
      /\ \A h : Knows(rest, N, Len(rest), h) => Knows(rest \o t, N, Len(rest \o t), h)
  <2>1. \A k \in 1..Len(t) : t[k].to # "model" /\ \A h : ~IsRemoved(t[k], h)
    BY DEF IsRemoved
  <2> QED  BY <1>2, <1>5, <2>1, Extended
<1>7. \A k \in 1..Len(rest \o t) : Fits((rest \o t)[k])
  <2>1. Len(rest) \in Nat /\ Len(t) \in Nat /\ Len(events) \in Nat /\ Len(rest) = Len(events) - 1
    BY <1>2, <1>5, LenProperties
  <2>2. /\ Len(rest \o t) = Len(rest) + Len(t)
        /\ \A k \in 1..(Len(rest) + Len(t)) :
             (rest \o t)[k] = IF k <= Len(rest) THEN rest[k] ELSE t[k - Len(rest)]
    BY <1>2, <1>5, ConcatProperties
  <2>3. \A k \in 1..Len(rest) : rest[k] = events[k + 1]
    BY <1>2, <1>3, HeadTailProperties
  <2>4. ASSUME NEW k \in 1..(Len(rest) + Len(t)) PROVE Fits((rest \o t)[k])
    <3>1. CASE k <= Len(rest)
      <4>1. k \in 1..Len(rest) /\ k + 1 \in 1..Len(events)
        BY <2>1, <3>1
      <4>2. (rest \o t)[k] = events[k + 1]
        BY <2>2, <2>3, <3>1, <4>1
      <4> QED  BY <4>1, <4>2 DEF QueueInv
    <3>2. CASE ~(k <= Len(rest))
      <4>1. k - Len(rest) \in 1..Len(t)
        BY <2>1, <3>2
      <4>2. (rest \o t)[k] = t[k - Len(rest)]
        BY <2>2, <3>2
      <4> QED  BY <4>1, <4>2 DEF Fits
    <3> QED  BY <3>1, <3>2
  <2> QED  BY <2>2, <2>4
<1>8. events' = rest \o t
  BY <1>3
<1>9. \A h \in On' : Knows(events', N, Len(events'), h)
  <2>1. Len(events) \in Nat
    BY <1>2, LenProperties
  <2>2. Len(rest) + 1 = Len(events)
    BY <1>5, <2>1
  <2> QED  BY <1>5, <1>6, <1>8, <2>2 DEF QueueInv
<1> QED  BY <1>4, <1>6, <1>7, <1>8, <1>9 DEF QueueInv

LEMMA QueueHandlesOnly ==
  ASSUME QueueInv, events # <<>>, events' = Tail(events), On' \subseteq On,
         \A h : IsAdded(events[1], h) \/ (h \in DOMAIN models /\ ~IsRemoved(events[1], h))
           => h \in DOMAIN models'
  PROVE  QueueInv'
<1>1. PICK t : t = <<>>
  OBVIOUS
<1>2. t \in Seq({}) /\ \A k \in 1..Len(t) : FALSE
  BY <1>1
<1>3. PICK S : events \in Seq(S)
  BY DEF QueueInv
<1>4. events' = Tail(events) \o t
  BY <1>1, <1>3, HeadTailProperties, ConcatEmptySeq
<1> QED  BY <1>2, <1>4, QueueHandles

\* What the slots of the model do to the queue and to the hosts that are known.
LEMMA ModelSlots ==
  ASSUME QueueInv, events # <<>>, NEW e, e = events[1], e.to = "model", ModelSlot(e)
  PROVE  /\ \/ events' = Tail(events)
            \/ events' = Tail(events) \o
                 [k \in DOMAIN <<"client_state">> |-> ToController(<<"client_state">>[k], e.host)]
            \/ events' = Tail(events) \o
                 [k \in DOMAIN <<"projects", e.kind>> |-> ToController(<<"projects", e.kind>>[k], e.host)]
         /\ \A h : IsAdded(e, h) \/ (h \in DOMAIN models /\ ~IsRemoved(e, h)) => h \in DOMAIN models'
<1>1. Fits(e)
  <2>1. PICK S : events \in Seq(S)
    BY DEF QueueInv
  <2>2. 1 \in 1..Len(events)
    BY <2>1, EmptySeq
  <2> QED  BY <2>2 DEF QueueInv
<1> USE DEF ModelSlot, Handled, Asks
<1>2. CASE e.kind = "added"
  <2>1. AddHost(e.host)
    BY <1>2
  <2>2. DOMAIN models \cup {e.host} \subseteq DOMAIN models'
    BY <2>1 DEF AddHost
  <2> QED  BY <2>1, <2>2 DEF AddHost, IsAdded
<1>3. CASE e.kind = "removed"
  <2>1. RemoveHost(e.host)
    BY <1>3
  <2> QED  BY <1>3, <2>1 DEF RemoveHost, Restrict, IsAdded, IsRemoved
<1>4. CASE e.kind \in Kinds
  <2>1. DOMAIN models' = DOMAIN models => \A h : IsAdded(e, h) \/ h \in DOMAIN models => h \in DOMAIN models'
    BY <1>4 DEF IsAdded, Kinds
  <2>2. CASE e.kind = "cc_status"
    BY <2>1, <2>2 DEF UpdateCCStatus
  <2>3. CASE e.kind = "client_state"
    BY <2>1, <2>3 DEF UpdateClientState
  <2>4. CASE e.kind = "projects"
    BY <2>1, <2>4 DEF UpdateProjects
  <2>5. CASE e.kind = "tasks"
    BY <2>1, <2>5 DEF UpdateTasks
  <2>6. CASE e.kind = "statistics"
    BY <2>1, <2>6 DEF UpdateByProject
  <2>7. CASE e.kind = "disk_usage"
    BY <2>1, <2>7 DEF UpdateByProject
  <2>8. CASE e.kind = "file_transfers"
    BY <2>1, <2>8 DEF UpdateFileTransfers
  <2>9. CASE e.kind = "messages"
    BY <2>1, <2>9 DEF AppendNews
  <2>10. CASE e.kind = "notices"
    BY <2>1, <2>10 DEF AppendNews, RefreshNotices
  <2> QED  BY <1>4, <2>2, <2>3, <2>4, <2>5, <2>6, <2>7, <2>8, <2>9, <2>10 DEF Kinds
<1> QED  BY <1>1, <1>2, <1>3, <1>4 DEF Fits, ModelKinds

\* Everything is shut down: the model is told of every host.
LEMMA ShutdownQueue ==
  ASSUME LibInv, QueueInv, ClientAnswered
  PROVE  QueueInv'
<1>1. UNCHANGED models
  BY DEF ClientAnswered
<1>2. CASE answer # "taken"
  <2>1. UNCHANGED <<events, host>>
    BY <1>2 DEF ClientAnswered, LibInv, libVars
  <2> QED  BY <1>1, <2>1, QueueStays DEF On
<1>3. CASE answer = "taken"
  <2>1. PICK T : T = {ToModel("removed", h, {}) : h \in On}
    OBVIOUS
  <2>2. PICK t : t = SetToSeq(T)
    OBVIOUS
  <2>3. events' = events \o t /\ host' = [h \in Hosts |-> "off"]
    BY <1>3, <2>1, <2>2 DEF ClientAnswered, On
  <2>4. IsFiniteSet(T)
    <3>1. PICK f : f = [h \in On |-> ToModel("removed", h, {})]
      OBVIOUS
    <3>2. f \in Surjection(On, T)
      BY <2>1, <3>1 DEF Surjection
    <3> QED  BY <3>2, FS_Surjection DEF LibInv
  <2>5. t \in Seq(T) /\ \A i, j \in 1..Len(t) : t[i] = t[j] => i = j
    BY <2>2, <2>4, SetToSeqProperties
  <2>6. ASSUME NEW i \in 1..Len(t)
        PROVE  /\ t[i].host \in On /\ t[i].kind = "removed"
               /\ t[i] = ToModel("removed", t[i].host, {})
    <3>1. PICK h \in On : t[i] = ToModel("removed", h, {})
      BY <2>1, <2>5, ElementOfSeq
    <3>2. t[i].host = h /\ t[i].kind = "removed"
      BY <3>1 DEF ToModel
    <3> QED  BY <3>1, <3>2
  <2>7. \A i, j \in 1..Len(t) : i # j => t[i].host # t[j].host
    BY <2>5, <2>6
  <2>8. ASSUME NEW k \in 1..Len(t)
        PROVE  /\ Fits(t[k]) /\ Knows(events, DOMAIN models, Len(events), t[k].host)
               /\ \A i \in 1..(k - 1) : ~IsRemoved(t[i], t[k].host)
    <3>1. t[k].host \in On /\ t[k].kind = "removed"
      BY <2>6
    <3>2. Fits(t[k])
      BY <3>1 DEF Fits, ModelKinds, NewsKinds, On
    <3>3. \A i \in 1..(k - 1) : i \in 1..Len(t) /\ i # k
      BY <2>5, LenProperties
    <3>4. \A i \in 1..(k - 1) : ~IsRemoved(t[i], t[k].host)
      BY <2>7, <3>3 DEF IsRemoved
    <3> QED  BY <3>1, <3>2, <3>4 DEF QueueInv
  <2>9. PICK S : events \in Seq(S)
    BY DEF QueueInv
  <2>10. events \in Seq(S \cup T) /\ t \in Seq(S \cup T)
    BY <2>5, <2>9, SeqMonotonic
  <2>11. events' \in Seq(S \cup T) /\ Ordered(events', DOMAIN models)
    BY <2>3, <2>8, <2>10, Extended DEF QueueInv
  <2>12. \A k \in 1..Len(events') : Fits(events'[k])
    <3>1. Len(events) \in Nat /\ Len(t) \in Nat
      BY <2>10, LenProperties
    <3>2. /\ Len(events') = Len(events) + Len(t)
          /\ \A k \in 1..(Len(events) + Len(t)) :
               events'[k] = IF k <= Len(events) THEN events[k] ELSE t[k - Len(events)]
      BY <2>3, <2>10, ConcatProperties
    <3>3. \A k \in 1..(Len(events) + Len(t)) :
            IF k <= Len(events) THEN k \in 1..Len(events) ELSE k - Len(events) \in 1..Len(t)
      BY <3>1
    <3> QED  BY <2>8, <3>2, <3>3 DEF QueueInv
  <2>13. On' = {}
    BY <2>3 DEF On
  <2> QED  BY <1>1, <2>11, <2>12, <2>13 DEF QueueInv
<1> QED  BY <1>2, <1>3

LEMMA QueuePreserved == LibInv /\ QueueInv /\ [GuiNext]_vars => QueueInv'
<1> SUFFICES ASSUME LibInv, QueueInv, [GuiNext]_vars PROVE QueueInv'
  OBVIOUS
<1>0. \A h \in Hosts : h \in On <=> host[h] # "off"
  BY DEF On
<1>U. ASSUME UNCHANGED <<events, models, host>> PROVE QueueInv'
  <2>1. On' \subseteq On
    BY <1>U DEF On
  <2> QED  BY <1>U, <2>1, QueueStays
<1>P. ASSUME NEW e, Post(e), UNCHANGED models, Fits(e), e.host \in On, ~IsRemoved(e, e.host),
             On' = On
      PROVE  QueueInv'
  <2>1. \A h \in On' : h \in On /\ ~IsRemoved(e, h)
    BY <1>P DEF IsRemoved
  <2> QED  BY <1>P, <2>1, QueuePosts DEF Post
<1>C. ASSUME NEW h \in Hosts, NEW kind, host[h] # "off", On' = On, UNCHANGED models,
             Post(ToController(kind, h))
      PROVE  QueueInv'
  <2>1. PICK e : e = ToController(kind, h)
    OBVIOUS
  <2>2. e.to = "controller" /\ e.host = h
    BY <2>1 DEF ToController
  <2> QED  BY <1>0, <1>C, <1>P, <2>1, <2>2 DEF Fits, IsRemoved
<1>1. ASSUME HandleEvent PROVE QueueInv'
  <2>1. PICK e : e = Head(events)
    OBVIOUS
  <2>2. events # <<>> /\ e = events[1]
    BY <1>1, <2>1 DEF HandleEvent, QueueInv
  <2>3. On' \subseteq On
    <3>1. CASE ModelSlot(e)
      BY <3>1 DEF ModelSlot, libVars, On
    <3>2. CASE ControllerSlot(e)
      <4>1. host' = host \/ (host' = [host EXCEPT ![e.host] = "leaving"] /\ host[e.host] # "off")
        BY <3>2 DEF ControllerSlot, HandleConnected, HandleAuthorized, RemoveLater,
           HandleAuthorizationFailed, HandleError, ScheduleUpdate, Throws, libVars
      <4> QED  BY <4>1 DEF On, LibInv
    <3> QED  BY <1>1, <2>1, <3>1, <3>2 DEF HandleEvent
  <2>4. CASE e.to = "model" /\ ModelSlot(e)
    <3>1. /\ \/ events' = Tail(events)
             \/ events' = Tail(events) \o
                  [k \in DOMAIN <<"client_state">> |-> ToController(<<"client_state">>[k], e.host)]
             \/ events' = Tail(events) \o
                  [k \in DOMAIN <<"projects", e.kind>> |-> ToController(<<"projects", e.kind>>[k], e.host)]
          /\ \A h : IsAdded(e, h) \/ (h \in DOMAIN models /\ ~IsRemoved(e, h)) => h \in DOMAIN models'
      BY <2>2, <2>4, ModelSlots
    <3>2. ASSUME NEW kinds, kinds = <<"client_state">> \/ kinds = <<"projects", e.kind>>,
                 events' = Tail(events) \o [k \in DOMAIN kinds |-> ToController(kinds[k], e.host)]
          PROVE  QueueInv'
      <4>1. PICK t : t = [k \in DOMAIN kinds |-> ToController(kinds[k], e.host)]
        OBVIOUS
      <4>2. DOMAIN kinds = 1..1 \/ DOMAIN kinds = 1..2
        BY <3>2
      <4>3. PICK n \in Nat : DOMAIN kinds = 1..n
        BY <4>2
      <4>4. PICK T : T = {ToController(kinds[k], e.host) : k \in 1..n}
        OBVIOUS
      <4>5. t \in [1..n -> T]
        BY <4>1, <4>3, <4>4
      <4>6. t \in Seq(T) /\ Len(t) = n
        <5>1. t \in Seq(T)
          BY <4>5, SeqDef
        <5> QED  BY <4>3, <4>5, <5>1, LenProperties
      <4>7. e.host \in Hosts
        <5>1. PICK S : events \in Seq(S)
          BY DEF QueueInv
        <5>2. 1 \in 1..Len(events)
          BY <2>2, <5>1, EmptySeq
        <5> QED  BY <2>2, <5>2 DEF QueueInv, Fits
      <4>8. \A k \in 1..Len(t) : t[k].to = "controller" /\ t[k].host \in Hosts
        BY <4>1, <4>3, <4>6, <4>7 DEF ToController
      <4> QED  BY <2>2, <2>3, <3>1, <3>2, <4>1, <4>6, <4>8, QueueHandles
    <3>3. CASE events' = Tail(events)
      BY <2>2, <2>3, <3>1, <3>3, QueueHandlesOnly
    <3> QED  BY <3>1, <3>2, <3>3
  <2>5. CASE e.to = "controller" /\ ControllerSlot(e)
    <3>1. events' = Tail(events) /\ UNCHANGED models
      BY <2>5 DEF ControllerSlot, Handled
    <3>2. \A h : ~IsAdded(e, h)
      BY <2>5 DEF IsAdded
    <3> QED  BY <2>2, <2>3, <2>5, <3>1, <3>2, QueueHandlesOnly
  <2> QED  BY <1>1, <2>1, <2>4, <2>5 DEF HandleEvent
<1>3. ASSUME NEW h \in scenario.hosts, ShutDownClient(h) PROVE QueueInv'
  BY <1>3, <1>U DEF ShutDownClient, Throws, libVars, modelVars
<1>4. ASSUME NEW h \in scenario.hosts, NEW password, AddComputer(h, password) PROVE QueueInv'
  <2>1. h \in Hosts
    BY ScenarioAssumption DEF LibInv
  <2>2. CASE host[h] = "off" /\ ~down
    <3>1. PICK e : e = ToModel("added", h, {})
      OBVIOUS
    <3>2. /\ events' = Append(events, e) /\ UNCHANGED models
          /\ host' = [host EXCEPT ![h] = "connecting"]
      BY <1>4, <2>2, <3>1 DEF AddComputer, Post
    <3>3. e.to = "model" /\ e.kind = "added" /\ e.host = h
      BY <3>1 DEF ToModel
    <3>4. Fits(e)
      BY <2>1, <3>3 DEF Fits, ModelKinds, NewsKinds
    <3>5. \A g \in On' : IsAdded(e, g) \/ (g \in On /\ ~IsRemoved(e, g))
      BY <3>2, <3>3 DEF On, IsAdded, IsRemoved, LibInv
    <3> QED  BY <3>2, <3>3, <3>4, <3>5, QueuePosts
  <2>3. CASE ~(host[h] = "off" /\ ~down)
    BY <1>4, <1>U, <2>3 DEF AddComputer
  <2> QED  BY <2>2, <2>3
<1>5. ASSUME UNCHANGED <<scenario, client, libVars, loginVars, modelVars, endVars>> PROVE QueueInv'
  BY <1>5, <1>U DEF libVars, modelVars
<1>6. ASSUME ClientChanges PROVE QueueInv'
  <2>1. UNCHANGED <<events, models, host>>
    BY <1>6 DEF ClientChanges, Attach, Detach, TaskChanges, ModesChange, OthersChange, Changed,
       libVars, guiVars, modelVars
  <2> QED  BY <1>U, <2>1
<1>7. ASSUME NEW h \in Hosts, Connected(h) \/ ConnectFails(h) PROVE QueueInv'
  <2>1. UNCHANGED models /\ host[h] # "off"
        /\ (Post(ToController("connected", h)) \/ Post(ToController("error", h)))
    BY <1>7 DEF Connected, ConnectFails
  <2>2. On' = On
    BY <1>7 DEF Connected, ConnectFails, On, LibInv
  <2> QED  BY <1>C, <2>1, <2>2
<1>8. ASSUME NEW h \in Hosts, JobFails(h) \/ Authorize(h) PROVE QueueInv'
  <2>1. /\ UNCHANGED models /\ host[h] # "off"
        /\ \/ Post(ToController("authorized", h)) \/ Post(ToController("error", h))
           \/ Post(ToController("authorization_failed", h))
    BY <1>8 DEF JobFails, Authorize
  <2>2. On' = On
    BY <1>8 DEF JobFails, Authorize, On
  <2> QED  BY <1>C, <2>1, <2>2
<1>9. ASSUME NEW h \in Hosts, IntervalPasses(h) \/ SchedulerPass(h) \/ PostExecution(h) \/ RunQuit(h)
      PROVE  QueueInv'
  BY <1>9, <1>U DEF IntervalPasses, SchedulerPass, PostExecution, RunQuit, guiVars, modelVars
<1>10. ASSUME NEW h \in Hosts, RunPeriodic(h) PROVE QueueInv'
  <2>1. PICK kind : kind = Head(jobs[h]).kind
    OBVIOUS
  <2>2. PICK e : e = ToModel(kind, h, Answer(h, kind))
    OBVIOUS
  <2>3. kind \in Kinds /\ Post(e) /\ UNCHANGED <<models, host>> /\ host[h] # "off"
    BY <1>10, <2>1, <2>2 DEF RunPeriodic
  <2>4. e.to = "model" /\ e.kind = kind /\ e.host = h /\ e.data = Answer(h, kind)
    BY <2>2 DEF ToModel
  <2>5. ASSUME kind \in NewsKinds PROVE e.data \in Seq(NewsOf(h))
    <3>1. PICK n : n = client[h].logged - fetched[h]
      OBVIOUS
    <3>2. PICK s : s = [k \in 1..n |-> [host |-> h, number |-> fetched[h] + k]]
      OBVIOUS
    <3>3. n \in Int /\ fetched[h] \in Nat
      BY <3>1 DEF LibInv, ClientFits
    <3>4. e.data = s
      BY <2>4, <2>5, <3>1, <3>2 DEF Answer, NewsKinds
    <3>5. \A k \in 1..n : [host |-> h, number |-> fetched[h] + k] \in NewsOf(h)
      BY <3>3 DEF NewsOf
    <3>6. PICK m \in Nat : 1..m = 1..n
      <4>1. CASE n \in Nat
        BY <4>1
      <4>2. CASE n \notin Nat
        <5>1. 1..n = {} /\ 1..0 = {}
          BY <3>3, <4>2
        <5> QED  BY <5>1
      <4> QED  BY <4>1, <4>2
    <3>7. s \in [1..m -> NewsOf(h)]
      BY <3>2, <3>5, <3>6
    <3> QED  BY <3>4, <3>7, SeqDef
  <2>6. Fits(e)
    <3>1. e.kind \in {"projects", "statistics"} => DOMAIN e.data \subseteq Projects
      BY <2>4 DEF Answer, LibInv, ClientFits
    <3> QED  BY <2>3, <2>4, <2>5, <3>1 DEF Fits, ModelKinds
  <2>7. h \in On /\ ~IsRemoved(e, e.host) /\ On' = On
    BY <2>3, <2>4 DEF On, IsRemoved, Kinds
  <2> QED  BY <1>P, <2>3, <2>4, <2>6, <2>7
<1>11. ASSUME NEW h \in Hosts, Removed(h) PROVE QueueInv'
  <2>1. PICK e : e = ToModel("removed", h, {})
    OBVIOUS
  <2>2. /\ events' = Append(events, e) /\ UNCHANGED models /\ host[h] # "off"
        /\ host' = [host EXCEPT ![h] = "off"]
    BY <1>11, <2>1 DEF Removed, Post
  <2>3. e.to = "model" /\ e.kind = "removed" /\ e.host = h
    BY <2>1 DEF ToModel
  <2>4. Fits(e)
    BY <2>3 DEF Fits, ModelKinds, NewsKinds
  <2>5. \A g \in On' : g \in On /\ ~IsRemoved(e, g)
    BY <2>2, <2>3 DEF On, IsRemoved, LibInv
  <2> QED  BY <1>0, <2>2, <2>3, <2>4, <2>5, QueuePosts
<1>14. CASE UNCHANGED vars
  BY <1>14, <1>U DEF vars, libVars, guiVars, modelVars
<1> QED
  BY <1>1, <1>3, <1>4, <1>5, <1>6, <1>7, <1>8, <1>9, <1>10, <1>11, <1>14, ShutdownQueue
     DEF GuiNext, GuiStep, User, Connects, Schedules, Works, WorkerStep, Leaves

-----------------------------------------------------------------------------
(* What is shown.                                                          *)

LEMMA ShownInitially == GuiInit => ShownInv
<1> SUFFICES ASSUME GuiInit PROVE ShownInv
  OBVIOUS
<1>1. selected = NoHost /\ shown = [kind \in Kinds \ {"client_state"} |-> Nothing]
  BY DEF GuiInit, Init, NothingShown
<1>2. \A kind \in Kinds \ {"client_state"} : shown[kind].host = NoHost /\ shown[kind].data = <<>>
  BY <1>1 DEF Nothing
<1>3. \A S : <<>> \in Seq(S)
  OBVIOUS
<1> QED  BY <1>1, <1>2, <1>3 DEF ShownInv

\* Something of the selected host is shown.
LEMMA ShowsOwn ==
  ASSUME ShownInv, NEW h \in Hosts, selected = h, NEW kind, NEW data, Show(h, kind, data),
         UNCHANGED selected, kind \in NewsKinds => data \in Seq(NewsOf(h))
  PROVE  ShownInv'
<1>1. DOMAIN shown' = DOMAIN shown
      /\ \A k \in DOMAIN shown : shown'[k] = IF k = kind THEN [host |-> h, data |-> data] ELSE shown[k]
  BY DEF Show
<1>2. h # NoHost
  BY ModelAssumption
<1>3. ASSUME NEW k \in DOMAIN shown \ {"cc_status"}
      PROVE  /\ shown'[k].host \in {selected, NoHost}
             /\ shown'[k].host = NoHost => shown'[k].data = <<>>
             /\ k \in NewsKinds => shown'[k].data \in Seq(NewsOf(shown'[k].host))
  <2>1. CASE k = kind
    <3>1. shown'[k].host = h /\ shown'[k].data = data
      BY <1>1, <2>1
    <3> QED  BY <1>2, <2>1, <3>1
  <2>2. CASE k # kind
    BY <1>1, <2>2 DEF ShownInv
  <2> QED  BY <2>1, <2>2
<1> QED  BY <1>1, <1>3 DEF ShownInv

LEMMA ModelSlotShows ==
  ASSUME ShownInv, NEW e, Fits(e), e.to = "model", ModelSlot(e)
  PROVE  ShownInv'
<1>U. ASSUME UNCHANGED <<selected, shown>> PROVE ShownInv'
  BY <1>U DEF ShownInv
<1>S. ASSUME NEW kind, NEW data, selected = e.host, Show(e.host, kind, data), UNCHANGED selected,
             kind \in NewsKinds => data \in Seq(NewsOf(e.host))
      PROVE  ShownInv'
  BY <1>S, ShowsOwn DEF Fits
<1>N. \A kind \in Kinds \ NewsKinds : kind \notin NewsKinds
  OBVIOUS
<1>1. CASE e.kind = "added"
  <2>1. AddHost(e.host) /\ e.host \in Hosts
    BY <1>1 DEF ModelSlot, Fits
  <2>2. UNCHANGED shown /\ selected' = IF selected = NoHost THEN e.host ELSE selected
    BY <2>1 DEF AddHost
  <2> QED  BY <2>1, <2>2 DEF ShownInv
<1>2. CASE e.kind = "removed"
  <2>1. RemoveHost(e.host)
    BY <1>2 DEF ModelSlot
  <2>2. CASE selected # e.host
    BY <1>U, <2>1, <2>2 DEF RemoveHost
  <2>3. CASE selected = e.host
    <3>1. /\ selected' = NoHost
          /\ shown' = [NothingShown EXCEPT !["cc_status"] = shown["cc_status"]]
      BY <2>1, <2>3 DEF RemoveHost
    <3>2. DOMAIN shown' = Kinds \ {"client_state"}
      BY <3>1 DEF NothingShown
    <3>3. \A kind \in DOMAIN shown' \ {"cc_status"} :
            shown'[kind].host = NoHost /\ shown'[kind].data = <<>>
      BY <3>1, <3>2 DEF NothingShown, Nothing
    <3>4. \A S : <<>> \in Seq(S)
      OBVIOUS
    <3>5. \A kind \in DOMAIN shown' \ {"cc_status"} :
            /\ shown'[kind].host \in {selected', NoHost}
            /\ shown'[kind].data \in Seq(NewsOf(shown'[kind].host))
      BY <3>1, <3>3, <3>4
    <3> QED  BY <3>1, <3>2, <3>3, <3>5 DEF ShownInv
  <2> QED  BY <2>2, <2>3
<1>3. CASE e.kind = "cc_status"
  BY <1>3, <1>U, <1>S DEF ModelSlot, UpdateCCStatus, NewsKinds
<1>4. CASE e.kind = "client_state"
  BY <1>4, <1>U DEF ModelSlot, UpdateClientState
<1>5. CASE e.kind = "projects"
  BY <1>5, <1>U, <1>S DEF ModelSlot, UpdateProjects, NewsKinds
<1>6. CASE e.kind = "tasks"
  BY <1>6, <1>U, <1>S DEF ModelSlot, UpdateTasks, NewsKinds
<1>7. CASE e.kind = "statistics"
  BY <1>7, <1>U, <1>S DEF ModelSlot, UpdateByProject, NewsKinds
<1>8. CASE e.kind = "disk_usage"
  BY <1>8, <1>U, <1>S DEF ModelSlot, UpdateByProject, NewsKinds
<1>9. CASE e.kind = "file_transfers"
  BY <1>9, <1>U, <1>S DEF ModelSlot, UpdateFileTransfers, NewsKinds
<1>10. CASE e.kind \in NewsKinds
  <2>1. e.data \in Seq(NewsOf(e.host))
    BY <1>10 DEF Fits
  <2>2. AppendNews(e.host, e.kind, e.data) \/ (e.kind = "notices" /\ RefreshNotices(e.host, e.data))
    BY <1>10 DEF ModelSlot, NewsKinds
  <2>3. ASSUME AppendNews(e.host, e.kind, e.data), selected = e.host
        PROVE  shown[e.kind].data \o e.data \in Seq(NewsOf(e.host))
    <3>1. e.kind \in DOMAIN shown \ {"cc_status"}
      BY <1>10 DEF ShownInv, NewsKinds, Kinds
    <3>2. shown[e.kind].data \in Seq(NewsOf(e.host))
      BY <1>10, <2>3, <3>1 DEF ShownInv
    <3> QED  BY <2>1, <3>2, ConcatProperties
  <2>4. CASE AppendNews(e.host, e.kind, e.data)
    BY <1>U, <1>S, <2>3, <2>4 DEF AppendNews
  <2>5. CASE e.kind = "notices" /\ RefreshNotices(e.host, e.data)
    BY <1>U, <1>S, <2>1, <2>5 DEF RefreshNotices
  <2> QED  BY <2>2, <2>4, <2>5
<1> QED
  BY <1>1, <1>2, <1>3, <1>4, <1>5, <1>6, <1>7, <1>8, <1>9, <1>10 DEF Fits, ModelKinds, Kinds, NewsKinds

LEMMA ShownPreserved == QueueInv /\ ShownInv /\ [GuiNext]_vars => ShownInv'
<1> SUFFICES ASSUME QueueInv, ShownInv, [GuiNext]_vars PROVE ShownInv'
  OBVIOUS
<1>U. ASSUME UNCHANGED <<selected, shown>> PROVE ShownInv'
  BY <1>U DEF ShownInv
<1>1. ASSUME HandleEvent PROVE ShownInv'
  <2>1. PICK e : e = Head(events)
    OBVIOUS
  <2>2. Fits(e)
    <3>1. PICK S : events \in Seq(S)
      BY DEF QueueInv
    <3>2. events # <<>>
      BY <1>1 DEF HandleEvent
    <3>3. 1 \in 1..Len(events) /\ e = events[1]
      BY <2>1, <3>1, <3>2, EmptySeq
    <3> QED  BY <3>3 DEF QueueInv
  <2>3. CASE e.to = "model" /\ ModelSlot(e)
    BY <2>2, <2>3, ModelSlotShows
  <2>4. CASE ControllerSlot(e)
    BY <1>U, <2>4 DEF ControllerSlot
  <2> QED  BY <1>1, <2>1, <2>3, <2>4 DEF HandleEvent
<1>2. ASSUME ClientAnswered PROVE ShownInv'
  BY <1>2, <1>U DEF ClientAnswered
<1>3. ASSUME NEW h, ShutDownClient(h) \/ \E password : AddComputer(h, password) PROVE ShownInv'
  BY <1>3, <1>U DEF ShutDownClient, AddComputer, modelVars
<1>4. ASSUME UNCHANGED modelVars PROVE ShownInv'
  BY <1>4, <1>U DEF modelVars
<1>5. ASSUME ClientChanges PROVE ShownInv'
  <2>1. UNCHANGED modelVars
    BY <1>5 DEF ClientChanges, Attach, Detach, TaskChanges, ModesChange, OthersChange, Changed, guiVars
  <2> QED  BY <1>4, <2>1
<1>6. ASSUME NEW h, Connected(h) \/ ConnectFails(h) \/ RunPeriodic(h) \/ Authorize(h) \/ JobFails(h)
                    \/ Removed(h)
      PROVE  ShownInv'
  BY <1>6, <1>U DEF Connected, ConnectFails, RunPeriodic, Authorize, JobFails, Removed
<1>7. ASSUME NEW h, IntervalPasses(h) \/ SchedulerPass(h) \/ PostExecution(h) \/ RunQuit(h)
      PROVE  ShownInv'
  BY <1>7, <1>4 DEF IntervalPasses, SchedulerPass, PostExecution, RunQuit, guiVars
<1>8. CASE UNCHANGED vars
  BY <1>8, <1>4 DEF vars, guiVars
<1> QED
  BY <1>1, <1>2, <1>3, <1>4, <1>5, <1>6, <1>7, <1>8
     DEF GuiNext, GuiStep, User, Connects, Schedules, Works, WorkerStep, Leaves

-----------------------------------------------------------------------------
(* The pending logins.                                                     *)

LEMMA LoginInitially == GuiInit => LoginInv
<1> SUFFICES ASSUME GuiInit PROVE LoginInv
  OBVIOUS
<1>1. logins = [h \in Hosts |-> <<>>]
  BY DEF GuiInit
<1>2. \A S : <<>> \in Seq(S) /\ Len(<<>>) = 0
  OBVIOUS
<1>3. logins \in [Hosts -> Seq(Passwords)]
  BY <1>1, <1>2
<1>4. \A h \in Hosts : used[h].password = ""
  BY DEF GuiInit, Unused
<1>5. \A h \in Hosts : logins[h] = <<>> /\ \A k \in 1..Len(logins[h]) : FALSE
  BY <1>1, <1>2
<1>6. \A h \in Hosts : OwnLogins(h)
  BY <1>5 DEF OwnLogins
<1> QED  BY <1>3, <1>4, <1>6 DEF GuiInit, LoginInv, OwnPassword

LEMMA LoginPreserved == LibInv /\ QueueInv /\ LoginInv /\ [GuiNext]_vars => LoginInv'
<1> SUFFICES ASSUME LibInv, QueueInv, LoginInv, [GuiNext]_vars PROVE LoginInv'
  OBVIOUS
<1>U. ASSUME UNCHANGED <<host, loginVars, down>> PROVE LoginInv'
  BY <1>U DEF LoginInv, OwnLogins, OwnPassword, loginVars
\* A host that turns to what is neither off nor leaving, or was leaving before.
<1>H. ASSUME NEW h \in Hosts, NEW status, host' = [host EXCEPT ![h] = status],
             UNCHANGED <<loginVars, down>>,
             status \notin {"off", "leaving"} \/ host[h] = "leaving"
      PROVE  LoginInv'
  <2>1. \A g \in Hosts : host'[g] = host[g] \/ host'[g] \notin {"off", "leaving"} \/ host[g] = "leaving"
    BY <1>H DEF LibInv
  <2> QED  BY <1>H, <2>1 DEF LoginInv, OwnLogins, OwnPassword, loginVars
\* The host loses its logins.
<1>F. ASSUME NEW h \in Hosts, ForgetLogins(h), UNCHANGED <<entered, used, down>>,
             host' = host \/ host' = [host EXCEPT ![h] = "leaving"]
      PROVE  LoginInv'
  <2>1. logins' \in [Hosts -> Seq(Passwords)] /\ logins'[h] = <<>>
    <3>1. <<>> \in Seq(Passwords)
      OBVIOUS
    <3> QED  BY <1>F, <3>1 DEF ForgetLogins, LoginInv
  <2>2. \A g \in Hosts \ {h} : UNCHANGED <<host[g], logins[g]>> /\ (g \in leftover => g \in leftover')
    BY <1>F DEF ForgetLogins, LibInv, LoginInv
  <2>3. ASSUME NEW g \in Hosts PROVE OwnLogins(g)'
    <3>1. CASE g = h
      <4>1. \A k \in 1..Len(logins'[g]) : FALSE
        BY <2>1, <3>1
      <4> QED  BY <2>1, <3>1, <4>1 DEF OwnLogins
    <3>2. CASE g # h
      BY <1>F, <2>2, <3>2 DEF OwnLogins, LoginInv
    <3> QED  BY <3>1, <3>2
  <2>4. OwnPassword'
    BY <1>F DEF LoginInv, OwnPassword
  <2> QED  BY <1>F, <2>1, <2>3, <2>4 DEF LoginInv, OwnLogins
<1>1. ASSUME HandleEvent PROVE LoginInv'
  <2>1. PICK e : e = Head(events)
    OBVIOUS
  <2>2. e.host \in Hosts
    <3>1. PICK S : events \in Seq(S)
      BY DEF QueueInv
    <3>2. events # <<>>
      BY <1>1 DEF HandleEvent
    <3>3. 1 \in 1..Len(events) /\ e = events[1]
      BY <2>1, <3>1, <3>2, EmptySeq
    <3> QED  BY <3>3 DEF QueueInv, Fits
  <2>3. CASE ModelSlot(e)
    BY <1>U, <2>3 DEF ModelSlot, libVars, endVars
  <2>4. ASSUME RemoveLater(e.host)
        PROVE  UNCHANGED down /\ (host' = host \/ host' = [host EXCEPT ![e.host] = "leaving"])
    BY <2>4 DEF RemoveLater, Throws, libVars, endVars
  <2>5. ASSUME HandleConnected(e.host) PROVE LoginInv'
    <3>1. UNCHANGED <<host, logins, entered, leftover, down>>
      BY <2>5 DEF HandleConnected, Throws, libVars, endVars
    <3>2. \A h \in Hosts : OwnLogins(h)'
      BY <3>1 DEF LoginInv, OwnLogins
    <3>3. CASE Accepted(e.host) /\ logins[e.host] # <<>>
      <4>1. used' = [used EXCEPT ![e.host] = [password |-> Head(logins[e.host]),
                                             excused |-> e.host \in leftover]]
        BY <2>5, <3>3 DEF HandleConnected
      <4>2. e.host \in leftover \/ Head(logins[e.host]) = entered[e.host]
        <5>1. logins[e.host] \in Seq(Passwords)
          BY <2>2 DEF LoginInv
        <5>2. 1 \in 1..Len(logins[e.host]) /\ Head(logins[e.host]) = logins[e.host][1]
          BY <3>3, <5>1, EmptySeq
        <5> QED  BY <2>2, <5>2 DEF LoginInv, OwnLogins
      <4>3. DOMAIN used' = Hosts
        BY <4>1 DEF LoginInv
      <4>4. \A h \in Hosts : used'[h].password \in {"", entered[h]} \/ used'[h].excused
        <5>1. ASSUME NEW h \in Hosts, h # e.host PROVE used'[h] = used[h]
          BY <4>1, <5>1 DEF LoginInv
        <5>2. /\ used'[e.host].password = Head(logins[e.host])
              /\ used'[e.host].excused = (e.host \in leftover)
          BY <2>2, <4>1 DEF LoginInv
        <5>3. used'[e.host].password \in {"", entered[e.host]} \/ used'[e.host].excused
          BY <4>2, <5>2
        <5> QED  BY <5>1, <5>3 DEF LoginInv, OwnPassword
      <4> QED  BY <3>1, <3>2, <4>3, <4>4 DEF LoginInv, OwnLogins, OwnPassword
    <3>4. CASE ~(Accepted(e.host) /\ logins[e.host] # <<>>)
      <4>1. UNCHANGED used
        BY <2>5, <3>4 DEF HandleConnected
      <4> QED  BY <3>1, <3>2, <4>1 DEF LoginInv, OwnLogins, OwnPassword
    <3> QED  BY <3>3, <3>4
  <2>6. ASSUME HandleAuthorized(e.host) PROVE LoginInv'
    <3>1. ForgetLogins(e.host) /\ UNCHANGED <<host, entered, used, down>>
      BY <2>6 DEF HandleAuthorized, Throws, libVars, endVars
    <3> QED  BY <1>F, <2>2, <3>1
  <2>7. ASSUME HandleAuthorizationFailed(e.host) PROVE LoginInv'
    BY <1>F, <2>2, <2>4, <2>7 DEF HandleAuthorizationFailed
  <2>8. ASSUME HandleError(e.host) PROVE LoginInv'
    <3>1. /\ UNCHANGED <<logins, entered, used, down>>
          /\ host' = host \/ host' = [host EXCEPT ![e.host] = "leaving"]
          /\ leftover \subseteq leftover'
          /\ logins[e.host] = <<>> \/ e.host \in leftover'
      BY <2>4, <2>8 DEF HandleError
    <3>2. \A h \in Hosts : OwnLogins(h)'
      <4>1. ASSUME NEW h \in Hosts, h # e.host PROVE host'[h] = host[h]
        BY <3>1, <4>1 DEF LibInv
      <4> QED  BY <3>1, <4>1 DEF LoginInv, OwnLogins
    <3> QED  BY <3>1, <3>2 DEF LoginInv, OwnLogins, OwnPassword
  <2>9. ASSUME ScheduleUpdate(e.host, e.kind) PROVE LoginInv'
    BY <1>U, <2>9 DEF ScheduleUpdate, Throws, libVars, endVars
  <2>10. CASE ControllerSlot(e)
    BY <2>5, <2>6, <2>7, <2>8, <2>9, <2>10 DEF ControllerSlot
  <2> QED  BY <1>1, <2>1, <2>3, <2>10 DEF HandleEvent
<1>2. ASSUME ClientAnswered PROVE LoginInv'
  <2>1. UNCHANGED loginVars
    BY <1>2 DEF ClientAnswered
  <2>2. CASE answer = "taken"
    <3>1. down' = TRUE
      BY <1>2, <2>2 DEF ClientAnswered
    <3> QED  BY <2>1, <3>1 DEF LoginInv, OwnLogins, OwnPassword, loginVars
  <2>3. CASE answer # "taken"
    <3>1. UNCHANGED <<host, down>>
      BY <1>2, <2>3 DEF ClientAnswered, LibInv, libVars
    <3> QED  BY <1>U, <2>1, <3>1
  <2> QED  BY <2>2, <2>3
<1>3. ASSUME NEW h, ShutDownClient(h) PROVE LoginInv'
  BY <1>3, <1>U DEF ShutDownClient, Throws, libVars
<1>4. ASSUME NEW h \in scenario.hosts, NEW password \in scenario.passwords, AddComputer(h, password)
      PROVE  LoginInv'
  <2>1. h \in Hosts /\ password \in Passwords
    BY ScenarioAssumption DEF LibInv, Passwords
  <2>2. UNCHANGED down /\ logins' = [logins EXCEPT ![h] = Append(@, password)]
    BY <1>4 DEF AddComputer, endVars
  <2>3. logins' \in [Hosts -> Seq(Passwords)] /\ \A g \in Hosts \ {h} : logins'[g] = logins[g]
    <3>1. Append(logins[h], password) \in Seq(Passwords)
      BY <2>1, AppendProperties DEF LoginInv
    <3> QED  BY <2>1, <2>2, <3>1 DEF LoginInv
  <2>4. CASE host[h] = "off" /\ ~down
    <3>1. /\ host' = [host EXCEPT ![h] = "connecting"] /\ entered' = [entered EXCEPT ![h] = password]
          /\ used' = [used EXCEPT ![h] = Unused] /\ UNCHANGED leftover
      BY <1>4, <2>4 DEF AddComputer
    <3>2. OwnLogins(h)'
      <4>1. CASE h \in leftover
        BY <3>1, <4>1 DEF OwnLogins
      <4>2. CASE h \notin leftover
        <5>1. logins[h] = <<>>
          BY <2>1, <2>4, <4>2 DEF LoginInv, OwnLogins
        <5>2. logins'[h] = <<password>>
          BY <2>1, <2>2, <5>1 DEF LoginInv
        <5>3. \A k \in 1..Len(logins'[h]) : logins'[h][k] = password
          BY <5>2
        <5>4. entered'[h] = password /\ host'[h] = "connecting"
          BY <2>1, <3>1 DEF LoginInv, LibInv
        <5> QED  BY <5>3, <5>4 DEF OwnLogins
      <4> QED  BY <4>1, <4>2
    <3>3. ASSUME NEW g \in Hosts, g # h PROVE OwnLogins(g)' /\ used'[g] = used[g] /\ entered'[g] = entered[g]
      <4>1. UNCHANGED <<host[g], logins[g], entered[g], used[g]>>
        BY <2>3, <3>1, <3>3 DEF LoginInv, LibInv
      <4> QED  BY <2>2, <3>1, <4>1 DEF LoginInv, OwnLogins
    <3>4. used'[h].password = ""
      BY <2>1, <3>1 DEF LoginInv, Unused
    <3>5. OwnPassword'
      BY <3>3, <3>4 DEF LoginInv, OwnPassword
    <3>6. DOMAIN entered' = Hosts /\ DOMAIN used' = Hosts
      BY <3>1 DEF LoginInv
    <3>7. \A g \in Hosts : OwnLogins(g)'
      BY <3>2, <3>3
    <3> QED  BY <2>3, <3>5, <3>6, <3>7 DEF LoginInv
  <2>5. CASE ~(host[h] = "off" /\ ~down)
    <3>1. leftover' = leftover \cup {h} /\ UNCHANGED <<host, entered, used>>
      BY <1>4, <2>5 DEF AddComputer
    <3>2. \A g \in Hosts : OwnLogins(g)'
      BY <2>2, <2>3, <3>1 DEF LoginInv, OwnLogins
    <3>3. OwnPassword'
      BY <3>1 DEF LoginInv, OwnPassword
    <3> QED  BY <2>3, <3>1, <3>2, <3>3 DEF LoginInv
  <2> QED  BY <2>4, <2>5
<1>5. ASSUME UNCHANGED <<scenario, client, libVars, loginVars, modelVars, endVars>> PROVE LoginInv'
  BY <1>5, <1>U DEF libVars, endVars
<1>6. ASSUME ClientChanges PROVE LoginInv'
  <2>1. UNCHANGED <<host, loginVars, down>>
    BY <1>6 DEF ClientChanges, Attach, Detach, TaskChanges, ModesChange, OthersChange, Changed,
       libVars, guiVars, endVars
  <2> QED  BY <1>U, <2>1
<1>7. ASSUME NEW h \in Hosts, Connected(h) \/ ConnectFails(h) PROVE LoginInv'
  <2>1. UNCHANGED <<loginVars, down>>
    BY <1>7 DEF Connected, ConnectFails, endVars
  <2>2. host' = [host EXCEPT ![h] = "connected"] \/ host' = [host EXCEPT ![h] = "failed"]
    BY <1>7 DEF Connected, ConnectFails
  <2> QED  BY <1>H, <2>1, <2>2
<1>8. ASSUME NEW h \in Hosts, Removed(h) PROVE LoginInv'
  BY <1>8, <1>H DEF Removed
<1>9. ASSUME NEW h, RunPeriodic(h) \/ Authorize(h) \/ JobFails(h) \/ RunQuit(h) PROVE LoginInv'
  BY <1>9, <1>U DEF RunPeriodic, Authorize, JobFails, RunQuit, endVars
<1>10. ASSUME NEW h, IntervalPasses(h) \/ SchedulerPass(h) \/ PostExecution(h) PROVE LoginInv'
  BY <1>10, <1>U DEF IntervalPasses, SchedulerPass, PostExecution, guiVars, endVars
<1>11. CASE UNCHANGED vars
  BY <1>11, <1>U DEF vars, libVars, guiVars, endVars
<1> QED
  BY <1>1, <1>2, <1>3, <1>4, <1>5, <1>6, <1>7, <1>8, <1>9, <1>10, <1>11
     DEF GuiNext, GuiStep, User, Connects, Schedules, Works, WorkerStep, Leaves

-----------------------------------------------------------------------------
(* The statistics tab.                                                     *)

LEMMA TabInitially == GuiInit => TabInv
<1>1. Cardinality(Projects) \in Nat
  BY ModelAssumption, FS_CardinalityType
<1> QED  BY <1>1, EmptyTabIsConsistent DEF GuiInit, TabInv

\* The slots call the tab with what the event brings.
LEMMA ModelSlotOnTab ==
  ASSUME TabInv, NEW e, Fits(e), e.to = "model", ModelSlot(e)
  PROVE  TabInv'
<1>1. PICK n \in Nat : n = Cardinality(Projects) /\ Projects = 1..n
  BY ModelAssumption, FS_CardinalityType
<1>2. Consistent(tab, n)
  BY <1>1 DEF TabInv
<1>3. CASE tab' = tab
  BY <1>1, <1>2, <1>3 DEF TabInv
<1>4. CASE e.kind = "removed" /\ tab' = StatisticsUpdated(ProjectsUpdated(tab, {}), <<>>)
  <2>1. PICK t : t = ProjectsUpdated(tab, {})
    OBVIOUS
  <2>2. Consistent(t, n)
    BY <1>2, <2>1, ProjectsAreUpdated
  <2>3. DOMAIN <<>> \subseteq 1..n
    OBVIOUS
  <2>4. Consistent(tab', n)
    BY <1>4, <2>1, <2>2, <2>3, StatisticsAreUpdated
  <2> QED  BY <1>1, <2>4 DEF TabInv
<1>5. CASE tab' = ProjectsUpdated(tab, DOMAIN e.data)
  <2>1. Consistent(tab', n)
    BY <1>2, <1>5, ProjectsAreUpdated
  <2> QED  BY <1>1, <2>1 DEF TabInv
<1>6. CASE e.kind = "statistics" /\ tab' = StatisticsUpdated(tab, e.data)
  <2>1. DOMAIN e.data \subseteq 1..n
    BY <1>1, <1>6 DEF Fits
  <2>2. Consistent(tab', n)
    BY <1>2, <1>6, <2>1, StatisticsAreUpdated
  <2> QED  BY <1>1, <2>2 DEF TabInv
<1>7. e.kind \in ModelKinds
  BY DEF Fits
<1> QED  BY <1>3, <1>4, <1>5, <1>6, <1>7 DEF ModelSlot, ModelKinds, Kinds

LEMMA TabPreserved == QueueInv /\ TabInv /\ [GuiNext]_vars => TabInv'
<1> SUFFICES ASSUME QueueInv, TabInv, [GuiNext]_vars PROVE TabInv'
  OBVIOUS
<1>U. ASSUME UNCHANGED tab PROVE TabInv'
  BY <1>U DEF TabInv
<1>1. ASSUME HandleEvent PROVE TabInv'
  <2>1. PICK e : e = Head(events)
    OBVIOUS
  <2>2. Fits(e)
    <3>1. PICK S : events \in Seq(S)
      BY DEF QueueInv
    <3>2. events # <<>>
      BY <1>1 DEF HandleEvent
    <3>3. 1 \in 1..Len(events) /\ e = events[1]
      BY <2>1, <3>1, <3>2, EmptySeq
    <3> QED  BY <3>3 DEF QueueInv
  <2>3. CASE e.to = "model" /\ ModelSlot(e)
    BY <2>2, <2>3, ModelSlotOnTab
  <2>4. CASE ControllerSlot(e)
    BY <1>U, <2>4 DEF ControllerSlot
  <2> QED  BY <1>1, <2>1, <2>3, <2>4 DEF HandleEvent
<1>2. ASSUME ClientAnswered PROVE TabInv'
  BY <1>2, <1>U DEF ClientAnswered
<1>3. ASSUME NEW h, ShutDownClient(h) \/ \E password : AddComputer(h, password) PROVE TabInv'
  BY <1>3, <1>U DEF ShutDownClient, AddComputer
<1>4. ASSUME UserOnStatistics PROVE TabInv'
  <2>1. PICK n \in Nat : n = Cardinality(Projects)
    BY ModelAssumption, FS_CardinalityType
  <2>2. Consistent(tab, n)
    BY <2>1 DEF TabInv
  <2>3. Consistent(tab, n)'
    BY <1>4, <2>2, UserKeepsTheTab
  <2> QED  BY <2>1, <2>3 DEF TabInv
<1>5. ASSUME ClientChanges PROVE TabInv'
  <2>1. UNCHANGED tab
    BY <1>5 DEF ClientChanges, Attach, Detach, TaskChanges, ModesChange, OthersChange, Changed, guiVars
  <2> QED  BY <1>U, <2>1
<1>6. ASSUME NEW h, Connected(h) \/ ConnectFails(h) \/ RunPeriodic(h) \/ Authorize(h) \/ JobFails(h)
                    \/ Removed(h)
      PROVE  TabInv'
  BY <1>6, <1>U DEF Connected, ConnectFails, RunPeriodic, Authorize, JobFails, Removed
<1>7. ASSUME NEW h, IntervalPasses(h) \/ SchedulerPass(h) \/ PostExecution(h) \/ RunQuit(h)
      PROVE  TabInv'
  BY <1>7, <1>U DEF IntervalPasses, SchedulerPass, PostExecution, RunQuit, guiVars
<1>8. CASE UNCHANGED vars
  BY <1>8, <1>U DEF vars, guiVars
<1> QED
  BY <1>1, <1>2, <1>3, <1>4, <1>5, <1>6, <1>7, <1>8
     DEF GuiNext, GuiStep, User, Connects, Schedules, Works, WorkerStep, Leaves

-----------------------------------------------------------------------------
(* The properties.                                                         *)

GuiInv == LibInv /\ QueueInv /\ ShownInv /\ LoginInv /\ TabInv

LEMMA GuiInvariant == GuiSpec => []GuiInv
<1>1. GuiInit => GuiInv
  BY LibInitially, QueueInitially, ShownInitially, LoginInitially, TabInitially DEF GuiInv
<1>2. GuiInv /\ [GuiNext]_vars => GuiInv'
  BY LibPreserved, QueuePreserved, ShownPreserved, LoginPreserved, TabPreserved DEF GuiInv
<1> QED  BY <1>1, <1>2, PTL DEF GuiSpec

\* However hosts come and go, fail and are added again, while the events of their
\* workers and of the thread that removes them queue up: the lookups of
\* find_host_model_ find their host.
THEOREM SlotsFindTheirHost == GuiSpec => []EventsFindTheirHost
<1>1. QueueInv => EventsFindTheirHost
  <2> SUFFICES ASSUME QueueInv, events # <<>>, Head(events).to = "model", Head(events).kind # "added"
               PROVE  Known(Head(events).host)
    BY DEF EventsFindTheirHost
  <2>1. PICK S : events \in Seq(S)
    BY DEF QueueInv
  <2>2. 1 \in 1..Len(events) /\ Head(events) = events[1]
    BY <2>1, EmptySeq
  <2>3. Knows(events, DOMAIN models, 1 - 1, Head(events).host)
    BY <2>2 DEF QueueInv, Ordered
  <2>4. \A j \in 1..(1 - 1) : FALSE
    OBVIOUS
  <2> QED  BY <2>3, <2>4 DEF Knows, Known
<1> QED  BY <1>1, GuiInvariant, PTL DEF GuiInv

\* The tabs show what the selected host sent, and nothing if none is selected.
THEOREM TabsShowTheSelectedHost == GuiSpec => []ShownIsSelected
<1>1. ShownInv => ShownIsSelected
  <2> SUFFICES ASSUME ShownInv, NEW kind \in DOMAIN shown \ {"cc_status"}
               PROVE  /\ shown[kind].host \in {selected, NoHost}
                      /\ kind \in {"messages", "notices"} =>
                           \A item \in Range(shown[kind].data) : item.host = selected
    BY DEF ShownIsSelected
  <2>1. shown[kind].host \in {selected, NoHost}
    BY DEF ShownInv
  <2>2. ASSUME kind \in {"messages", "notices"}, NEW item \in Range(shown[kind].data)
        PROVE  item.host = selected
    <3>1. shown[kind].data \in Seq(NewsOf(shown[kind].host))
      BY <2>2 DEF ShownInv, NewsKinds
    <3>2. item \in NewsOf(shown[kind].host)
      BY <2>2, <3>1, RangeOfSeq
    <3>3. shown[kind].data # <<>>
      BY <2>2 DEF Range
    <3>4. shown[kind].host = selected
      BY <3>3 DEF ShownInv
    <3> QED  BY <3>2, <3>4 DEF NewsOf
  <2> QED  BY <2>1, <2>2
<1> QED  BY <1>1, GuiInvariant, PTL DEF GuiInv

\* A host is authorized with the password it was added with, unless an earlier
\* attempt left its login behind.
THEOREM HostsGetTheirPassword == GuiSpec => []OwnPassword
<1>1. LoginInv => OwnPassword
  BY DEF LoginInv
<1> QED  BY <1>1, GuiInvariant, PTL DEF GuiInv

\* However projects come and go while the view, the selection and the host change:
\* the charts show the statistics of what is selected, and that is on the list.
THEOREM ChartsFollowTheSelection == GuiSpec => []ChartsShowSelection
<1>1. TabInv => ChartsShowSelection
  BY ConsistentShows DEF TabInv
<1> QED  BY <1>1, GuiInvariant, PTL DEF GuiInv
=============================================================================
