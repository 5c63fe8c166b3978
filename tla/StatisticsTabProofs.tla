------------------------ MODULE StatisticsTabProofs ------------------------
(***************************************************************************)
(* The list, the selection and the charts of the statistics tab agree      *)
(* again after every call, whatever the view, the selection and the        *)
(* current item are, and however many projects go away at once.            *)
(***************************************************************************)
EXTENDS StatisticsTab, FiniteSetTheorems, WellFoundedInduction, TLAPS

-----------------------------------------------------------------------------
(* Numbers.                                                                *)

LEMMA LeastNatural ==
  ASSUME NEW T, T \subseteq Nat, T # {}
  PROVE  \E x \in T : \A y \in T : x <= y
<1> DEFINE R == OpToRel(<, Nat)
<1>1. IsWellFoundedOn(R, Nat)
  BY NatLessThanWellFounded
<1>2. \A x, y \in Nat : y < x => <<y, x>> \in R
  BY DEF OpToRel
<1> HIDE DEF R
<1>3. PICK x \in T : \A y \in T : ~(<<y, x>> \in R)
  BY <1>1, WFMin
<1>4. ASSUME NEW y \in T PROVE x <= y
  <2>1. x \in Nat /\ y \in Nat /\ ~(<<y, x>> \in R)
    BY <1>3
  <2>2. ~(y < x)
    BY ONLY <1>2, <2>1
  <2>3. QED
    BY <2>1, <2>2
<1>5. QED
  BY <1>4

LEMMA GreatestNatural ==
  ASSUME NEW n \in Nat, NEW T, T \subseteq 0..n, T # {}
  PROVE  \E x \in T : \A y \in T : y <= x
<1> DEFINE U == {k \in 0..n : n - k \in T}
<1>1. U \subseteq Nat /\ U # {}
  <2>1. PICK x \in T : TRUE
    OBVIOUS
  <2>2. x \in 0..n /\ n - x \in 0..n /\ n - (n - x) = x
    OBVIOUS
  <2>3. n - x \in U
    BY <2>1, <2>2
  <2>4. U \subseteq Nat
    OBVIOUS
  <2>5. QED
    BY <2>3, <2>4, Zenon
<1>2. PICK u \in U : \A v \in U : u <= v
  BY <1>1, LeastNatural
<1>3. u \in 0..n /\ n - u \in T
  OBVIOUS
<1>4. ASSUME NEW y \in T PROVE y <= n - u
  <2>1. y \in 0..n /\ n - y \in 0..n /\ n - (n - y) = y
    OBVIOUS
  <2>2. n - y \in U
    BY <2>1
  <2>3. u <= n - y
    BY <1>2, <2>2
  <2>4. QED
    BY <1>3, <2>1, <2>3
<1>5. QED
  BY <1>3, <1>4

-----------------------------------------------------------------------------
(* The state of the tab and what makes it consistent.                      *)

Fields == {"projects", "stats", "type", "mode", "one", "many", "items", "chosen", "current",
           "charts", "failed"}

Tab(s) == DOMAIN s = Fields /\ s.failed \in BOOLEAN

\* The items selected are on the list, and they are the selection of the view.
Listed(s, n) ==
  /\ s.items \subseteq 1..n
  /\ s.chosen = SelectedProjects(s) /\ s.chosen \subseteq s.items

\* The charts show what is selected.
Drawn(s) == s.charts = [mode |-> s.mode, type |-> s.type, stats |-> Only(s.stats, s.chosen)]

Consistent(s, n) ==
  /\ Tab(s) /\ DOMAIN s.stats \subseteq 1..n
  /\ s.failed \/ (Listed(s, n) /\ Drawn(s) /\ s.items = DOMAIN s.stats)

\* What neither redrawing nor selecting changes.
Kept(s, u) ==
  /\ Tab(u) /\ (s.failed => u.failed)
  /\ u.projects = s.projects /\ u.stats = s.stats /\ u.type = s.type /\ u.mode = s.mode
  /\ u.items = s.items /\ u.current = s.current /\ u.chosen = s.chosen

\* Redrawing shows what is selected, unless something selected has no statistics.
LEMMA Redrawn ==
  ASSUME NEW s, Tab(s), NEW u, u = UpdateView(s)
  PROVE  /\ Kept(s, u) /\ u.one = s.one /\ u.many = s.many
         /\ u.failed \/ (/\ SelectedProjects(s) \subseteq DOMAIN s.stats
                         /\ u.charts = [mode |-> s.mode, type |-> s.type,
                                        stats |-> Only(s.stats, SelectedProjects(s))])
<1>1. CASE s.failed \/ ~(SelectedProjects(s) \subseteq DOMAIN s.stats)
  <2>1. u = [s EXCEPT !.failed = TRUE]
    BY <1>1 DEF UpdateView
  <2>2. DOMAIN u = Fields /\ u.failed = TRUE
    BY <2>1 DEF Tab, Fields
  <2>3. /\ u.projects = s.projects /\ u.stats = s.stats /\ u.type = s.type /\ u.mode = s.mode
        /\ u.items = s.items /\ u.current = s.current /\ u.chosen = s.chosen
        /\ u.one = s.one /\ u.many = s.many
    BY <2>1 DEF Tab, Fields
  <2> QED  BY <2>2, <2>3 DEF Kept, Tab
<1>2. CASE ~s.failed /\ SelectedProjects(s) \subseteq DOMAIN s.stats
  <2>1. u = [s EXCEPT !.charts = [mode |-> s.mode, type |-> s.type,
                                  stats |-> Only(s.stats, SelectedProjects(s))]]
    BY <1>2 DEF UpdateView
  <2>2. DOMAIN u = Fields /\ u.failed = s.failed
    BY <2>1 DEF Tab, Fields
  <2>3. /\ u.projects = s.projects /\ u.stats = s.stats /\ u.type = s.type /\ u.mode = s.mode
        /\ u.items = s.items /\ u.current = s.current /\ u.chosen = s.chosen
        /\ u.one = s.one /\ u.many = s.many
        /\ u.charts = [mode |-> s.mode, type |-> s.type,
                       stats |-> Only(s.stats, SelectedProjects(s))]
    BY <2>1 DEF Tab, Fields
  <2> QED  BY <1>2, <2>2, <2>3 DEF Kept, Tab
<1> QED  BY <1>1, <1>2

\* The selection of the view follows the list, and the charts follow it.
LEMMA SelectionFollows ==
  ASSUME NEW s, Tab(s), NEW u, u = ItemSelectionChanged(s)
  PROVE  /\ Kept(s, u)
         /\ NoProject \notin s.chosen /\ (s.mode = "one" => \E x : s.chosen \subseteq {x})
              => u.failed \/ (/\ u.chosen = SelectedProjects(u) /\ u.chosen \subseteq DOMAIN u.stats
                             /\ Drawn(u))
<1>1. PICK t : t = IF s.mode # "one" THEN [s EXCEPT !.many = s.chosen]
                   ELSE [s EXCEPT !.one = IF s.chosen = {} THEN NoProject
                                          ELSE CHOOSE p \in s.chosen : TRUE]
  OBVIOUS
<1>2. u = UpdateView(t)
  BY <1>1 DEF ItemSelectionChanged
<1>3. DOMAIN t = Fields /\ t.failed = s.failed
  BY <1>1 DEF Tab, Fields
<1>4. Tab(t)
  BY <1>3 DEF Tab
<1>5. /\ t.projects = s.projects /\ t.stats = s.stats /\ t.type = s.type /\ t.mode = s.mode
      /\ t.items = s.items /\ t.current = s.current /\ t.chosen = s.chosen
  BY <1>1 DEF Tab, Fields
<1>6. ASSUME NoProject \notin s.chosen, s.mode = "one" => \E x : s.chosen \subseteq {x}
      PROVE  SelectedProjects(t) = t.chosen
  <2>1. CASE s.mode # "one"
    <3>1. t.many = s.chosen
      BY <1>1, <2>1 DEF Tab, Fields
    <3> QED  BY <1>5, <2>1, <3>1 DEF SelectedProjects
  <2>2. CASE s.mode = "one" /\ s.chosen = {}
    <3>1. t.one = NoProject
      BY <1>1, <2>2 DEF Tab, Fields
    <3> QED  BY <1>5, <2>2, <3>1 DEF SelectedProjects
  <2>3. CASE s.mode = "one" /\ s.chosen # {}
    <3>1. t.one = CHOOSE p \in s.chosen : TRUE
      BY <1>1, <2>3 DEF Tab, Fields
    <3>2. t.one \in s.chosen
      BY <2>3, <3>1
    <3>3. s.chosen = {t.one} /\ t.one # NoProject
      BY <1>6, <2>3, <3>2
    <3> QED  BY <1>5, <2>3, <3>3 DEF SelectedProjects
  <2> QED  BY <2>1, <2>2, <2>3
<1>7. /\ Kept(t, u) /\ u.one = t.one /\ u.many = t.many
      /\ u.failed \/ (/\ SelectedProjects(t) \subseteq DOMAIN t.stats
                      /\ u.charts = [mode |-> t.mode, type |-> t.type,
                                     stats |-> Only(t.stats, SelectedProjects(t))])
  BY <1>2, <1>4, Redrawn
<1>8. SelectedProjects(u) = SelectedProjects(t)
  BY <1>7 DEF SelectedProjects, Kept
<1>9. Kept(s, u)
  BY <1>3, <1>5, <1>7 DEF Kept
<1>10. ASSUME NoProject \notin s.chosen, s.mode = "one" => \E x : s.chosen \subseteq {x}
       PROVE  u.failed \/ (u.chosen = SelectedProjects(u) /\ u.chosen \subseteq DOMAIN u.stats /\ Drawn(u))
  <2>1. SelectedProjects(t) = t.chosen
    BY <1>6, <1>10
  <2> QED  BY <1>5, <1>7, <1>8, <2>1 DEF Kept, Drawn
<1> QED  BY <1>9, <1>10

-----------------------------------------------------------------------------
(* An item is taken off the list.                                          *)

LEMMA NeighbourIsListed ==
  ASSUME NEW n \in Nat, NEW items, items \subseteq 1..n, NEW p \in items
  PROVE  Neighbour(items, p) = NoProject \/ Neighbour(items, p) \in items \ {p}
<1>1. PICK after : after = {i \in items : i > p}
  OBVIOUS
<1>2. PICK before : before = {i \in items : i < p}
  OBVIOUS
<1>3. /\ after \subseteq Nat /\ after \subseteq items /\ p \notin after
      /\ before \subseteq 0..n /\ before \subseteq items /\ p \notin before
  <2>1. \A i \in items : i \in Nat /\ i \in 0..n /\ ~(i < i) /\ ~(i > i)
    OBVIOUS
  <2> QED  BY <1>1, <1>2, <2>1, Zenon
<1>4. ASSUME after # {} PROVE Min(after) \in after
  <2>1. \E x \in after : \A y \in after : x <= y
    BY <1>3, <1>4, LeastNatural
  <2> QED  BY <2>1, Zenon DEF Min
<1>5. ASSUME before # {} PROVE Max(before) \in before
  <2>1. \E x \in before : \A y \in before : y <= x
    BY <1>3, <1>5, GreatestNatural
  <2>2. \E x \in before : \A y \in before : x >= y
    BY <1>3, <2>1
  <2> QED  BY <2>2, Zenon DEF Max
<1>6. Neighbour(items, p) = IF after # {} THEN Min(after) ELSE IF before # {} THEN Max(before)
                            ELSE NoProject
  BY <1>1, <1>2 DEF Neighbour
<1> QED  BY <1>3, <1>4, <1>5, <1>6

\* p is forgotten, but its item is still there.
Leaving(s, p, n) ==
  /\ s.items \subseteq 1..n /\ p \in s.items
  /\ s.chosen \subseteq s.items
  /\ s.mode = "one" => \E x : s.chosen \subseteq {x}
  /\ SelectedProjects(s) = s.chosen \ {p}

LEMMA TakenOff ==
  ASSUME NEW n \in Nat, NEW s, Tab(s), NEW p, NEW u, u = TakeOff(s, p)
  PROVE  /\ Tab(u) /\ (s.failed => u.failed)
         /\ u.projects = s.projects /\ u.stats = s.stats /\ u.type = s.type /\ u.mode = s.mode
         /\ u.items = s.items \ {p}
         /\ Leaving(s, p, n) => u.failed \/ (Listed(u, n) /\ (Drawn(s) => Drawn(u)))
<1> DEFINE next == Neighbour(s.items, p)
           moved == s.current = p /\ s.mode = "one" /\ next # NoProject
           s1 == IF ~moved THEN s
                 ELSE IF s.chosen = {next} THEN [s EXCEPT !.current = next]
                 ELSE ItemSelectionChanged([s EXCEPT !.current = next, !.chosen = {next}])
           s2 == [s1 EXCEPT !.current = IF @ = p THEN next ELSE @, !.chosen = @ \ {p}]
           s3 == IF p \in s1.chosen THEN ItemSelectionChanged(s2) ELSE s2
<1>1. next = Neighbour(s.items, p)
  OBVIOUS
<1>2. moved <=> s.current = p /\ s.mode = "one" /\ next # NoProject
  OBVIOUS
<1>3. s1 = IF ~moved THEN s
           ELSE IF s.chosen = {next} THEN [s EXCEPT !.current = next]
           ELSE ItemSelectionChanged([s EXCEPT !.current = next, !.chosen = {next}])
  OBVIOUS
<1>4. s2 = [s1 EXCEPT !.current = IF @ = p THEN next ELSE @, !.chosen = @ \ {p}]
  OBVIOUS
<1>5. s3 = IF p \in s1.chosen THEN ItemSelectionChanged(s2) ELSE s2
  OBVIOUS
<1>6. u = [s3 EXCEPT !.items = @ \ {p}]
  BY Zenon DEF TakeOff
<1> HIDE DEF next, moved, s1, s2, s3
<1>7. /\ Tab(s1) /\ (s.failed => s1.failed)
      /\ s1.projects = s.projects /\ s1.stats = s.stats /\ s1.type = s.type /\ s1.mode = s.mode
      /\ s1.items = s.items
      /\ Leaving(s, p, n) => s1.failed \/ (Leaving(s1, p, n) /\ (Drawn(s) => Drawn(s1)))
  <2>1. CASE ~moved
    BY <1>3, <2>1
  <2>2. CASE moved /\ s.chosen = {next}
    <3>1. s1 = [s EXCEPT !.current = next]
      BY <1>3, <2>2
    <3>2. DOMAIN s1 = Fields
      BY <3>1 DEF Tab
    <3>3. /\ s1.projects = s.projects /\ s1.stats = s.stats /\ s1.type = s.type
          /\ s1.mode = s.mode /\ s1.items = s.items /\ s1.chosen = s.chosen
          /\ s1.one = s.one /\ s1.many = s.many /\ s1.charts = s.charts /\ s1.failed = s.failed
      BY <3>1 DEF Tab, Fields
    <3> QED  BY <3>2, <3>3 DEF Tab, Leaving, SelectedProjects, Drawn
  <2>3. CASE moved /\ s.chosen # {next}
    <3>1. PICK t : t = [s EXCEPT !.current = next, !.chosen = {next}]
      OBVIOUS
    <3>2. s1 = ItemSelectionChanged(t)
      BY <1>3, <2>3, <3>1
    <3>3. DOMAIN t = Fields /\ t.failed = s.failed
      BY <3>1 DEF Tab, Fields
    <3>4. /\ t.projects = s.projects /\ t.stats = s.stats /\ t.type = s.type
          /\ t.mode = s.mode /\ t.items = s.items /\ t.chosen = {next}
      BY <3>1 DEF Tab, Fields
    <3>5. Tab(t)
      BY <3>3 DEF Tab
    <3>6. /\ Kept(t, s1)
          /\ NoProject \notin t.chosen /\ (t.mode = "one" => \E x : t.chosen \subseteq {x})
               => s1.failed \/ (/\ s1.chosen = SelectedProjects(s1)
                                /\ s1.chosen \subseteq DOMAIN s1.stats /\ Drawn(s1))
      BY <3>2, <3>5, SelectionFollows
    <3>7. next # NoProject /\ \E x : t.chosen \subseteq {x}
      BY <1>2, <2>3, <3>4
    <3>8. ASSUME Leaving(s, p, n)
          PROVE  s1.failed \/ (Leaving(s1, p, n) /\ (Drawn(s) => Drawn(s1)))
      <4>1. next \in s.items \ {p}
        BY <1>1, <3>7, <3>8, NeighbourIsListed DEF Leaving
      <4>2. s1.failed \/ (s1.chosen = SelectedProjects(s1) /\ Drawn(s1))
        BY <3>4, <3>6, <3>7
      <4>3. s1.chosen = {next} /\ s1.items = s.items /\ s1.chosen \ {p} = s1.chosen
        BY <3>4, <3>6, <4>1 DEF Kept
      <4>4. \E x : s1.chosen \subseteq {x}
        BY <4>3
      <4> QED  BY <3>8, <4>1, <4>2, <4>3, <4>4 DEF Leaving
    <3> QED  BY <3>3, <3>4, <3>6, <3>8 DEF Kept
  <2> QED  BY <2>1, <2>2, <2>3
<1>8. DOMAIN s2 = Fields /\ s2.failed = s1.failed
  BY <1>4, <1>7 DEF Tab, Fields
<1>9. /\ s2.projects = s1.projects /\ s2.stats = s1.stats /\ s2.type = s1.type
      /\ s2.mode = s1.mode /\ s2.items = s1.items /\ s2.chosen = s1.chosen \ {p}
      /\ s2.one = s1.one /\ s2.many = s1.many /\ s2.charts = s1.charts
  BY <1>4, <1>7 DEF Tab, Fields
<1>10. Tab(s2)
  BY <1>7, <1>8 DEF Tab
<1>11. /\ Tab(s3) /\ (s1.failed => s3.failed)
       /\ s3.projects = s1.projects /\ s3.stats = s1.stats /\ s3.type = s1.type
       /\ s3.mode = s1.mode /\ s3.items = s1.items /\ s3.chosen = s1.chosen \ {p}
       /\ Leaving(s1, p, n)
            => s3.failed \/ (s3.chosen = SelectedProjects(s3) /\ (Drawn(s1) => Drawn(s3)))
  <2>1. CASE p \in s1.chosen
    <3>1. s3 = ItemSelectionChanged(s2)
      BY <1>5, <2>1
    <3>2. /\ Kept(s2, s3)
          /\ NoProject \notin s2.chosen /\ (s2.mode = "one" => \E x : s2.chosen \subseteq {x})
               => s3.failed \/ (/\ s3.chosen = SelectedProjects(s3)
                                /\ s3.chosen \subseteq DOMAIN s3.stats /\ Drawn(s3))
      BY <1>10, <3>1, SelectionFollows
    <3>3. ASSUME Leaving(s1, p, n)
          PROVE  NoProject \notin s2.chosen /\ (s2.mode = "one" => \E x : s2.chosen \subseteq {x})
      <4>1. NoProject \notin 1..n
        BY DEF NoProject
      <4> QED  BY <1>9, <3>3, <4>1 DEF Leaving
    <3> QED  BY <1>8, <1>9, <3>2, <3>3 DEF Kept
  <2>2. CASE p \notin s1.chosen
    <3>1. s3 = s2 /\ s1.chosen \ {p} = s1.chosen
      BY <1>5, <2>2
    <3>2. SelectedProjects(s2) = SelectedProjects(s1)
      BY <1>9 DEF SelectedProjects
    <3>3. Drawn(s1) => Drawn(s2)
      BY <1>9, <3>1 DEF Drawn
    <3> QED  BY <1>8, <1>9, <1>10, <3>1, <3>2, <3>3 DEF Leaving
  <2> QED  BY <2>1, <2>2
<1>12. DOMAIN u = Fields /\ u.failed = s3.failed
  BY <1>6, <1>11 DEF Tab, Fields
<1>13. /\ u.projects = s3.projects /\ u.stats = s3.stats /\ u.type = s3.type
       /\ u.mode = s3.mode /\ u.items = s3.items \ {p} /\ u.chosen = s3.chosen
       /\ u.one = s3.one /\ u.many = s3.many /\ u.charts = s3.charts
  BY <1>6, <1>11 DEF Tab, Fields
<1>14. ASSUME Leaving(s, p, n)
       PROVE  u.failed \/ (Listed(u, n) /\ (Drawn(s) => Drawn(u)))
  <2>1. CASE s1.failed \/ s3.failed
    BY <1>11, <1>12, <2>1
  <2>2. CASE ~s1.failed /\ ~s3.failed
    <3>1. /\ Leaving(s1, p, n) /\ (Drawn(s) => Drawn(s1))
          /\ s3.chosen = SelectedProjects(s3) /\ (Drawn(s1) => Drawn(s3))
      BY <1>7, <1>11, <1>14, <2>2
    <3>2. SelectedProjects(u) = SelectedProjects(s3) /\ (Drawn(s3) => Drawn(u))
      BY <1>13 DEF SelectedProjects, Drawn
    <3>3. u.items \subseteq 1..n /\ u.chosen \subseteq u.items
      BY <1>11, <1>13, <3>1 DEF Leaving
    <3> QED  BY <1>13, <3>1, <3>2, <3>3 DEF Listed
  <2> QED  BY <2>1, <2>2
<1> QED  BY <1>7, <1>11, <1>12, <1>13, <1>14 DEF Tab

-----------------------------------------------------------------------------
(* One project goes away.                                                  *)

LEMMA OnlyOthers ==
  ASSUME NEW f, NEW S, NEW p, p \notin S
  PROVE  /\ DOMAIN Only(f, DOMAIN f \ {p}) = DOMAIN f \ {p}
         /\ Only(Only(f, DOMAIN f \ {p}), S) = Only(f, S)
<1>1. PICK g : g = Only(f, DOMAIN f \ {p})
  OBVIOUS
<1>2. DOMAIN g = DOMAIN f \ {p} /\ \A x \in DOMAIN g : g[x] = f[x]
  BY <1>1 DEF Only
<1>3. DOMAIN g \cap S = DOMAIN f \cap S
  BY <1>2
<1>4. [x \in DOMAIN g \cap S |-> g[x]] = [x \in DOMAIN f \cap S |-> f[x]]
  BY <1>2, <1>3
<1> QED  BY <1>1, <1>2, <1>4 DEF Only

LEMMA Forgotten ==
  ASSUME NEW s, Tab(s), NEW p, NEW u, u = Forget(s, p)
  PROVE  /\ Kept(s, u) /\ u.charts = s.charts
         /\ \A n : p \in s.items /\ Listed(s, n) => Leaving(u, p, n)
<1>1. u = [s EXCEPT !.one = IF @ = p THEN NoProject ELSE @, !.many = @ \ {p}]
  BY DEF Forget
<1>2. DOMAIN u = Fields /\ u.failed = s.failed
  BY <1>1 DEF Tab, Fields
<1>3. /\ u.projects = s.projects /\ u.stats = s.stats /\ u.type = s.type /\ u.mode = s.mode
      /\ u.items = s.items /\ u.current = s.current /\ u.chosen = s.chosen
      /\ u.charts = s.charts
  BY <1>1 DEF Tab, Fields
<1>4. u.many = s.many \ {p} /\ u.one = IF s.one = p THEN NoProject ELSE s.one
  BY <1>1 DEF Tab, Fields
<1>5. ASSUME NEW n, p \in s.items, Listed(s, n) PROVE Leaving(u, p, n)
  <2>1. s.chosen = SelectedProjects(s)
    BY <1>5 DEF Listed
  <2>2. SelectedProjects(u) = s.chosen \ {p}
    <3>1. CASE s.mode # "one"
      BY <1>3, <1>4, <2>1, <3>1 DEF SelectedProjects
    <3>2. CASE s.mode = "one" /\ s.one = NoProject
      BY <1>3, <1>4, <2>1, <3>2 DEF SelectedProjects
    <3>3. CASE s.mode = "one" /\ s.one # NoProject /\ s.one = p
      <4>1. u.one = NoProject /\ s.chosen = {p}
        BY <1>4, <2>1, <3>3 DEF SelectedProjects
      <4> QED  BY <1>3, <3>3, <4>1 DEF SelectedProjects
    <3>4. CASE s.mode = "one" /\ s.one # NoProject /\ s.one # p
      <4>1. u.one = s.one /\ s.chosen = {s.one}
        BY <1>4, <2>1, <3>4 DEF SelectedProjects
      <4> QED  BY <1>3, <3>4, <4>1 DEF SelectedProjects
    <3> QED  BY <3>1, <3>2, <3>3, <3>4
  <2>3. s.mode = "one" => \E x : s.chosen \subseteq {x}
    BY <2>1 DEF SelectedProjects
  <2> QED  BY <1>3, <1>5, <2>2, <2>3 DEF Leaving, Listed
<1> QED  BY <1>2, <1>3, <1>5 DEF Kept, Tab

LEMMA GoneAway ==
  ASSUME NEW n \in Nat, NEW s, Tab(s), NEW p, NEW u, u = GoesAway(s, p)
  PROVE  /\ Tab(u) /\ (s.failed => u.failed)
         /\ u.items = s.items \ {p} /\ DOMAIN u.stats = DOMAIN s.stats \ {p}
         /\ p \in s.items /\ Listed(s, n) => u.failed \/ (Listed(u, n) /\ (Drawn(s) => Drawn(u)))
<1>1. PICK t : t = Forget(s, p)
  OBVIOUS
<1>2. PICK v : v = TakeOff(t, p)
  OBVIOUS
<1>3. u = [v EXCEPT !.stats = Only(@, DOMAIN @ \ {p})]
  BY <1>1, <1>2, Zenon DEF GoesAway
<1>4. /\ Kept(s, t) /\ t.charts = s.charts
      /\ p \in s.items /\ Listed(s, n) => Leaving(t, p, n)
  BY <1>1, Forgotten
<1>5. /\ Tab(v) /\ (t.failed => v.failed)
      /\ v.projects = t.projects /\ v.stats = t.stats /\ v.type = t.type /\ v.mode = t.mode
      /\ v.items = t.items \ {p}
      /\ Leaving(t, p, n) => v.failed \/ (Listed(v, n) /\ (Drawn(t) => Drawn(v)))
  BY <1>2, <1>4, TakenOff DEF Kept
<1>6. DOMAIN u = Fields /\ u.failed = v.failed
  BY <1>3, <1>5 DEF Tab, Fields
<1>7. /\ u.type = v.type /\ u.mode = v.mode /\ u.items = v.items /\ u.chosen = v.chosen
      /\ u.one = v.one /\ u.many = v.many /\ u.charts = v.charts
      /\ u.stats = Only(v.stats, DOMAIN v.stats \ {p})
  BY <1>3, <1>5 DEF Tab, Fields
<1>8. DOMAIN u.stats = DOMAIN s.stats \ {p}
  <2>1. DOMAIN u.stats = DOMAIN v.stats \ {p}
    BY <1>7 DEF Only
  <2>2. v.stats = s.stats
    BY <1>4, <1>5 DEF Kept
  <2> QED  BY <2>1, <2>2
<1>9. ASSUME p \in s.items, Listed(s, n)
      PROVE  u.failed \/ (Listed(u, n) /\ (Drawn(s) => Drawn(u)))
  <2>1. CASE v.failed
    BY <1>6, <2>1
  <2>2. CASE ~v.failed
    <3>1. Listed(v, n) /\ (Drawn(t) => Drawn(v))
      BY <1>4, <1>5, <1>9, <2>2
    <3>2. Drawn(s) => Drawn(t)
      BY <1>4 DEF Kept, Drawn
    <3>3. Listed(u, n)
      BY <1>7, <3>1 DEF Listed, SelectedProjects
    <3>4. p \notin v.chosen
      BY <1>5, <3>1 DEF Listed
    <3>5. Only(u.stats, u.chosen) = Only(v.stats, v.chosen)
      BY <1>7, <3>4, OnlyOthers
    <3>6. Drawn(v) => Drawn(u)
      BY <1>7, <3>5 DEF Drawn
    <3> QED  BY <3>1, <3>2, <3>3, <3>6
  <2> QED  BY <2>1, <2>2
<1> QED  BY <1>4, <1>5, <1>6, <1>7, <1>8, <1>9 DEF Kept, Tab

-----------------------------------------------------------------------------
(* All that are gone, one after the other.                                 *)

\* The loop over the numbers up to n: f[k] is the tab after k.
Loop(f, s, gone, n) ==
  /\ f[0] = s
  /\ \A p \in 1..n : f[p] = IF p \in gone THEN GoesAway(f[p - 1], p) ELSE f[p - 1]

LEMMA LoopRuns ==
  ASSUME NEW s, NEW gone, NEW n \in Nat
  PROVE  \E f : Loop(f, s, gone, n)
<1> DEFINE Stuck == {k \in Nat : ~\E f : Loop(f, s, gone, k)}
<1> SUFFICES ASSUME Stuck # {} PROVE FALSE
  BY Zenon
<1>1. PICK k \in Stuck : \A l \in Stuck : k <= l
  <2>1. Stuck \subseteq Nat
    OBVIOUS
  <2> HIDE DEF Stuck
  <2> QED  BY <2>1, LeastNatural
<1>2. k \in Nat /\ ~\E f : Loop(f, s, gone, k)
  BY <1>1, Zenon
<1>3. k # 0
  <2>1. PICK f : f = [q \in {0} |-> s]
    OBVIOUS
  <2>2. f[0] = s /\ \A p \in 1..0 : FALSE
    BY <2>1
  <2>3. Loop(f, s, gone, 0)
    BY <2>2 DEF Loop
  <2> QED  BY <1>2, <2>3, Zenon
<1>4. k - 1 \in Nat /\ ~(k <= k - 1)
  BY <1>2, <1>3
<1>5. k - 1 \notin Stuck
  <2> HIDE DEF Stuck
  <2> QED  BY <1>1, <1>4
<1>6. PICK f : Loop(f, s, gone, k - 1)
  BY <1>4, <1>5, Zenon
<1>7. PICK g : g = [q \in 0..k |-> IF q < k THEN f[q]
                                 ELSE IF k \in gone THEN GoesAway(f[k - 1], k) ELSE f[k - 1]]
  OBVIOUS
<1>8. /\ \A q \in 0..(k - 1) : g[q] = f[q]
      /\ g[k] = IF k \in gone THEN GoesAway(f[k - 1], k) ELSE f[k - 1]
  <2>1. \A q \in 0..(k - 1) : q \in 0..k /\ q < k
    BY <1>2, <1>3
  <2>2. k \in 0..k /\ ~(k < k)
    BY <1>2
  <2> QED  BY <1>7, <2>1, <2>2
<1>9. 0 \in 0..(k - 1) /\ k - 1 \in 0..(k - 1)
      /\ \A p \in 1..k : p = k \/ (p \in 1..(k - 1) /\ p \in 0..(k - 1) /\ p - 1 \in 0..(k - 1))
  BY <1>2, <1>3
<1>10. Loop(g, s, gone, k)
  <2>1. g[0] = s
    BY <1>6, <1>8, <1>9 DEF Loop
  <2>2. ASSUME NEW p \in 1..k
        PROVE  g[p] = IF p \in gone THEN GoesAway(g[p - 1], p) ELSE g[p - 1]
    <3>1. CASE p = k
      BY <1>8, <1>9, <3>1
    <3>2. CASE p \in 1..(k - 1) /\ p \in 0..(k - 1) /\ p - 1 \in 0..(k - 1)
      <4>1. f[p] = IF p \in gone THEN GoesAway(f[p - 1], p) ELSE f[p - 1]
        BY <1>6, <3>2 DEF Loop
      <4>2. g[p] = f[p] /\ g[p - 1] = f[p - 1]
        BY <1>8, <3>2
      <4> QED  BY ONLY <4>1, <4>2
    <3> QED  BY <1>9, <3>1, <3>2
  <2> QED  BY <2>1, <2>2 DEF Loop
<1> QED  BY <1>2, <1>10, Zenon

LEMMA LoopsAgree ==
  ASSUME NEW s, NEW gone, NEW n \in Nat, NEW m \in Nat, NEW f, NEW g, Loop(f, s, gone, n), Loop(g, s, gone, m),
         NEW i \in Nat, i <= n, i <= m
  PROVE  f[i] = g[i]
<1> DEFINE Differ == {k \in Nat : k <= n /\ k <= m /\ f[k] # g[k]}
<1> SUFFICES ASSUME Differ # {} PROVE FALSE
  BY Zenon
<1>1. PICK k \in Differ : \A l \in Differ : k <= l
  <2>1. Differ \subseteq Nat
    OBVIOUS
  <2> HIDE DEF Differ
  <2> QED  BY <2>1, LeastNatural
<1>2. k \in Nat /\ k <= n /\ k <= m /\ f[k] # g[k]
  BY <1>1, Zenon
<1>3. k # 0
  BY <1>2 DEF Loop
<1>4. k - 1 \in Nat /\ ~(k <= k - 1) /\ k - 1 <= n /\ k - 1 <= m /\ k \in 1..n /\ k \in 1..m
  BY <1>2, <1>3
<1>5. k - 1 \notin Differ
  <2> HIDE DEF Differ
  <2> QED  BY <1>1, <1>4
<1>6. f[k - 1] = g[k - 1]
  BY <1>4, <1>5, Zenon
<1>7. /\ f[k] = IF k \in gone THEN GoesAway(f[k - 1], k) ELSE f[k - 1]
      /\ g[k] = IF k \in gone THEN GoesAway(g[k - 1], k) ELSE g[k - 1]
  BY <1>4 DEF Loop
<1> QED  BY ONLY <1>2, <1>6, <1>7

\* The recursive function of AllGoAway is this loop.
LEMMA AllGoAwayLoops ==
  ASSUME NEW s, NEW gone, NEW m \in Nat, m = Max({0} \cup gone)
  PROVE  \E f : Loop(f, s, gone, m) /\ AllGoAway(s, gone) = f[m]
<1> DEFINE Body(f) == [p \in Nat |-> IF p = 0 THEN s
                                     ELSE IF p \in gone THEN GoesAway(f[p - 1], p) ELSE f[p - 1]]
           after == CHOOSE f : f = Body(f)
           run == [n \in Nat |-> CHOOSE f : Loop(f, s, gone, n)]
           limit == [n \in Nat |-> run[n][n]]
<1>1. AllGoAway(s, gone) = after[m]
  BY Zenon DEF AllGoAway
<1>2. \A n \in Nat : Loop(run[n], s, gone, n)
  BY LoopRuns, Zenon
<1>3. limit[0] = s
  <2>1. limit[0] = run[0][0]
    OBVIOUS
  <2> HIDE DEF run, limit
  <2> QED  BY <1>2, <2>1 DEF Loop
<1>4. ASSUME NEW p \in Nat, p # 0
      PROVE  limit[p] = IF p \in gone THEN GoesAway(limit[p - 1], p) ELSE limit[p - 1]
  <2>1. p - 1 \in Nat /\ p - 1 <= p /\ p - 1 <= p - 1 /\ p \in 1..p
    BY <1>4
  <2>2. limit[p] = run[p][p] /\ limit[p - 1] = run[p - 1][p - 1]
    BY <2>1
  <2> HIDE DEF run, limit
  <2>3. Loop(run[p], s, gone, p) /\ Loop(run[p - 1], s, gone, p - 1)
    BY <1>2, <2>1
  <2>4. run[p][p - 1] = run[p - 1][p - 1]
    <3>1. PICK a : a = run[p]
      OBVIOUS
    <3>2. PICK b : b = run[p - 1]
      OBVIOUS
    <3>3. PICK q \in Nat : q = p - 1
      BY <2>1
    <3>4. /\ Loop(a, s, gone, p) /\ Loop(b, s, gone, q)
          /\ q <= p /\ q <= q /\ p \in Nat /\ q \in Nat
      BY <2>1, <2>3, <3>1, <3>2, <3>3
    <3>5. a[q] = b[q]
      BY ONLY <3>4, LoopsAgree
    <3> QED  BY <3>1, <3>2, <3>3, <3>5
  <2>5. run[p][p] = IF p \in gone THEN GoesAway(run[p][p - 1], p) ELSE run[p][p - 1]
    BY <2>1, <2>3 DEF Loop
  <2> QED  BY ONLY <2>2, <2>4, <2>5
<1>5. limit = Body(limit)
  <2>1. limit \in [Nat -> {limit[n] : n \in Nat}]
    OBVIOUS
  <2> HIDE DEF limit
  <2>2. \A p \in Nat : limit[p] = Body(limit)[p]
    BY <1>3, <1>4
  <2>3. DOMAIN limit = Nat /\ DOMAIN Body(limit) = Nat
    BY <2>1
  <2> QED  BY <1>3, <1>4, <2>1
<1>6. after = Body(after)
  <2> HIDE DEF limit, Body
  <2> QED  BY <1>5, Zenon
<1>7. Loop(after, s, gone, m)
  <2> HIDE DEF after
  <2>1. \A p \in Nat : after[p] = IF p = 0 THEN s ELSE IF p \in gone THEN GoesAway(after[p - 1], p)
                                                      ELSE after[p - 1]
    BY <1>6
  <2>2. \A p \in 1..m : p \in Nat /\ p # 0
    OBVIOUS
  <2> QED  BY <2>1, <2>2 DEF Loop
<1> HIDE DEF after
<1> QED  BY <1>1, <1>7

\* u is s without what is gone.
Without(s, u, gone, n) ==
  /\ Tab(u) /\ (s.failed => u.failed)
  /\ u.items = s.items \ gone /\ DOMAIN u.stats = DOMAIN s.stats \ gone
  /\ gone \subseteq s.items /\ Listed(s, n)
       => u.failed \/ (Listed(u, n) /\ (Drawn(s) => Drawn(u)))

LEMMA AllGone ==
  ASSUME NEW n \in Nat, NEW s, Tab(s), NEW gone, gone \subseteq 1..n
  PROVE  Without(s, AllGoAway(s, gone), gone, n)
<1>1. PICK m : m = Max({0} \cup gone)
  OBVIOUS
<1>2. m \in Nat /\ \A p \in gone : p \in 1..m
  <2>1. {0} \cup gone \subseteq 0..n
    OBVIOUS
  <2>2. \E x \in {0} \cup gone : \A y \in {0} \cup gone : y <= x
    BY <2>1, GreatestNatural
  <2>3. \E x \in {0} \cup gone : \A y \in {0} \cup gone : x >= y
    BY <2>1, <2>2
  <2>4. m \in {0} \cup gone /\ \A y \in {0} \cup gone : m >= y
    BY <1>1, <2>3, Zenon DEF Max
  <2> QED  BY <2>1, <2>4
<1>3. PICK f : Loop(f, s, gone, m) /\ AllGoAway(s, gone) = f[m]
  BY <1>1, <1>2, AllGoAwayLoops
<1> DEFINE Gone(k) == {p \in gone : p <= k}
           Good(k) ==
             LET v == f[k] IN
             /\ Tab(v) /\ (s.failed => v.failed)
             /\ v.items = s.items \ Gone(k) /\ DOMAIN v.stats = DOMAIN s.stats \ Gone(k)
             /\ gone \subseteq s.items /\ Listed(s, n)
                  => v.failed \/ (Listed(v, n) /\ (Drawn(s) => Drawn(v)))
           Bad == {k \in Nat : k <= m /\ ~Good(k)}
<1>4. Bad = {}
  <2> SUFFICES ASSUME Bad # {} PROVE FALSE
    BY Zenon
  <2>1. PICK k \in Bad : \A l \in Bad : k <= l
    <3>1. Bad \subseteq Nat
      OBVIOUS
    <3> HIDE DEF Bad
    <3> QED  BY <3>1, LeastNatural
  <2>2. k \in Nat /\ k <= m /\ ~Good(k)
    BY <2>1, Zenon
  <2>3. k # 0
    <3>1. Gone(0) = {} /\ f[0] = s
      <4>1. \A p \in gone : ~(p <= 0)
        OBVIOUS
      <4>2. f[0] = s
        BY <1>3 DEF Loop
      <4> QED  BY <4>1, <4>2, Zenon
    <3>2. Good(0)
      BY <3>1
    <3> HIDE DEF Good
    <3> QED  BY <2>2, <3>2
  <2>4. k - 1 \in Nat /\ k - 1 <= m /\ ~(k <= k - 1) /\ k \in 1..m
    BY <1>2, <2>2, <2>3
  <2>5. Good(k - 1)
    <3>1. k - 1 \notin Bad
      <4> HIDE DEF Bad
      <4> QED  BY <2>1, <2>4
    <3> HIDE DEF Good
    <3> QED  BY <2>4, <3>1
  <2>6. f[k] = IF k \in gone THEN GoesAway(f[k - 1], k) ELSE f[k - 1]
    BY <1>3, <2>4 DEF Loop
  <2>7. CASE k \notin gone
    <3>1. Gone(k) = Gone(k - 1)
      <4>1. \A p \in gone : p # k /\ p \in Int
        BY <2>7
      <4>2. \A p \in gone : p <= k <=> p <= k - 1
        BY <2>4, <4>1
      <4> QED  BY <4>2
    <3>2. f[k] = f[k - 1]
      BY <2>6, <2>7
    <3> HIDE DEF Gone
    <3>3. Good(k)
      BY <2>5, <3>1, <3>2
    <3> HIDE DEF Good
    <3> QED  BY <2>2, <3>3
  <2>8. CASE k \in gone
    <3>1. Gone(k) = Gone(k - 1) \cup {k} /\ k \notin Gone(k - 1)
      <4>1. \A p \in gone : p \in Int
        OBVIOUS
      <4>2. \A p \in gone : p <= k <=> p <= k - 1 \/ p = k
        BY <2>4, <4>1
      <4> QED  BY <2>4, <2>8, <4>2
    <3> HIDE DEF Gone
    <3>2. PICK v : v = f[k - 1]
      OBVIOUS
    <3>3. PICK w : w = f[k]
      OBVIOUS
    <3>4. w = GoesAway(v, k)
      BY <2>6, <2>8, <3>2, <3>3
    <3>5. /\ Tab(v) /\ (s.failed => v.failed)
          /\ v.items = s.items \ Gone(k - 1) /\ DOMAIN v.stats = DOMAIN s.stats \ Gone(k - 1)
          /\ gone \subseteq s.items /\ Listed(s, n)
               => v.failed \/ (Listed(v, n) /\ (Drawn(s) => Drawn(v)))
      BY <2>5, <3>2
    <3>6. /\ Tab(w) /\ (v.failed => w.failed)
          /\ w.items = v.items \ {k} /\ DOMAIN w.stats = DOMAIN v.stats \ {k}
          /\ k \in v.items /\ Listed(v, n) => w.failed \/ (Listed(w, n) /\ (Drawn(v) => Drawn(w)))
      BY <3>4, <3>5, GoneAway
    <3>7. w.items = s.items \ Gone(k) /\ DOMAIN w.stats = DOMAIN s.stats \ Gone(k)
      BY <3>1, <3>5, <3>6
    <3>8. ASSUME gone \subseteq s.items, Listed(s, n)
          PROVE  w.failed \/ (Listed(w, n) /\ (Drawn(s) => Drawn(w)))
      <4>1. k \in v.items
        BY <2>8, <3>1, <3>5, <3>8
      <4> QED  BY <3>5, <3>6, <3>8, <4>1
    <3>9. Good(k)
      BY <3>3, <3>5, <3>6, <3>7, <3>8
    <3> HIDE DEF Good
    <3> QED  BY <2>2, <3>9
  <2> QED  BY <2>7, <2>8
<1>5. Good(m)
  <2>1. m <= m
    BY <1>2
  <2> HIDE DEF Good
  <2> QED  BY <1>2, <1>4, <2>1
<1>6. Gone(m) = gone
  <2>1. \A p \in gone : p <= m
    BY <1>2
  <2> QED  BY <2>1, Zenon
<1> HIDE DEF Gone
<1> QED  BY <1>3, <1>5, <1>6 DEF Without

-----------------------------------------------------------------------------
(* The slots of the tab and what the user does.                            *)

LEMMA EmptyTabIsConsistent ==
  ASSUME NEW n \in Nat
  PROVE  Consistent(EmptyTab, n)
<1>1. Tab(EmptyTab)
  BY DEF EmptyTab, Tab, Fields
<1>2. DOMAIN <<>> = {}
  OBVIOUS
<1>3. SelectedProjects(EmptyTab) = {}
  BY DEF EmptyTab, SelectedProjects
<1>4. Listed(EmptyTab, n) /\ EmptyTab.items = DOMAIN EmptyTab.stats
  BY <1>2, <1>3 DEF EmptyTab, Listed
<1>5. Only(<<>>, {}) = <<>>
  BY <1>2 DEF Only
<1>6. Drawn(EmptyTab)
  BY <1>5 DEF EmptyTab, Drawn
<1> QED  BY <1>1, <1>2, <1>4, <1>6 DEF Consistent, EmptyTab

LEMMA ProjectsAreUpdated ==
  ASSUME NEW n \in Nat, NEW s, Consistent(s, n), NEW projects, NEW u, u = ProjectsUpdated(s, projects)
  PROVE  Consistent(u, n)
<1>1. PICK t : t = [s EXCEPT !.projects = projects]
  OBVIOUS
<1>2. PICK gone : gone = DOMAIN s.stats \ projects
  OBVIOUS
<1>3. u = AllGoAway(t, gone)
  BY <1>1, <1>2 DEF ProjectsUpdated
<1>4. DOMAIN t = Fields /\ t.failed = s.failed
  BY <1>1 DEF Consistent, Tab, Fields
<1>5. /\ t.stats = s.stats /\ t.type = s.type /\ t.mode = s.mode
      /\ t.items = s.items /\ t.chosen = s.chosen /\ t.charts = s.charts
      /\ t.one = s.one /\ t.many = s.many
  BY <1>1 DEF Consistent, Tab, Fields
<1>6. Tab(t) /\ gone \subseteq 1..n
  BY <1>2, <1>4 DEF Consistent, Tab
<1>7. Without(t, u, gone, n)
  BY <1>3, <1>6, AllGone
<1>8. SelectedProjects(t) = SelectedProjects(s)
  BY <1>5 DEF SelectedProjects
<1>9. s.failed \/ (Listed(t, n) /\ Drawn(t) /\ gone \subseteq t.items /\ t.items = DOMAIN t.stats)
  BY <1>2, <1>5, <1>8 DEF Consistent, Listed, Drawn
<1> QED  BY <1>4, <1>5, <1>7, <1>9 DEF Consistent, Without

LEMMA StatisticsAreUpdated ==
  ASSUME NEW n \in Nat, NEW s, Consistent(s, n), NEW statistics, DOMAIN statistics \subseteq 1..n,
         NEW u, u = StatisticsUpdated(s, statistics)
  PROVE  Consistent(u, n)
<1>1. PICK stats : stats = Only(statistics, s.projects)
  OBVIOUS
<1>2. PICK gone : gone = DOMAIN s.stats \ DOMAIN stats
  OBVIOUS
<1>3. PICK s0 : s0 = [s EXCEPT !.stats = stats]
  OBVIOUS
<1>4. PICK s1 : s1 = AllGoAway(s0, gone)
  OBVIOUS
<1>5. PICK t : t = [s1 EXCEPT !.items = @ \cup DOMAIN stats]
  OBVIOUS
<1>6. u = UpdateView(t)
  BY <1>1, <1>2, <1>3, <1>4, <1>5 DEF StatisticsUpdated
<1>7. DOMAIN stats \subseteq 1..n /\ gone \subseteq 1..n
  <2>1. DOMAIN stats \subseteq DOMAIN statistics
    BY <1>1 DEF Only
  <2> QED  BY <1>2, <2>1 DEF Consistent
<1>8. DOMAIN s0 = Fields /\ s0.failed = s.failed
  BY <1>3 DEF Consistent, Tab, Fields
<1>9. /\ s0.stats = stats /\ s0.mode = s.mode /\ s0.items = s.items /\ s0.chosen = s.chosen
      /\ s0.one = s.one /\ s0.many = s.many
  BY <1>3 DEF Consistent, Tab, Fields
<1>10. Tab(s0)
  BY <1>8 DEF Consistent, Tab
<1>11. Without(s0, s1, gone, n)
  BY <1>4, <1>7, <1>10, AllGone
<1>12. DOMAIN t = Fields /\ t.failed = s1.failed
  BY <1>5, <1>11 DEF Tab, Fields, Without
<1>13. /\ t.stats = s1.stats /\ t.mode = s1.mode /\ t.items = s1.items \cup DOMAIN stats
       /\ t.chosen = s1.chosen /\ t.one = s1.one /\ t.many = s1.many /\ t.type = s1.type
  BY <1>5, <1>11 DEF Tab, Fields, Without
<1>14. Tab(t)
  BY <1>11, <1>12 DEF Tab, Without
<1>15. /\ Kept(t, u) /\ u.one = t.one /\ u.many = t.many
       /\ u.failed \/ (/\ SelectedProjects(t) \subseteq DOMAIN t.stats
                       /\ u.charts = [mode |-> t.mode, type |-> t.type,
                                      stats |-> Only(t.stats, SelectedProjects(t))])
  BY <1>6, <1>14, Redrawn
<1>16. DOMAIN u.stats = DOMAIN stats
  BY <1>2, <1>9, <1>11, <1>13, <1>15 DEF Kept, Without
<1>17. ASSUME ~u.failed
       PROVE  Listed(u, n) /\ Drawn(u) /\ u.items = DOMAIN u.stats
  <2>1. ~t.failed /\ ~s1.failed /\ ~s0.failed /\ ~s.failed
    BY <1>8, <1>11, <1>12, <1>15, <1>17 DEF Kept, Without
  <2>2. Listed(s, n) /\ s.items = DOMAIN s.stats
    BY <2>1 DEF Consistent
  <2>3. Listed(s0, n) /\ gone \subseteq s0.items
    BY <1>2, <1>9, <2>2 DEF Listed, SelectedProjects
  <2>4. Listed(s1, n)
    BY <1>11, <2>1, <2>3 DEF Without
  <2>5. u.items = DOMAIN stats
    BY <1>2, <1>9, <1>11, <1>13, <1>15, <2>2 DEF Kept, Without
  <2>6. SelectedProjects(t) = SelectedProjects(s1) /\ SelectedProjects(u) = SelectedProjects(t)
    BY <1>13, <1>15 DEF SelectedProjects, Kept
  <2>7. u.chosen = SelectedProjects(u)
    BY <1>13, <1>15, <2>4, <2>6 DEF Kept, Listed
  <2>8. u.chosen \subseteq u.items
    BY <1>13, <1>15, <2>4 DEF Kept, Listed
  <2>9. Drawn(u)
    BY <1>15, <1>17, <2>6, <2>7 DEF Kept, Drawn
  <2> QED  BY <1>7, <1>16, <2>5, <2>7, <2>8, <2>9 DEF Listed
<1> QED  BY <1>7, <1>15, <1>16, <1>17 DEF Consistent, Kept

\* The list got another selection, of which the view takes note.
LEMMA Reselected ==
  ASSUME NEW n \in Nat, NEW s, Tab(s), DOMAIN s.stats \subseteq 1..n,
         s.failed \/ (s.items = DOMAIN s.stats /\ s.chosen \subseteq s.items
                      /\ (s.mode = "one" => \E x : s.chosen \subseteq {x})),
         NEW u, u = ItemSelectionChanged(s)
  PROVE  Consistent(u, n)
<1>1. /\ Kept(s, u)
      /\ NoProject \notin s.chosen /\ (s.mode = "one" => \E x : s.chosen \subseteq {x})
           => u.failed \/ (/\ u.chosen = SelectedProjects(u) /\ u.chosen \subseteq DOMAIN u.stats
                           /\ Drawn(u))
  BY SelectionFollows
<1>2. CASE s.failed
  BY <1>1, <1>2 DEF Kept, Consistent
<1>3. CASE ~s.failed
  <2>1. NoProject \notin 1..n
    BY DEF NoProject
  <2>2. NoProject \notin s.chosen
    BY <1>3, <2>1
  <2> QED  BY <1>1, <1>3, <2>2 DEF Kept, Consistent, Listed
<1> QED  BY <1>2, <1>3

LEMMA ViewModeChanged ==
  ASSUME NEW n \in Nat, NEW s, Consistent(s, n), ~s.failed, NEW mode, NEW u, u = ChangeViewMode(s, mode)
  PROVE  Consistent(u, n)
<1>1. PICK t : t = [s EXCEPT !.mode = mode]
  OBVIOUS
<1>2. PICK s1 : s1 = UpdateView(t)
  OBVIOUS
<1>3. DOMAIN t = Fields /\ t.failed = s.failed
  BY <1>1 DEF Consistent, Tab, Fields
<1>4. /\ t.stats = s.stats /\ t.type = s.type /\ t.mode = mode /\ t.items = s.items
      /\ t.chosen = s.chosen /\ t.one = s.one /\ t.many = s.many
  BY <1>1 DEF Consistent, Tab, Fields
<1>5. Tab(t)
  BY <1>3 DEF Consistent, Tab
<1>6. /\ Kept(t, s1) /\ s1.one = t.one /\ s1.many = t.many
      /\ s1.failed \/ (/\ SelectedProjects(t) \subseteq DOMAIN t.stats
                       /\ s1.charts = [mode |-> t.mode, type |-> t.type,
                                       stats |-> Only(t.stats, SelectedProjects(t))])
  BY <1>2, <1>5, Redrawn
<1>7. Listed(s, n) /\ s.items = DOMAIN s.stats /\ DOMAIN s.stats \subseteq 1..n
  BY DEF Consistent
<1>8. CASE s.mode = "one" <=> mode = "one"
  <2>1. u = s1
    BY <1>1, <1>2, <1>8, Zenon DEF ChangeViewMode
  <2>2. SelectedProjects(t) = SelectedProjects(s) /\ SelectedProjects(s1) = SelectedProjects(t)
    BY <1>4, <1>6, <1>8 DEF SelectedProjects, Kept
  <2>3. Listed(s1, n)
    BY <1>4, <1>6, <1>7, <2>2 DEF Listed, Kept
  <2>4. s1.failed \/ Drawn(s1)
    BY <1>6, <2>2, <2>3 DEF Kept, Drawn, Listed
  <2> QED  BY <1>4, <1>6, <1>7, <2>1, <2>3, <2>4 DEF Kept, Consistent
<1>9. CASE ~(s.mode = "one" <=> mode = "one")
  <2>1. PICK v : v = [s1 EXCEPT !.chosen = SelectedProjects(s1) \cap s1.items]
    OBVIOUS
  <2>2. u = ItemSelectionChanged(v)
    BY <1>1, <1>2, <1>9, <2>1, Zenon DEF ChangeViewMode
  <2>3. DOMAIN v = Fields /\ v.failed = s1.failed
    BY <1>6, <2>1 DEF Kept, Tab, Fields
  <2>4. /\ v.stats = s1.stats /\ v.mode = s1.mode /\ v.items = s1.items
        /\ v.chosen = SelectedProjects(s1) \cap s1.items
    BY <1>6, <2>1 DEF Kept, Tab, Fields
  <2>5. Tab(v)
    BY <1>6, <2>3 DEF Kept, Tab
  <2>6. v.mode = "one" => \E x : v.chosen \subseteq {x}
    BY <2>4 DEF SelectedProjects
  <2>7. v.items = DOMAIN v.stats /\ v.chosen \subseteq v.items /\ DOMAIN v.stats \subseteq 1..n
    BY <1>4, <1>6, <1>7, <2>4 DEF Kept
  <2> QED  BY <2>2, <2>5, <2>6, <2>7, Reselected
<1> QED  BY <1>8, <1>9

LEMMA StatisticsTypeChanged ==
  ASSUME NEW n \in Nat, NEW s, Consistent(s, n), ~s.failed, NEW type, NEW u,
         u = ChangeStatisticsType(s, type)
  PROVE  Consistent(u, n)
<1>1. PICK t : t = [s EXCEPT !.type = type]
  OBVIOUS
<1>2. u = UpdateView(t)
  BY <1>1 DEF ChangeStatisticsType
<1>3. DOMAIN t = Fields /\ t.failed = s.failed
  BY <1>1 DEF Consistent, Tab, Fields
<1>4. /\ t.stats = s.stats /\ t.mode = s.mode /\ t.items = s.items
      /\ t.chosen = s.chosen /\ t.one = s.one /\ t.many = s.many
  BY <1>1 DEF Consistent, Tab, Fields
<1>5. Tab(t)
  BY <1>3 DEF Consistent, Tab
<1>6. /\ Kept(t, u) /\ u.one = t.one /\ u.many = t.many
      /\ u.failed \/ (/\ SelectedProjects(t) \subseteq DOMAIN t.stats
                      /\ u.charts = [mode |-> t.mode, type |-> t.type,
                                     stats |-> Only(t.stats, SelectedProjects(t))])
  BY <1>2, <1>5, Redrawn
<1>7. Listed(s, n) /\ s.items = DOMAIN s.stats /\ DOMAIN s.stats \subseteq 1..n
  BY DEF Consistent
<1>8. SelectedProjects(t) = SelectedProjects(s) /\ SelectedProjects(u) = SelectedProjects(t)
  BY <1>4, <1>6 DEF SelectedProjects, Kept
<1>9. Listed(u, n)
  BY <1>4, <1>6, <1>7, <1>8 DEF Listed, Kept
<1>10. u.failed \/ Drawn(u)
  BY <1>6, <1>8, <1>9 DEF Kept, Drawn, Listed
<1> QED  BY <1>4, <1>6, <1>7, <1>9, <1>10 DEF Kept, Consistent

\* No two items are in the same row.
LEMMA RowsDiffer ==
  ASSUME NEW n \in Nat, NEW items, items \subseteq 1..n, NEW p \in items, NEW q \in items, p < q
  PROVE  Cardinality({i \in items : i < p}) < Cardinality({i \in items : i < q})
<1>1. PICK P : P = {i \in items : i < p}
  OBVIOUS
<1>2. PICK Q : Q = {i \in items : i < q}
  OBVIOUS
<1>3. P \cup {p} \subseteq Q /\ p \notin P /\ P \in SUBSET (1..n) /\ Q \in SUBSET (1..n)
  <2>1. \A i \in items : i \in Int /\ i \in 1..n
    OBVIOUS
  <2>2. \A i \in items : i < p => i < q
    BY <2>1
  <2>3. ~(p < p)
    BY <2>1
  <2> QED  BY <1>1, <1>2, <2>1, <2>2, <2>3, Zenon
<1>4. IsFiniteSet(1..n)
  BY FS_Interval
<1>5. IsFiniteSet(P) /\ IsFiniteSet(Q)
  BY <1>3, <1>4, FS_Subset
<1>6. Cardinality(P \cup {p}) = Cardinality(P) + 1
  BY <1>3, <1>5, FS_AddElement
<1>7. Cardinality(P \cup {p}) <= Cardinality(Q)
  <2>1. P \cup {p} \in SUBSET Q
    BY <1>3
  <2> QED  BY <1>5, <2>1, FS_Subset
<1>8. Cardinality(P) \in Nat /\ Cardinality(Q) \in Nat
  BY <1>5, FS_CardinalityType
<1> QED  BY <1>1, <1>2, <1>6, <1>7, <1>8

LEMMA SelectionMoved ==
  ASSUME NEW n \in Nat, NEW s, Consistent(s, n), ~s.failed, NEW default, NEW step, NEW u,
         u = MoveSelection(s, default, step)
  PROVE  Consistent(u, n)
<1> DEFINE row(p) == Cardinality({i \in s.items : i < p})
<1>1. PICK k : u = ItemSelectionChanged([s EXCEPT !.chosen = {p \in s.items : row(p) = k}])
  BY Zenon DEF MoveSelection
<1>2. PICK c : c = {p \in s.items : row(p) = k}
  OBVIOUS
<1>3. PICK t : t = [s EXCEPT !.chosen = c]
  OBVIOUS
<1>4. DOMAIN t = Fields /\ t.failed = s.failed
  BY <1>3 DEF Consistent, Tab, Fields
<1>5. t.stats = s.stats /\ t.items = s.items /\ t.mode = s.mode /\ t.chosen = c
  BY <1>3 DEF Consistent, Tab, Fields
<1>6. s.items \subseteq 1..n /\ s.items = DOMAIN s.stats
  BY DEF Consistent, Listed
<1>7. \A p, q \in c : p = q
  <2> SUFFICES ASSUME NEW p \in c, NEW q \in c PROVE p = q
    OBVIOUS
  <2>1. p \in s.items /\ q \in s.items /\ row(p) = row(q)
    BY <1>2
  <2>2. p \in Int /\ q \in Int
    BY <1>6, <2>1
  <2>3. Cardinality({i \in s.items : i < p}) \in Nat /\ Cardinality({i \in s.items : i < q}) \in Nat
    <3>1. {i \in s.items : i < p} \in SUBSET (1..n) /\ {i \in s.items : i < q} \in SUBSET (1..n)
      BY <1>6
    <3>2. IsFiniteSet(1..n)
      BY FS_Interval
    <3> QED  BY <3>1, <3>2, FS_Subset, FS_CardinalityType
  <2>4. ~(p < q)
    BY <1>6, <2>1, <2>3, RowsDiffer
  <2>5. ~(q < p)
    BY <1>6, <2>1, <2>3, RowsDiffer
  <2> QED  BY ONLY <2>2, <2>4, <2>5
<1>8. \E x : c \subseteq {x}
  <2>1. CASE c = {}
    BY <2>1
  <2>2. CASE c # {}
    <3>1. PICK x \in c : TRUE
      BY <2>2
    <3>2. c \subseteq {x}
      BY <1>7
    <3> QED  BY <3>2
  <2> QED  BY <2>1, <2>2
<1>9. c \subseteq s.items
  BY <1>2
<1>10. Tab(t)
  BY <1>4 DEF Consistent, Tab
<1>11. u = ItemSelectionChanged(t)
  BY <1>1, <1>2, <1>3
<1> HIDE DEF row
<1> QED  BY <1>5, <1>6, <1>8, <1>9, <1>10, <1>11, Reselected

LEMMA ItemClicked ==
  ASSUME NEW n \in Nat, NEW s, Consistent(s, n), ~s.failed, NEW p \in s.items, NEW u,
         u = ClickItem(s, p)
  PROVE  Consistent(u, n)
<1>1. PICK c : c = IF s.mode = "one" THEN {p}
                   ELSE IF p \in s.chosen THEN s.chosen \ {p} ELSE s.chosen \cup {p}
  OBVIOUS
<1>2. Listed(s, n) /\ Drawn(s) /\ s.items = DOMAIN s.stats /\ DOMAIN s.stats \subseteq 1..n
  BY DEF Consistent
<1>3. CASE c = s.chosen
  <2>1. u = [s EXCEPT !.current = p]
    BY <1>1, <1>3 DEF ClickItem
  <2>2. DOMAIN u = Fields /\ u.failed = s.failed
    BY <2>1 DEF Consistent, Tab, Fields
  <2>3. /\ u.stats = s.stats /\ u.type = s.type /\ u.mode = s.mode /\ u.items = s.items
        /\ u.chosen = s.chosen /\ u.one = s.one /\ u.many = s.many /\ u.charts = s.charts
    BY <2>1 DEF Consistent, Tab, Fields
  <2>4. Listed(u, n) /\ Drawn(u)
    BY <1>2, <2>3 DEF Listed, Drawn, SelectedProjects
  <2> QED  BY <1>2, <2>2, <2>3, <2>4 DEF Consistent, Tab
<1>4. CASE c # s.chosen
  <2>1. PICK t : t = [s EXCEPT !.current = p, !.chosen = c]
    OBVIOUS
  <2>2. u = ItemSelectionChanged(t)
    BY <1>1, <1>4, <2>1 DEF ClickItem
  <2>3. DOMAIN t = Fields /\ t.failed = s.failed
    BY <2>1 DEF Consistent, Tab, Fields
  <2>4. t.stats = s.stats /\ t.items = s.items /\ t.mode = s.mode /\ t.chosen = c
    BY <2>1 DEF Consistent, Tab, Fields
  <2>5. Tab(t)
    BY <2>3 DEF Consistent, Tab
  <2>6. c \subseteq s.items /\ (s.mode = "one" => c \subseteq {p})
    BY <1>1, <1>2 DEF Listed
  <2>7. t.mode = "one" => \E x : t.chosen \subseteq {x}
    BY <2>4, <2>6
  <2> QED  BY <1>2, <2>2, <2>4, <2>5, <2>6, <2>7, Reselected
<1> QED  BY <1>3, <1>4

\* What the user does on the tab.
LEMMA UserKeepsTheTab ==
  ASSUME NEW n \in Nat, Consistent(tab, n), UserOnStatistics
  PROVE  Consistent(tab, n)'
<1>1. ~tab.failed
  BY DEF UserOnStatistics
<1>2. CASE PressViewMode
  BY <1>1, <1>2, ViewModeChanged DEF PressViewMode
<1>3. CASE PressType
  BY <1>1, <1>3, StatisticsTypeChanged DEF PressType
<1>4. CASE PressPreviousOrNext
  BY <1>1, <1>4, SelectionMoved DEF PressPreviousOrNext
<1>5. CASE ClickProject
  BY <1>1, <1>5, ItemClicked DEF ClickProject
<1> QED  BY <1>2, <1>3, <1>4, <1>5 DEF UserOnStatistics

\* The property in the words of the invariant.
LEMMA ConsistentShows ==
  ASSUME NEW n, Consistent(tab, n)
  PROVE  ChartsShowSelection
BY DEF Consistent, Listed, Drawn, ChartsShowSelection

=============================================================================
