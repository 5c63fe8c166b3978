----------------------------- MODULE TabsProofs -----------------------------
(***************************************************************************)
(* update_tab_model is right for all lists of rows, sorted or not, and for *)
(* any number of calls: the view always knows the rows that are there, and *)
(* after a call the table shows the new ones.  On top of that, a tab keeps *)
(* the user's selection, its panel follows it, and nothing is aborted that *)
(* the user was not asked about.                                           *)
(***************************************************************************)
EXTENDS Tabs, SequenceTheorems, TLAPS

-----------------------------------------------------------------------------
(* Sequences of rows.                                                      *)

\* Cutting rows out leaves a sequence, shorter by their number.
LEMMA CutIsSeq ==
  ASSUME NEW S, NEW s \in Seq(S), NEW i \in 1..Len(s), NEW n \in 1..(Len(s) - i + 1)
  PROVE  /\ Cut(s, i, n) \in Seq(S)
         /\ Len(Cut(s, i, n)) = Len(s) - n
         /\ \A k \in 1..(Len(s) - n) : Cut(s, i, n)[k] = IF k < i THEN s[k] ELSE s[k + n]
<1>1. Len(s) \in Nat /\ Len(s) - n \in Nat
  OBVIOUS
<1>2. \A k \in 1..(Len(s) - n) : (IF k < i THEN s[k] ELSE s[k + n]) \in S
  <2>1. \A k \in 1..Len(s) : s[k] \in S
    OBVIOUS
  <2> QED  BY <2>1, <1>1
<1>3. Cut(s, i, n) \in [1..(Len(s) - n) -> S]
  BY <1>2 DEF Cut
<1> QED  BY <1>1, <1>3 DEF Cut

\* t is s with x put in at i.
Inserted(S, s, i, x, t) ==
  /\ t \in Seq(S)
  /\ Len(t) = Len(s) + 1
  /\ \A k \in 1..(Len(s) + 1) : t[k] = IF k < i THEN s[k] ELSE IF k = i THEN x ELSE s[k - 1]

\* Putting an element in leaves a sequence, longer by one.
LEMMA InsertIsSeq ==
  ASSUME NEW S, NEW s \in Seq(S), NEW i \in 1..(Len(s) + 1), NEW x \in S
  PROVE  Inserted(S, s, i, x, Insert(s, i, x))
<1>1. Len(s) \in Nat
  OBVIOUS
<1>2. \A k \in 1..(Len(s) + 1) :
        (IF k < i THEN s[k] ELSE IF k = i THEN x ELSE s[k - 1]) \in S
  <2>1. \A k \in 1..Len(s) : s[k] \in S
    OBVIOUS
  <2> QED  BY <2>1, <1>1
<1>3. Insert(s, i, x) \in [1..(Len(s) + 1) -> S]
  BY <1>2 DEF Insert
<1> QED  BY <1>1, <1>3 DEF Insert, Inserted

\* What the view gets to know of new rows.
LEMMA CellsIsSeq ==
  ASSUME NEW s \in Seq(Row)
  PROVE  /\ Cells(s) \in Seq(Cell)
         /\ Len(Cells(s)) = Len(s)
         /\ \A k \in 1..Len(s) : Cells(s)[k] = [row |-> s[k], selected |-> FALSE]
<1>1. Len(s) \in Nat
  OBVIOUS
<1>2. \A k \in 1..Len(s) : [row |-> s[k], selected |-> FALSE] \in Cell
  <2>1. \A k \in 1..Len(s) : s[k] \in Row
    OBVIOUS
  <2>2. FALSE \in BOOLEAN
    BY Zenon
  <2> QED  BY <2>1, <2>2 DEF Cell
<1>3. Cells(s) \in [1..Len(s) -> Cell]
  BY <1>2 DEF Cells
<1> QED  BY <1>1, <1>3 DEF Cells

\* Extending a sequence by the rest of a longer one.
LEMMA ExtendIsSeq ==
  ASSUME NEW S, NEW s \in Seq(S), NEW t \in Seq(S), Len(s) <= Len(t)
  PROVE  /\ Extend(s, t) \in Seq(S)
         /\ Len(Extend(s, t)) = Len(t)
         /\ \A k \in 1..Len(t) : Extend(s, t)[k] = IF k <= Len(s) THEN s[k] ELSE t[k]
<1>1. Len(s) \in Nat /\ Len(t) \in Nat
  OBVIOUS
<1>2. (IF Len(s) < Len(t) THEN Len(t) ELSE Len(s)) = Len(t)
  BY <1>1
<1>3. \A k \in 1..Len(t) : (IF k <= Len(s) THEN s[k] ELSE t[k]) \in S
  <2>1. \A k \in 1..Len(s) : s[k] \in S
    OBVIOUS
  <2>2. \A k \in 1..Len(t) : t[k] \in S
    OBVIOUS
  <2> QED  BY <2>1, <2>2, <1>1
<1>4. Extend(s, t) = [k \in 1..Len(t) |-> IF k <= Len(s) THEN s[k] ELSE t[k]]
  BY <1>2 DEF Extend
<1>5. Extend(s, t) \in [1..Len(t) -> S]
  BY <1>3, <1>4
<1> QED  BY <1>1, <1>4, <1>5

\* r is s followed by t from i on.
Appended(S, s, t, i, r) ==
  /\ r \in Seq(S)
  /\ Len(r) = Len(s) + Len(t) - i + 1
  /\ \A k \in 1..(Len(s) + Len(t) - i + 1) :
       r[k] = IF k <= Len(s) THEN s[k] ELSE t[k - Len(s) + i - 1]

\* Appending the rest of a longer sequence.
LEMMA AppendRest ==
  ASSUME NEW S, NEW s \in Seq(S), NEW t \in Seq(S), NEW i \in 1..Len(t)
  PROVE  Appended(S, s, t, i, s \o SubSeq(t, i, Len(t)))
<1>1. Len(s) \in Nat /\ Len(t) \in Nat
  OBVIOUS
<1> DEFINE r == SubSeq(t, i, Len(t))
<1>2. /\ r \in Seq(S)
      /\ Len(r) = Len(t) - i + 1
      /\ \A k \in 1..Len(r) : r[k] = t[k + i - 1]
  BY <1>1
<1> HIDE DEF r
<1>3. /\ s \o r \in Seq(S)
      /\ Len(s \o r) = Len(s) + Len(r)
      /\ \A k \in 1..(Len(s) + Len(r)) : (s \o r)[k] = IF k <= Len(s) THEN s[k] ELSE r[k - Len(s)]
  <2>1. s \in Seq(S) /\ r \in Seq(S)
    BY <1>2
  <2> QED  BY ONLY <2>1, ConcatProperties, Zenon
<1>4. \A k \in 1..(Len(s) + Len(r)) : k > Len(s) => r[k - Len(s)] = t[k - Len(s) + i - 1]
  BY <1>1, <1>2
<1> QED  BY <1>1, <1>2, <1>3, <1>4 DEF r, Appended

\* A sequence that is not longer has nothing to add.
LEMMA ShorterAddsNothing ==
  ASSUME NEW S, NEW s \in Seq(S), NEW t \in Seq(S), Len(t) < Len(s)
  PROVE  Extend(s, t) \in Seq(S) /\ Len(Extend(s, t)) = Len(s) /\ Extend(s, t) = s
<1>1. Len(s) \in Nat /\ Len(t) \in Nat
  OBVIOUS
<1>2. (IF Len(s) < Len(t) THEN Len(t) ELSE Len(s)) = Len(s)
  BY <1>1
<1>3. Extend(s, t) = [k \in 1..Len(s) |-> s[k]]
  <2>1. \A k \in 1..Len(s) : (IF k <= Len(s) THEN s[k] ELSE t[k]) = s[k]
    BY <1>1
  <2> QED  BY <1>2, <2>1 DEF Extend
<1>4. s = [k \in 1..Len(s) |-> s[k]]
  OBVIOUS
<1> QED  BY <1>3, <1>4

-----------------------------------------------------------------------------
(* The inductive invariant: types, the walk, and what the view knows.      *)

\* What holds even of a view that was not told of every change: it has a cell for
\* each row at least.
MergeSound == UpdaterTypeOK /\ MergeInvariant /\ Len(rows) <= Len(view)

UpdaterInv == MergeSound /\ ViewKnowsTheRows

\* A step keeps both parts, the second one on its own.
Kept == MergeSound' /\ (ViewKnowsTheRows => ViewKnowsTheRows')

\* What the steps need of the types.
LEMMA SoundTypes ==
  ASSUME MergeSound
  PROVE  /\ rows \in Seq(Row) /\ view \in Seq(Cell) /\ new \in Seq(Row)
         /\ ci \in Nat \ {0} /\ ni \in Nat \ {0}
         /\ Len(rows) \in Nat /\ Len(view) \in Nat /\ Len(new) \in Nat
         /\ Len(rows) <= Len(view)
BY DEF MergeSound, UpdaterTypeOK

\* It holds for the empty table.
LEMMA InitInv == UpdaterInit => UpdaterInv
<1> SUFFICES ASSUME UpdaterInit PROVE UpdaterInv
  OBVIOUS
<1>1. UpdaterTypeOK
  <2>1. <<>> \in Seq(Row) /\ <<>> \in Seq(Cell)
    OBVIOUS
  <2>2. merging \in BOOLEAN
    BY Zenon DEF UpdaterInit
  <2> QED  BY <2>1, <2>2 DEF UpdaterInit, UpdaterTypeOK
<1>2. ViewKnowsTheRows /\ Len(rows) <= Len(view)
  BY DEF UpdaterInit, ViewKnowsTheRows
<1>3. MergeInvariant
  BY DEF UpdaterInit, MergeInvariant
<1> QED  BY <1>1, <1>2, <1>3 DEF UpdaterInv, MergeSound

\* A cut at the same place of the rows and of the view, if it is at the iterator.
LEMMA CutKeepsInv ==
  ASSUME MergeSound, merging, ci <= Len(rows),
         NEW n \in 1..(Len(rows) - ci + 1),
         rows' = Cut(rows, ci, n), view' = Cut(view, ci, n),
         UNCHANGED <<new, ci, ni, merging>>
  PROVE  Kept
<1>1. /\ rows \in Seq(Row) /\ view \in Seq(Cell) /\ new \in Seq(Row)
      /\ ci \in Nat \ {0} /\ ni \in Nat \ {0}
      /\ Len(rows) \in Nat /\ Len(view) \in Nat /\ Len(rows) <= Len(view)
  BY SoundTypes
<1>2. ci \in 1..Len(rows) /\ ci \in 1..Len(view) /\ n \in 1..(Len(view) - ci + 1)
  BY <1>1
<1>3. /\ rows' \in Seq(Row)
      /\ Len(rows') = Len(rows) - n
      /\ \A k \in 1..(Len(rows) - n) : rows'[k] = IF k < ci THEN rows[k] ELSE rows[k + n]
  BY <1>1, <1>2, CutIsSeq
<1>4. /\ view' \in Seq(Cell)
      /\ Len(view') = Len(view) - n
      /\ \A k \in 1..(Len(view) - n) : view'[k] = IF k < ci THEN view[k] ELSE view[k + n]
  BY <1>1, <1>2, CutIsSeq
<1>5. UpdaterTypeOK'
  <2>1. merging' \in BOOLEAN
    BY Zenon DEF MergeSound, UpdaterTypeOK
  <2> QED  BY <1>1, <1>3, <1>4, <2>1 DEF UpdaterTypeOK
<1>6. ASSUME ViewKnowsTheRows PROVE ViewKnowsTheRows'
  <2>1. Len(view) = Len(rows) /\ \A k \in 1..Len(rows) : view[k].row = rows[k]
    BY <1>6 DEF ViewKnowsTheRows
  <2>2. \A k \in 1..(Len(rows) - n) : view'[k].row = rows'[k]
    <3> TAKE k \in 1..(Len(rows) - n)
    <3>1. k \in 1..Len(rows) /\ k + n \in 1..Len(rows)
      BY <1>1, <1>2
    <3>2. view[k].row = rows[k] /\ view[k + n].row = rows[k + n]
      BY <2>1, <3>1
    <3>3. CASE k < ci
      BY <1>3, <1>4, <2>1, <3>2, <3>3
    <3>4. CASE ~(k < ci)
      BY <1>3, <1>4, <2>1, <3>2, <3>4
    <3> QED  BY <3>3, <3>4
  <2> QED  BY <1>3, <1>4, <2>1, <2>2 DEF ViewKnowsTheRows
<1>7. MergeInvariant'
  <2>1. /\ ci = ni /\ ni <= Len(new) + 1 /\ Len(new) \in Nat
        /\ \A k \in 1..(ci - 1) : Same(rows[k], new[k])
    BY SoundTypes DEF MergeSound, MergeInvariant
  <2>2. \A k \in 1..(ci - 1) : Same(rows'[k], new[k])
    <3> TAKE k \in 1..(ci - 1)
    <3>1. k \in 1..(Len(rows) - n) /\ k < ci
      BY <1>1, <1>2
    <3>2. rows'[k] = rows[k]
      BY ONLY <1>3, <3>1
    <3> QED  BY ONLY <2>1, <3>2
  <2>3. ci <= Len(rows') + 1
    BY <1>1, <1>2, <1>3
  <2> QED  BY <2>1, <2>2, <2>3 DEF MergeInvariant
<1>8. Len(rows') <= Len(view')
  BY <1>1, <1>2, <1>3, <1>4
<1> QED  BY <1>5, <1>6, <1>7, <1>8 DEF Kept, MergeSound

\* What a step over a row that compares equal does: the row shows what the new one does,
\* and if it is written, the view is told.
LEMMA RowIsWritten ==
  ASSUME MergeSound, Update
  PROVE  /\ ci' = ci + 1 /\ ni' = ni + 1 /\ new' = new
         /\ \/ /\ Same(rows[ci], new[ni])
               /\ rows' = rows /\ view' = view
            \/ /\ ~Same(rows[ci], new[ni])
               /\ rows' = [rows EXCEPT ![ci] = new[ni]]
               /\ view' = [view EXCEPT ![ci].row = new[ni]]
BY DEF Update

LEMMA WrittenKeepsInv ==
  ASSUME MergeSound, Update, ~Same(rows[ci], new[ni])
  PROVE  Kept
<1>1. /\ rows \in Seq(Row) /\ view \in Seq(Cell) /\ new \in Seq(Row)
      /\ ci \in Nat \ {0} /\ ni \in Nat \ {0}
      /\ Len(rows) \in Nat /\ Len(view) \in Nat /\ Len(new) \in Nat
      /\ Len(rows) <= Len(view)
      /\ ci \in 1..Len(rows) /\ ci \in 1..Len(view) /\ ni \in 1..Len(new) /\ new[ni] \in Row
      /\ merging
  BY SoundTypes DEF Update, Walking
<1>2. /\ rows' = [rows EXCEPT ![ci] = new[ni]]
      /\ view' = [view EXCEPT ![ci].row = new[ni]]
      /\ ci' = ci + 1 /\ ni' = ni + 1 /\ new' = new
  BY RowIsWritten
<1>3. /\ rows' \in Seq(Row) /\ Len(rows') = Len(rows)
      /\ \A k \in 1..Len(rows) : rows'[k] = IF k = ci THEN new[ni] ELSE rows[k]
  BY <1>1, <1>2
<1>4. /\ view' \in Seq(Cell) /\ Len(view') = Len(view)
      /\ \A k \in 1..Len(view) :
           view'[k] = IF k = ci THEN [view[k] EXCEPT !.row = new[ni]] ELSE view[k]
  <2>1. view[ci] \in Cell
    BY <1>1
  <2> DEFINE c == [view[ci] EXCEPT !.row = new[ni]]
  <2>2. c \in Cell
    BY <1>1, <2>1 DEF Cell
  <2>3. view' = [view EXCEPT ![ci] = c]
    BY <1>2
  <2> HIDE DEF c
  <2>4. /\ view' \in Seq(Cell) /\ Len(view') = Len(view)
        /\ \A k \in 1..Len(view) : view'[k] = IF k = ci THEN c ELSE view[k]
    BY <1>1, <2>2, <2>3
  <2> QED  BY <2>4 DEF c
<1>5. UpdaterTypeOK'
  <2>1. merging' \in BOOLEAN
    BY Zenon DEF MergeSound, UpdaterTypeOK, Update
  <2> QED  BY <1>1, <1>2, <1>3, <1>4, <2>1 DEF UpdaterTypeOK
<1>6. ASSUME ViewKnowsTheRows PROVE ViewKnowsTheRows'
  <2>1. Len(view) = Len(rows) /\ \A k \in 1..Len(rows) : view[k].row = rows[k] /\ view[k] \in Cell
    BY <1>1, <1>6 DEF ViewKnowsTheRows
  <2>2. \A k \in 1..Len(rows) : view'[k].row = rows'[k]
    BY <1>1, <1>3, <1>4, <2>1 DEF Cell
  <2> QED  BY <1>3, <1>4, <2>1, <2>2 DEF ViewKnowsTheRows
<1>7. MergeInvariant'
  <2>1. /\ ci = ni /\ ni <= Len(new) + 1 /\ Len(new) \in Nat
        /\ \A k \in 1..(ci - 1) : Same(rows[k], new[k])
    BY SoundTypes DEF MergeSound, MergeInvariant, Update, Walking
  <2>2. \A k \in 1..ci : Same(rows'[k], new[k])
    BY ONLY <1>1, <1>3, <2>1 DEF Same
  <2>3. (ci + 1) - 1 = ci /\ ci + 1 <= Len(rows') + 1
    BY ONLY <1>1, <1>3
  <2>4. ni + 1 <= Len(new) + 1
    BY ONLY <1>1
  <2> QED  BY ONLY <1>2, <2>1, <2>2, <2>3, <2>4 DEF MergeInvariant
<1> QED  BY <1>1, <1>3, <1>4, <1>5, <1>6, <1>7 DEF Kept, MergeSound

LEMMA LeftKeepsInv ==
  ASSUME MergeSound, Update, Same(rows[ci], new[ni])
  PROVE  Kept
<1>1. /\ Len(rows) \in Nat /\ Len(new) \in Nat
      /\ ci \in 1..Len(rows) /\ ni \in 1..Len(new) /\ ci = ni
      /\ \A k \in 1..(ci - 1) : Same(rows[k], new[k])
  BY SoundTypes DEF MergeSound, MergeInvariant, Update, Walking
<1>2. /\ rows' = rows /\ view' = view /\ new' = new /\ merging' = merging
      /\ ci' = ci + 1 /\ ni' = ni + 1
  BY RowIsWritten DEF Update
<1>3. UpdaterTypeOK'
  <2>1. merging' \in BOOLEAN
    BY <1>2, Zenon DEF MergeSound, UpdaterTypeOK
  <2> QED  BY <1>1, <1>2, <2>1 DEF MergeSound, UpdaterTypeOK
<1>4. MergeInvariant'
  <2>1. \A k \in 1..ci : Same(rows[k], new[k])
    <3> TAKE k \in 1..ci
    <3>1. k = ci \/ k \in 1..(ci - 1)
      BY <1>1
    <3> QED  BY <1>1, <3>1
  <2>2. (ci + 1) - 1 = ci /\ ci + 1 <= Len(rows) + 1 /\ ni + 1 <= Len(new) + 1
    BY <1>1
  <2> QED  BY ONLY <1>1, <1>2, <2>1, <2>2 DEF MergeInvariant
<1>5. ViewKnowsTheRows => ViewKnowsTheRows'
  BY <1>2 DEF ViewKnowsTheRows
<1> QED  BY <1>2, <1>3, <1>4, <1>5 DEF Kept, MergeSound

LEMMA UpdateKeepsInv == MergeSound /\ Update => Kept
BY WrittenKeepsInv, LeftKeepsInv

\* Putting in a new row.
LEMMA InsertKeepsInv == MergeSound /\ InsertNew => Kept
<1> SUFFICES ASSUME MergeSound, InsertNew PROVE Kept
  OBVIOUS
<1> DEFINE c == [row |-> new[ni], selected |-> FALSE]
<1>1. /\ rows \in Seq(Row) /\ view \in Seq(Cell) /\ new \in Seq(Row)
      /\ ci \in Nat \ {0} /\ ni \in Nat \ {0}
      /\ Len(rows) \in Nat /\ Len(view) \in Nat /\ Len(new) \in Nat
      /\ Len(rows) <= Len(view)
      /\ ci \in 1..Len(rows) /\ ni \in 1..Len(new) /\ new[ni] \in Row
      /\ merging
  BY SoundTypes DEF InsertNew, Walking
<1>2. /\ rows' = Insert(rows, ci, new[ni])
      /\ view' = Insert(view, ci, c)
      /\ ci' = ci + 1 /\ ni' = ni + 1 /\ new' = new
  BY DEF InsertNew
<1>3. c \in Cell /\ c.row = new[ni]
  <2>1. FALSE \in BOOLEAN
    BY Zenon
  <2> QED  BY <1>1, <2>1 DEF Cell
<1> HIDE DEF c
<1>4. /\ rows' \in Seq(Row) /\ Len(rows') = Len(rows) + 1
      /\ \A k \in 1..(Len(rows) + 1) :
           rows'[k] = IF k < ci THEN rows[k] ELSE IF k = ci THEN new[ni] ELSE rows[k - 1]
  <2>1. rows \in Seq(Row) /\ ci \in 1..(Len(rows) + 1) /\ new[ni] \in Row
    BY <1>1
  <2>2. Inserted(Row, rows, ci, new[ni], Insert(rows, ci, new[ni]))
    BY ONLY <2>1, InsertIsSeq, Zenon
  <2> QED  BY ONLY <1>2, <2>2 DEF Inserted
<1>5. /\ view' \in Seq(Cell) /\ Len(view') = Len(view) + 1
      /\ \A k \in 1..(Len(view) + 1) :
           view'[k] = IF k < ci THEN view[k] ELSE IF k = ci THEN c ELSE view[k - 1]
  <2>1. view \in Seq(Cell) /\ ci \in 1..(Len(view) + 1) /\ c \in Cell
    BY <1>1, <1>3
  <2>2. Inserted(Cell, view, ci, c, Insert(view, ci, c))
    BY ONLY <2>1, InsertIsSeq, Zenon
  <2> QED  BY ONLY <1>2, <2>1, <2>2 DEF Inserted
<1>6. UpdaterTypeOK'
  <2>1. merging' \in BOOLEAN
    BY Zenon DEF MergeSound, UpdaterTypeOK, InsertNew
  <2> QED  BY <1>1, <1>2, <1>4, <1>5, <2>1 DEF UpdaterTypeOK
<1>7. ASSUME ViewKnowsTheRows PROVE ViewKnowsTheRows'
  <2>1. Len(view) = Len(rows) /\ \A k \in 1..Len(rows) : view[k].row = rows[k]
    BY <1>7 DEF ViewKnowsTheRows
  <2>2. \A k \in 1..(Len(rows) + 1) : view'[k].row = rows'[k]
    <3> TAKE k \in 1..(Len(rows) + 1)
    <3>1. CASE k < ci
      <4>1. k \in 1..Len(rows)
        BY <1>1, <3>1
      <4> QED  BY <1>4, <1>5, <2>1, <3>1, <4>1
    <3>2. CASE k = ci
      <4>1. ~(k < ci)
        BY <1>1, <3>2
      <4> QED  BY <1>3, <1>4, <1>5, <2>1, <3>2, <4>1
    <3>3. CASE ~(k < ci) /\ k # ci
      <4>1. k - 1 \in 1..Len(rows)
        BY <1>1, <3>3
      <4> QED  BY <1>4, <1>5, <2>1, <3>3, <4>1
    <3> QED  BY <3>1, <3>2, <3>3
  <2> QED  BY <1>4, <1>5, <2>1, <2>2 DEF ViewKnowsTheRows
<1>8. MergeInvariant'
  <2>1. /\ ci = ni
        /\ \A k \in 1..(ci - 1) : Same(rows[k], new[k])
    BY <1>1 DEF MergeSound, MergeInvariant
  <2>2. \A k \in 1..ci : Same(rows'[k], new[k])
    <3> TAKE k \in 1..ci
    <3>1. CASE k = ci
      <4>1. rows'[k] = new[k]
        BY <1>1, <1>4, <2>1, <3>1
      <4> QED  BY <4>1 DEF Same
    <3>2. CASE k # ci
      <4>1. k \in 1..(ci - 1) /\ rows'[k] = rows[k]
        BY <1>1, <1>4, <3>2
      <4> QED  BY <2>1, <4>1
    <3> QED  BY <3>1, <3>2
  <2> QED  BY <1>1, <1>2, <1>4, <2>1, <2>2 DEF MergeInvariant
<1> QED  BY <1>1, <1>4, <1>5, <1>6, <1>7, <1>8 DEF Kept, MergeSound

\* The table shows the new rows.
AsNew ==
  /\ Len(rows) = Len(new)
  /\ \A k \in 1..Len(rows) : Same(rows[k], new[k])

\* The end of the call: what is left of the new rows is appended.
LEMMA FinishAppends ==
  ASSUME MergeSound, Finish
  PROVE  /\ rows' \in Seq(Row) /\ Len(rows') = Len(new) /\ Len(rows) <= Len(new)
         /\ \A k \in 1..Len(new) : rows'[k] = IF k <= Len(rows) THEN rows[k] ELSE new[k]
<1>1. /\ rows \in Seq(Row) /\ new \in Seq(Row)
      /\ Len(rows) \in Nat /\ Len(new) \in Nat
      /\ ci \in Nat \ {0} /\ ci = ni /\ ci = Len(rows) + 1 /\ Len(rows) <= Len(new)
  BY SoundTypes DEF MergeSound, MergeInvariant, Finish
<1>2. rows' = IF ni <= Len(new) THEN rows \o SubSeq(new, ni, Len(new)) ELSE rows
  BY DEF Finish
<1>3. CASE ni <= Len(new)
  <2>1. ni \in 1..Len(new)
    BY <1>1, <1>3
  <2>2. Appended(Row, rows, new, ni, rows \o SubSeq(new, ni, Len(new)))
    BY ONLY <1>1, <2>1, AppendRest, Zenon
  <2>3. /\ rows' \in Seq(Row) /\ Len(rows') = Len(rows) + Len(new) - ni + 1
        /\ \A k \in 1..(Len(rows) + Len(new) - ni + 1) :
             rows'[k] = IF k <= Len(rows) THEN rows[k] ELSE new[k - Len(rows) + ni - 1]
    BY ONLY <1>2, <1>3, <2>2 DEF Appended
  <2>4. Len(rows) + Len(new) - ni + 1 = Len(new)
    BY <1>1
  <2>5. \A k \in 1..Len(new) : rows'[k] = IF k <= Len(rows) THEN rows[k] ELSE new[k]
    <3> TAKE k \in 1..Len(new)
    <3>1. k - Len(rows) + ni - 1 = k
      BY <1>1
    <3> QED  BY <2>3, <2>4, <3>1
  <2> QED  BY <1>1, <2>3, <2>4, <2>5
<1>4. CASE ~(ni <= Len(new))
  <2>1. Len(rows) = Len(new) /\ rows' = rows
    <3>1. Len(rows) = Len(new)
      BY ONLY <1>1, <1>4
    <3> QED  BY <1>2, <1>4, <3>1, Zenon
  <2>2. \A k \in 1..Len(new) : k <= Len(rows)
    BY <1>1, <2>1
  <2>3. \A k \in 1..Len(new) : rows'[k] = IF k <= Len(rows) THEN rows[k] ELSE new[k]
    BY ONLY <2>1, <2>2, Zenon
  <2>4. rows' \in Seq(Row) /\ Len(rows') = Len(new)
    BY <1>1, <2>1, Zenon
  <2> QED  BY ONLY <1>1, <2>3, <2>4, Zenon
<1> QED  BY <1>3, <1>4

LEMMA FinishIsExact == MergeSound /\ Finish => Kept /\ AsNew'
<1> SUFFICES ASSUME MergeSound, Finish PROVE Kept /\ AsNew'
  OBVIOUS
<1>1. /\ rows \in Seq(Row) /\ view \in Seq(Cell) /\ new \in Seq(Row)
      /\ ci \in Nat \ {0} /\ ci = ni
      /\ Len(rows) \in Nat /\ Len(view) \in Nat /\ Len(new) \in Nat
      /\ Len(rows) <= Len(view)
      /\ ci = Len(rows) + 1 /\ Len(rows) <= Len(new)
      /\ \A k \in 1..Len(rows) : Same(rows[k], new[k])
  BY SoundTypes DEF MergeSound, MergeInvariant, Finish
<1>2. /\ view' = IF ni <= Len(new) THEN Extend(view, Cells(new)) ELSE view
      /\ new' = new /\ ci' = 1 /\ ni' = 1
  BY DEF Finish
<1>3. /\ rows' \in Seq(Row) /\ Len(rows') = Len(new)
      /\ \A k \in 1..Len(new) : rows'[k] = IF k <= Len(rows) THEN rows[k] ELSE new[k]
  BY FinishAppends
<1>4. /\ Cells(new) \in Seq(Cell) /\ Len(Cells(new)) = Len(new)
      /\ \A k \in 1..Len(new) : Cells(new)[k] = [row |-> new[k], selected |-> FALSE]
  BY <1>1, CellsIsSeq
<1>5. /\ view' \in Seq(Cell) /\ Len(new) <= Len(view')
      /\ ViewKnowsTheRows => /\ Len(view') = Len(new)
                             /\ \A k \in 1..Len(new) : view'[k].row = rows'[k]
  <2>1. ViewKnowsTheRows => Len(view) = Len(rows) /\ \A k \in 1..Len(rows) : view[k].row = rows[k]
    BY DEF ViewKnowsTheRows
  <2>2. CASE ni <= Len(new) /\ Len(view) <= Len(new)
    <3>1. view' = Extend(view, Cells(new))
      BY <1>2, <2>2
    <3>2. /\ view' \in Seq(Cell) /\ Len(view') = Len(new)
          /\ \A k \in 1..Len(new) :
               view'[k] = IF k <= Len(view) THEN view[k] ELSE Cells(new)[k]
      BY <1>1, <1>4, <2>2, <3>1, ExtendIsSeq
    <3>3. ASSUME ViewKnowsTheRows, NEW k \in 1..Len(new) PROVE view'[k].row = rows'[k]
      <4>1. CASE k <= Len(view)
        <5>1. k \in 1..Len(rows) /\ k <= Len(rows)
          BY <1>1, <2>1, <3>3, <4>1
        <5>2. view'[k] = view[k] /\ rows'[k] = rows[k]
          BY <1>3, <3>2, <4>1, <5>1
        <5> QED  BY <2>1, <3>3, <5>1, <5>2
      <4>2. CASE ~(k <= Len(view))
        <5>1. view'[k] = Cells(new)[k]
          BY <3>2, <4>2
        <5>2. Cells(new)[k] = [row |-> new[k], selected |-> FALSE]
          BY <1>4
        <5>3. ~(k <= Len(rows))
          BY <2>1, <3>3, <4>2
        <5>4. rows'[k] = new[k]
          BY <1>3, <5>3
        <5> QED  BY ONLY <5>1, <5>2, <5>4
      <4> QED  BY <4>1, <4>2
    <3> QED  BY <1>1, <3>2, <3>3
  <2>3. CASE ni <= Len(new) /\ ~(Len(view) <= Len(new))
    <3>1. view' = Extend(view, Cells(new)) /\ Len(new) < Len(view)
      <4>1. view' = Extend(view, Cells(new))
        BY ONLY <1>2, <2>3
      <4>2. Len(new) < Len(view)
        BY ONLY <1>1, <2>3
      <4> QED  BY ONLY <4>1, <4>2
    <3>2. view' \in Seq(Cell) /\ Len(view') = Len(view)
      BY <1>1, <1>4, <3>1, ShorterAddsNothing
    <3>3. ~ViewKnowsTheRows
      BY <1>1, <2>1, <3>1
    <3> QED  BY <1>1, <3>1, <3>2, <3>3
  <2>4. CASE ni > Len(new)
    <3>1. Len(rows) = Len(new) /\ ~(ni <= Len(new))
      BY <1>1, <2>4
    <3>2. view' = view
      BY <1>2, <3>1
    <3>3. \A k \in 1..Len(new) : rows'[k] = rows[k]
      BY <1>1, <1>3, <3>1
    <3> QED  BY <1>1, <2>1, <3>1, <3>2, <3>3
  <2> QED  BY <1>1, <2>2, <2>3, <2>4
<1>6. UpdaterTypeOK'
  <2>1. merging' \in BOOLEAN
    BY Zenon DEF Finish
  <2>2. rows' \in Seq(Row) /\ new' \in Seq(Row)
    BY ONLY <1>1, <1>2, <1>3
  <2>3. ci' \in Nat \ {0} /\ ni' \in Nat \ {0}
    BY ONLY <1>2
  <2> QED  BY ONLY <1>5, <2>1, <2>2, <2>3, Zenon DEF UpdaterTypeOK
<1>7. ViewKnowsTheRows => ViewKnowsTheRows'
  BY <1>3, <1>5 DEF ViewKnowsTheRows
<1>8. MergeInvariant'
  BY DEF MergeInvariant, Finish
<1>9. AsNew'
  <2>1. \A k \in 1..Len(new) : Same(rows'[k], new[k])
    <3> TAKE k \in 1..Len(new)
    <3>1. CASE k <= Len(rows)
      BY <1>1, <1>3, <3>1
    <3>2. CASE ~(k <= Len(rows))
      BY <1>3, <3>2 DEF Same
    <3> QED  BY <3>1, <3>2
  <2> QED  BY <1>2, <1>3, <2>1 DEF AsNew
<1> QED  BY <1>2, <1>3, <1>5, <1>6, <1>7, <1>8, <1>9 DEF Kept, MergeSound

\* All rows go.
LEMMA ClearKeepsInv ==
  ASSUME MergeSound, NEW data, Clear(data)
  PROVE  Kept /\ AsNew'
<1>1. /\ rows \in Seq(Row) /\ view \in Seq(Cell)
      /\ ci \in Nat \ {0} /\ ni \in Nat \ {0}
      /\ Len(rows) \in Nat /\ Len(view) \in Nat /\ Len(rows) <= Len(view)
  BY SoundTypes
<1>2. /\ rows' = <<>> /\ new' = <<>> /\ ci' = ci /\ ni' = ni
      /\ view' = IF rows = <<>> THEN view ELSE Cut(view, 1, Len(rows))
  BY DEF Clear
<1>3. view' \in Seq(Cell) /\ Len(view') = Len(view) - Len(rows)
  <2>1. CASE rows = <<>>
    BY <1>1, <1>2, <2>1
  <2>2. CASE rows # <<>>
    <3>1. Len(rows) # 0
      BY <1>1, <2>2
    <3>2. 1 \in 1..Len(view) /\ Len(rows) \in 1..(Len(view) - 1 + 1)
      BY <1>1, <3>1
    <3>3. /\ Cut(view, 1, Len(rows)) \in Seq(Cell)
          /\ Len(Cut(view, 1, Len(rows))) = Len(view) - Len(rows)
      BY <1>1, <3>2, CutIsSeq
    <3> QED  BY <1>1, <1>2, <2>2, <3>3
  <2> QED  BY <2>1, <2>2
<1>4. UpdaterTypeOK'
  <2>1. merging' \in BOOLEAN
    BY Zenon DEF MergeSound, UpdaterTypeOK, Clear
  <2>2. rows' \in Seq(Row) /\ new' \in Seq(Row)
    BY ONLY <1>2
  <2>3. ci' \in Nat \ {0} /\ ni' \in Nat \ {0}
    BY ONLY <1>1, <1>2
  <2> QED  BY ONLY <1>3, <2>1, <2>2, <2>3, Zenon DEF UpdaterTypeOK
<1>5. Len(rows') = 0 /\ 0 <= Len(view')
  BY <1>1, <1>2, <1>3
<1>6. ViewKnowsTheRows => ViewKnowsTheRows'
  BY <1>1, <1>2, <1>3 DEF ViewKnowsTheRows
<1>7. MergeInvariant'
  BY DEF MergeInvariant, Clear
<1>8. AsNew'
  BY <1>2 DEF AsNew
<1> QED  BY <1>2, <1>4, <1>5, <1>6, <1>7, <1>8 DEF Kept, MergeSound

\* Selecting a cell leaves its row.
LEMMA SelectCell ==
  ASSUME NEW c \in Cell, NEW b \in BOOLEAN
  PROVE  [c EXCEPT !.selected = b] \in Cell /\ [c EXCEPT !.selected = b].row = c.row
BY DEF Cell

\* The user's selection leaves the rows the view knows.
LEMMA SelectKeepsInv ==
  ASSUME MergeSound, NEW S, Select(S)
  PROVE  Kept /\ rows' = rows /\ new' = new
<1>1. /\ rows \in Seq(Row) /\ view \in Seq(Cell) /\ new \in Seq(Row)
      /\ ci \in Nat \ {0} /\ ni \in Nat \ {0}
      /\ Len(rows) \in Nat /\ Len(view) \in Nat /\ Len(rows) <= Len(view)
  BY SoundTypes
<1>2. /\ rows' = rows /\ new' = new /\ ci' = ci /\ ni' = ni /\ merging' = merging
      /\ view' = [k \in 1..Len(view) |-> [view[k] EXCEPT !.selected = k \in S]]
  BY DEF Select
<1>3. \A k \in 1..Len(view) :
        /\ [view[k] EXCEPT !.selected = k \in S] \in Cell
        /\ [view[k] EXCEPT !.selected = k \in S].row = view[k].row
  <2> TAKE k \in 1..Len(view)
  <2>1. view[k] \in Cell
    BY <1>1
  <2>2. (k \in S) \in BOOLEAN
    BY SMT
  <2> DEFINE b == k \in S
  <2>3. b \in BOOLEAN
    BY <2>2, Zenon
  <2> HIDE DEF b
  <2>4. [view[k] EXCEPT !.selected = b] \in Cell /\ [view[k] EXCEPT !.selected = b].row = view[k].row
    BY ONLY <2>1, <2>3, SelectCell, Zenon
  <2> QED  BY <2>4, Zenon DEF b
<1>4. /\ view' \in Seq(Cell) /\ Len(view') = Len(view)
      /\ \A k \in 1..Len(view) : view'[k].row = view[k].row
  <2>1. view' \in [1..Len(view) -> Cell]
    BY <1>2, <1>3
  <2>2. view' \in Seq(Cell) /\ Len(view') = Len(view)
    BY ONLY <1>1, <2>1
  <2>3. \A k \in 1..Len(view) : view'[k] = [view[k] EXCEPT !.selected = k \in S]
    BY ONLY <1>2, Zenon
  <2>4. \A k \in 1..Len(view) : view'[k].row = view[k].row
    BY ONLY <1>3, <2>3, Zenon
  <2> QED  BY ONLY <2>2, <2>4
<1>5. UpdaterTypeOK'
  <2>1. merging' \in BOOLEAN
    BY Zenon DEF MergeSound, UpdaterTypeOK, Select
  <2> QED  BY ONLY <1>1, <1>2, <1>4, <2>1, Zenon DEF UpdaterTypeOK
<1>6. ViewKnowsTheRows => ViewKnowsTheRows'
  BY ONLY <1>1, <1>2, <1>4 DEF ViewKnowsTheRows
<1>7. MergeInvariant'
  BY <1>2 DEF MergeSound, MergeInvariant
<1> QED  BY <1>1, <1>2, <1>4, <1>5, <1>6, <1>7 DEF Kept, MergeSound

\* The beginning of a call.
LEMMA StartKeepsInv ==
  ASSUME MergeSound, NEW data \in Seq(Row), Start(data)
  PROVE  Kept
<1>1. rows' = rows /\ view' = view /\ new' = data /\ ci' = 1 /\ ni' = 1
  BY DEF Start
<1>2. UpdaterTypeOK'
  <2>1. merging' \in BOOLEAN
    BY Zenon DEF Start
  <2> QED  BY <1>1, <2>1 DEF MergeSound, UpdaterTypeOK
<1>3. ViewKnowsTheRows => ViewKnowsTheRows'
  BY <1>1 DEF ViewKnowsTheRows
<1>4. MergeInvariant'
  <2>1. Len(rows) \in Nat /\ Len(data) \in Nat
    BY DEF MergeSound, UpdaterTypeOK
  <2> QED  BY <1>1, <2>1 DEF MergeInvariant
<1> QED  BY <1>1, <1>2, <1>3, <1>4 DEF Kept, MergeSound

\* Every step keeps the invariant, and that the table shows the new rows between calls.
LEMMA NextInv ==
  UpdaterInv /\ MergeIsExact /\ [UpdaterNext]_updaterVars => UpdaterInv' /\ MergeIsExact'
<1> SUFFICES ASSUME UpdaterInv, MergeIsExact, [UpdaterNext]_updaterVars
             PROVE  UpdaterInv' /\ MergeIsExact'
  OBVIOUS
<1> USE DEF UpdaterInv, Kept
<1>1. ASSUME NEW data \in Seq(Row), Clear(data) PROVE UpdaterInv' /\ MergeIsExact'
  BY <1>1, ClearKeepsInv DEF MergeIsExact, AsNew
<1>2. ASSUME NEW data \in Seq(Row), Start(data) PROVE UpdaterInv' /\ MergeIsExact'
  <2>1. merging'
    BY <1>2 DEF Start
  <2> QED  BY <1>2, <2>1, StartKeepsInv DEF MergeIsExact
<1>3. ASSUME NEW n \in 1..Len(rows), Remove(n) PROVE UpdaterInv' /\ MergeIsExact'
  <2>1. /\ merging /\ ci <= Len(rows) /\ n \in 1..(Len(rows) - ci + 1)
        /\ rows' = Cut(rows, ci, n) /\ view' = Cut(view, ci, n)
        /\ UNCHANGED <<new, ci, ni, merging>>
    BY <1>3 DEF Remove, RunLength, Walking
  <2> QED  BY <2>1, CutKeepsInv DEF MergeIsExact
<1>4. CASE Update
  BY <1>4, UpdateKeepsInv DEF MergeIsExact, Update, Walking
<1>5. CASE InsertNew
  BY <1>5, InsertKeepsInv DEF MergeIsExact, InsertNew, Walking
<1>6. CASE RemoveRest
  <2>1. /\ merging /\ ci <= Len(rows)
        /\ rows' = Cut(rows, ci, Len(rows) - ci + 1) /\ view' = Cut(view, ci, Len(rows) - ci + 1)
        /\ UNCHANGED <<new, ci, ni, merging>>
    BY <1>6 DEF RemoveRest
  <2>2. Len(rows) - ci + 1 \in 1..(Len(rows) - ci + 1)
    BY <2>1, SoundTypes
  <2> QED  BY <2>1, <2>2, CutKeepsInv DEF MergeIsExact
<1>7. CASE Finish
  BY <1>7, FinishIsExact DEF MergeIsExact, AsNew
<1>8. ASSUME NEW S \in SUBSET (1..Len(view)), Select(S) PROVE UpdaterInv' /\ MergeIsExact'
  <2>1. merging' = merging
    BY <1>8 DEF Select
  <2> QED  BY <1>8, <2>1, SelectKeepsInv DEF MergeIsExact
<1>9. CASE UNCHANGED updaterVars
  BY <1>9 DEF updaterVars, MergeSound, UpdaterTypeOK, ViewKnowsTheRows, MergeInvariant,
              MergeIsExact
<1> QED
  BY <1>1, <1>2, <1>3, <1>4, <1>5, <1>6, <1>7, <1>8, <1>9 DEF UpdaterNext, MergeStep

-----------------------------------------------------------------------------

\* Through every announcement of every call the view knows exactly the rows that
\* are there, so that each number it asks data() for is the number of a row.
THEOREM ViewAlwaysKnowsTheRows == UpdaterSpec => []ViewKnowsTheRows
<1>1. UpdaterInit => MergeIsExact
  BY DEF UpdaterInit, MergeIsExact
<1>2. UpdaterInv => ViewKnowsTheRows
  BY DEF UpdaterInv
<1> QED  BY InitInv, NextInv, <1>1, <1>2, PTL DEF UpdaterSpec

\* After a call the table shows the new rows, whatever the order of the two lists: a row
\* that the walk takes for a new one is put in again, never lost or kept twice.  What a
\* row holds and does not show may stay as it was.
THEOREM MergeAlwaysExact == UpdaterSpec => []MergeIsExact
<1>1. UpdaterInit => MergeIsExact
  BY DEF UpdaterInit, MergeIsExact
<1> QED  BY InitInv, NextInv, <1>1, PTL DEF UpdaterSpec


-----------------------------------------------------------------------------
(* The selection as a set of rows.                                         *)

SelectedIn(v) == {k \in 1..Len(v) : v[k].selected}

\* The rows that are selected, as the view knows them.
Chosen(v) == {v[k].row : k \in SelectedIn(v)}

KeysOf(R) == {r.key : r \in R}

\* Cutting out rows takes them from the selection.
LEMMA ChosenAfterCut ==
  ASSUME NEW v \in Seq(Cell), NEW i \in 1..Len(v), NEW n \in 1..(Len(v) - i + 1)
  PROVE  Chosen(Cut(v, i, n)) =
           {v[k].row : k \in {j \in SelectedIn(v) : ~(i <= j /\ j < i + n)}}
<1>1. Len(v) \in Nat /\ i \in Nat /\ n \in Nat /\ i + n - 1 <= Len(v)
  OBVIOUS
<1>2. PICK w : w = Cut(v, i, n)
  OBVIOUS
<1>3. /\ Len(w) = Len(v) - n
      /\ \A k \in 1..(Len(v) - n) : w[k] = IF k < i THEN v[k] ELSE v[k + n]
  BY <1>2, CutIsSeq
<1>4. ASSUME NEW k \in SelectedIn(w)
      PROVE  \E j \in SelectedIn(v) : ~(i <= j /\ j < i + n) /\ w[k].row = v[j].row
  <2>1. k \in 1..(Len(v) - n) /\ w[k].selected
    BY <1>3 DEF SelectedIn
  <2>2. CASE k < i
    <3>1. w[k] = v[k] /\ k \in 1..Len(v) /\ ~(i <= k)
      BY <1>1, <1>3, <2>1, <2>2
    <3> QED  BY <2>1, <3>1 DEF SelectedIn
  <2>3. CASE ~(k < i)
    <3>1. w[k] = v[k + n]
      BY ONLY <1>3, <2>1, <2>3
    <3>2. k + n \in 1..Len(v) /\ ~(k + n < i + n)
      BY <1>1, <2>1, <2>3
    <3> QED  BY <2>1, <3>1, <3>2 DEF SelectedIn
  <2> QED  BY <2>2, <2>3
<1>5. ASSUME NEW j \in SelectedIn(v), ~(i <= j /\ j < i + n)
      PROVE  \E k \in SelectedIn(w) : w[k].row = v[j].row
  <2>1. j \in 1..Len(v) /\ v[j].selected
    BY DEF SelectedIn
  <2>2. CASE j < i
    <3>1. j \in 1..(Len(v) - n)
      BY <1>1, <2>1, <2>2
    <3>2. w[j] = v[j] /\ j \in 1..Len(w)
      BY <1>3, <2>2, <3>1
    <3> QED  BY <2>1, <3>2 DEF SelectedIn
  <2>3. CASE j >= i + n
    <3>1. j - n \in 1..(Len(v) - n) /\ ~(j - n < i) /\ (j - n) + n = j
      BY <1>1, <2>1, <2>3
    <3>2. w[j - n] = v[j] /\ j - n \in 1..Len(w)
      BY <1>3, <3>1
    <3> QED  BY <2>1, <3>2 DEF SelectedIn
  <2> QED  BY <1>1, <1>5, <2>1, <2>2, <2>3
<1>6. Chosen(w) = {v[k].row : k \in {j \in SelectedIn(v) : ~(i <= j /\ j < i + n)}}
  BY <1>4, <1>5 DEF Chosen
<1> QED  BY <1>2, <1>6

\* A row that is put in is not selected.
LEMMA ChosenAfterInsert ==
  ASSUME NEW v \in Seq(Cell), NEW i \in 1..(Len(v) + 1), NEW c \in Cell, c.selected = FALSE
  PROVE  Chosen(Insert(v, i, c)) = Chosen(v)
<1>1. Len(v) \in Nat /\ i \in Nat
  OBVIOUS
<1>2. PICK w : w = Insert(v, i, c)
  OBVIOUS
<1>3. /\ Len(w) = Len(v) + 1
      /\ \A k \in 1..(Len(v) + 1) :
           w[k] = IF k < i THEN v[k] ELSE IF k = i THEN c ELSE v[k - 1]
  BY <1>2, InsertIsSeq DEF Inserted
<1>4. ASSUME NEW k \in SelectedIn(w)
      PROVE  \E j \in SelectedIn(v) : w[k].row = v[j].row
  <2>1. k \in 1..(Len(v) + 1) /\ w[k].selected
    BY <1>3 DEF SelectedIn
  <2>2. CASE k < i
    <3>1. w[k] = v[k] /\ k \in 1..Len(v)
      BY <1>1, <1>3, <2>1, <2>2
    <3> QED  BY <2>1, <3>1 DEF SelectedIn
  <2>3. CASE k = i
    <3>1. ~(k < i)
      BY <1>1, <2>3
    <3>2. w[k] = c
      BY ONLY <1>3, <2>1, <2>3, <3>1
    <3> QED  BY <2>1, <3>2
  <2>4. CASE ~(k < i) /\ k # i
    <3>1. w[k] = v[k - 1]
      BY ONLY <1>3, <2>1, <2>4
    <3>2. k - 1 \in 1..Len(v)
      BY <1>1, <2>1, <2>4
    <3> QED  BY <2>1, <3>1, <3>2 DEF SelectedIn
  <2> QED  BY <2>2, <2>3, <2>4
<1>5. ASSUME NEW j \in SelectedIn(v)
      PROVE  \E k \in SelectedIn(w) : w[k].row = v[j].row
  <2>1. j \in 1..Len(v) /\ v[j].selected
    BY DEF SelectedIn
  <2>2. CASE j < i
    <3>1. j \in 1..(Len(v) + 1)
      BY <1>1, <2>1
    <3>2. w[j] = v[j] /\ j \in 1..Len(w)
      BY <1>3, <2>2, <3>1
    <3> QED  BY <2>1, <3>2 DEF SelectedIn
  <2>3. CASE ~(j < i)
    <3>1. j + 1 \in 1..(Len(v) + 1) /\ ~(j + 1 < i) /\ j + 1 # i /\ (j + 1) - 1 = j
      BY <1>1, <2>1, <2>3
    <3>2. w[j + 1] = v[j] /\ j + 1 \in 1..Len(w)
      BY <1>3, <3>1
    <3> QED  BY <2>1, <3>2 DEF SelectedIn
  <2> QED  BY <2>2, <2>3
<1>6. Chosen(w) = Chosen(v)
  BY <1>4, <1>5 DEF Chosen
<1> QED  BY <1>2, <1>6

\* Nor are the rows that are appended.
LEMMA ChosenAfterExtend ==
  ASSUME NEW v \in Seq(Cell), NEW s \in Seq(Row)
  PROVE  Chosen(Extend(v, Cells(s))) = Chosen(v)
<1>1. Len(v) \in Nat /\ Len(s) \in Nat
  OBVIOUS
<1>2. /\ Cells(s) \in Seq(Cell) /\ Len(Cells(s)) = Len(s)
      /\ \A k \in 1..Len(s) : Cells(s)[k] = [row |-> s[k], selected |-> FALSE]
  BY CellsIsSeq
<1>3. CASE Len(s) < Len(v)
  BY <1>2, <1>3, ShorterAddsNothing
<1>4. CASE Len(v) <= Len(s)
  <2>1. PICK w : w = Extend(v, Cells(s))
    OBVIOUS
  <2>2. /\ Len(w) = Len(s)
        /\ \A k \in 1..Len(s) : w[k] = IF k <= Len(v) THEN v[k] ELSE Cells(s)[k]
    BY <1>2, <1>4, <2>1, ExtendIsSeq
  <2>3. \A k \in SelectedIn(w) : k \in SelectedIn(v) /\ w[k] = v[k]
    <3> TAKE k \in SelectedIn(w)
    <3>1. k \in 1..Len(s) /\ w[k].selected
      BY <2>2 DEF SelectedIn
    <3>2. CASE k <= Len(v)
      <4>1. k \in 1..Len(v) /\ w[k] = v[k]
        BY <1>1, <2>2, <3>1, <3>2
      <4> QED  BY <3>1, <4>1 DEF SelectedIn
    <3>3. CASE ~(k <= Len(v))
      <4>1. w[k] = Cells(s)[k]
        BY ONLY <2>2, <3>1, <3>3
      <4>2. Cells(s)[k] = [row |-> s[k], selected |-> FALSE]
        BY <1>2, <3>1
      <4> QED  BY <3>1, <4>1, <4>2
    <3> QED  BY <3>2, <3>3
  <2>4. \A k \in SelectedIn(v) : k \in SelectedIn(w) /\ w[k] = v[k]
    <3> TAKE k \in SelectedIn(v)
    <3>1. k \in 1..Len(v) /\ v[k].selected
      BY DEF SelectedIn
    <3>2. k \in 1..Len(s) /\ k <= Len(v)
      BY <1>1, <1>4, <3>1
    <3>3. w[k] = v[k] /\ k \in 1..Len(w)
      BY <2>2, <3>2
    <3> QED  BY <3>1, <3>3 DEF SelectedIn
  <2>5. Chosen(w) = Chosen(v)
    BY <2>3, <2>4 DEF Chosen
  <2> QED  BY <2>1, <2>5
<1> QED  BY <1>1, <1>3, <1>4

\* A row that is written keeps its selection: the selected rows are the same but for
\* the one that is now r.
LEMMA ChosenAfterWrite ==
  ASSUME NEW v \in Seq(Cell), NEW i \in 1..Len(v), NEW r \in Row
  PROVE  /\ SelectedIn([v EXCEPT ![i].row = r]) = SelectedIn(v)
         /\ \A k \in SelectedIn(v) :
              [v EXCEPT ![i].row = r][k].row = IF k = i THEN r ELSE v[k].row
<1>1. v[i] \in Cell
  OBVIOUS
<1> DEFINE c == [v[i] EXCEPT !.row = r]
<1>2. c.row = r /\ c.selected = v[i].selected
  BY <1>1 DEF Cell
<1>3. PICK w : w = [v EXCEPT ![i].row = r]
  OBVIOUS
<1>4. w = [v EXCEPT ![i] = c]
  BY <1>3
<1> HIDE DEF c
<1>5. Len(w) = Len(v) /\ \A k \in 1..Len(v) : w[k] = IF k = i THEN c ELSE v[k]
  BY <1>4
<1>6. SelectedIn(w) = SelectedIn(v)
  BY <1>2, <1>5 DEF SelectedIn
<1>7. \A k \in SelectedIn(v) : w[k].row = IF k = i THEN r ELSE v[k].row
  BY <1>2, <1>5 DEF SelectedIn
<1> QED  BY <1>3, <1>6, <1>7

-----------------------------------------------------------------------------
(* The inductive invariant.                                                *)

ListTab == tab \in {"tasks", "projects"}

OfHost(s, h) == \A k \in 1..Len(s) : s[k].hidden.host = h

Updated(data) == [signal |-> "updated", data |-> data]

TabTypes ==
  /\ tab \in Tabs
  /\ {selected, host} \subseteq Hosts \cup {NoHost}
  /\ panel \subseteq Item
  /\ hasRows \in BOOLEAN
  /\ question \subseteq Item
  /\ picked \subseteq Keys
  /\ \A c \in sent : c.item \in Item
  /\ updates \in 0..MaxUpdates

\* The view is told of every change, but in the events tab, where nothing is selected.
ViewInv ==
  IF tab = "events" THEN panel = {} /\ question = {} /\ picked = {} /\ Chosen(view) = {}
  ELSE ViewKnowsTheRows

\* What the model handler has on its way to the tab: nothing, the selection of a host, a
\* list of the selected host or the empty one after it was unselected, or both signals of
\* unselecting it.
Settled == todo = <<>> /\ ~merging /\ host = selected /\ (host = NoHost => rows = <<>>)

Selecting ==
  /\ todo = << [signal |-> "host_selected", data |-> <<>>] >>
  /\ ~merging /\ host = NoHost /\ rows = <<>>

Updating ==
  \E data \in Seq(Row) :
    /\ todo = <<Updated(data)>>
    /\ host = selected
    /\ tab # "events" => OfHost(data, host)
    /\ ListTab => Sorted(data)
    /\ host = NoHost => data = <<>> /\ ~merging /\ (tab # "transfers" => rows = <<>>)

Unselecting ==
  /\ todo = << [signal |-> "host_unselected", data |-> <<>>], Updated(<<>>) >>
  /\ ~merging /\ selected = NoHost

HandlerInv == Settled \/ Selecting \/ Updating \/ Unselecting

\* Rows are those of the tab's host, and the lists that are sorted stay so during the
\* merge: what is removed for a new row is not among the new ones.
RowsInv ==
  tab # "events" =>
    /\ host # NoHost => OfHost(rows, host)
    /\ merging => host # NoHost /\ OfHost(new, host)
    /\ ListTab => Sorted(rows) /\ (merging => Sorted(new))

\* The keys that are selected and stay in the list, if it is being merged.
Remaining == KeysOf(Chosen(view)) \cap (IF merging THEN Keyed(new) ELSE Keys)

SelectionInv ==
  /\ tab = "transfers" => Remaining \subseteq picked
  /\ ListTab => Remaining = picked

PanelInv ==
  /\ tab = "transfers" => IF host = NoHost THEN panel = {}
                          ELSE /\ KeysOf(panel) = KeysOf(Chosen(view))
                               /\ \A i \in panel : i.host = host
  /\ ListTab /\ Idle => panel = ItemsOf(SelectedRows, rows, host)

\* The user was asked about row r.
Asked(r) == \E i \in question : i.key = r.key /\ i.host = r.hidden.host

\* While a question is open the selection only shrinks.
QuestionInv == question # {} => \A r \in Chosen(view) : Asked(r)

IInv ==
  /\ TabTypes /\ MergeSound /\ MergeIsExact
  /\ ViewInv /\ HandlerInv /\ RowsInv /\ SelectionInv /\ PanelInv /\ QuestionInv

-----------------------------------------------------------------------------
(* What the panel keeps of rows.                                           *)

\* What a row is made of.
LEMMA RowParts ==
  ASSUME NEW r \in Row
  PROVE  /\ r.key \in Keys /\ r.key \in Int
         /\ r.hidden.host \in Hosts
         /\ r.value.suspended \in BOOLEAN
<1>1. r.key \in Keys /\ r.value \in Values /\ r.hidden \in Hidden
  BY DEF Row
<1>2. r.value \in [suspended : BOOLEAN] /\ r.hidden \in [host : Hosts, cpu : Nat]
  BY <1>1, TabsAssumption
<1>3. r.value.suspended \in BOOLEAN
  BY <1>2, Zenon
<1> QED  BY <1>1, <1>2, <1>3, KeysAssumption

\* Whatever the tab, the panel keeps the keys of the rows.
LEMMA ItemsKeys ==
  ASSUME NEW R, NEW data, NEW h
  PROVE  KeysOf(ItemsOf(R, data, h)) = {data[k].key : k \in R}
<1>1. KeysOf(TaskItems(R, data)) = {data[k].key : k \in R}
  <2>1. \A i \in TaskItems(R, data) : \E k \in R : i.key = data[k].key
    BY DEF TaskItems
  <2>2. ASSUME NEW k \in R PROVE \E i \in TaskItems(R, data) : i.key = data[k].key
    <3>1. PICK i : i = [key |-> data[k].key, host |-> data[k].hidden.host, suspended |-> data[k].value.suspended]
      OBVIOUS
    <3> QED  BY <3>1 DEF TaskItems
  <2> QED  BY <2>1, <2>2 DEF KeysOf
<1>2. KeysOf(ProjectItems(R, data, h)) = {data[k].key : k \in R}
  <2>1. \A i \in ProjectItems(R, data, h) : \E k \in R : i.key = data[k].key
    BY DEF ProjectItems
  <2>2. ASSUME NEW k \in R PROVE \E i \in ProjectItems(R, data, h) : i.key = data[k].key
    <3>1. PICK i : i = [key |-> data[k].key, host |-> h, suspended |-> data[k].value.suspended]
      OBVIOUS
    <3> QED  BY <3>1 DEF ProjectItems
  <2> QED  BY <2>1, <2>2 DEF KeysOf
<1>3. KeysOf(TransferItems(R, data)) = {data[k].key : k \in R}
  <2>1. \A i \in TransferItems(R, data) : \E k \in R : i.key = data[k].key
    BY DEF TransferItems
  <2>2. ASSUME NEW k \in R PROVE \E i \in TransferItems(R, data) : i.key = data[k].key
    <3>1. PICK i : i = [key |-> data[k].key, host |-> host, suspended |-> FALSE]
      OBVIOUS
    <3> QED  BY <3>1 DEF TransferItems
  <2> QED  BY <2>1, <2>2 DEF KeysOf
<1>4. \/ ItemsOf(R, data, h) = TaskItems(R, data)
      \/ ItemsOf(R, data, h) = ProjectItems(R, data, h)
      \/ ItemsOf(R, data, h) = TransferItems(R, data)
  BY DEF ItemsOf
<1> QED  BY <1>1, <1>2, <1>3, <1>4

\* And their host, which is its own.
LEMMA ItemsHosts ==
  ASSUME NEW R, NEW data, OfHost(data, host), R \subseteq 1..Len(data)
  PROVE  \A i \in ItemsOf(R, data, host) : i.host = host
<1>1. \A i \in TaskItems(R, data) : i.host = host
  BY DEF TaskItems, OfHost
<1>2. \A i \in ProjectItems(R, data, host) : i.host = host
  BY DEF ProjectItems
<1>3. \A i \in TransferItems(R, data) : i.host = host
  BY DEF TransferItems
<1>4. \/ ItemsOf(R, data, host) = TaskItems(R, data)
      \/ ItemsOf(R, data, host) = ProjectItems(R, data, host)
      \/ ItemsOf(R, data, host) = TransferItems(R, data)
  BY DEF ItemsOf
<1> QED  BY <1>1, <1>2, <1>3, <1>4

LEMMA ItemsAreItems ==
  ASSUME NEW data \in Seq(Row), NEW R \in SUBSET (1..Len(data)), NEW h \in Hosts \cup {NoHost},
         host \in Hosts \cup {NoHost}
  PROVE  ItemsOf(R, data, h) \subseteq Item
<1>1. \A k \in R : /\ data[k].key \in Keys
                   /\ data[k].hidden.host \in Hosts
                   /\ data[k].value.suspended \in BOOLEAN
  <2> TAKE k \in R
  <2>1. data[k] \in Row
    OBVIOUS
  <2> QED  BY <2>1, RowParts, Zenon
<1>2. TaskItems(R, data) \subseteq Item
  <2>1. \A k \in R : [key |-> data[k].key, host |-> data[k].hidden.host, suspended |-> data[k].value.suspended] \in Item
    BY <1>1, Zenon DEF Item
  <2> QED  BY <2>1, Zenon DEF TaskItems
<1>3. ProjectItems(R, data, h) \subseteq Item
  <2>1. \A k \in R : [key |-> data[k].key, host |-> h, suspended |-> data[k].value.suspended] \in Item
    BY <1>1, Zenon DEF Item
  <2> QED  BY <2>1, Zenon DEF ProjectItems
<1>4. TransferItems(R, data) \subseteq Item
  <2>1. \A k \in R : [key |-> data[k].key, host |-> host, suspended |-> FALSE] \in Item
    BY <1>1, Zenon DEF Item
  <2> QED  BY <2>1, Zenon DEF TransferItems
<1>5. \/ ItemsOf(R, data, h) = TaskItems(R, data)
      \/ ItemsOf(R, data, h) = ProjectItems(R, data, h)
      \/ ItemsOf(R, data, h) = TransferItems(R, data)
  BY DEF ItemsOf
<1> QED  BY <1>2, <1>3, <1>4, <1>5

\* The rows that are selected are the rows of the list with these numbers.
LEMMA ChosenAreRows ==
  ASSUME ViewKnowsTheRows, NEW R \in SUBSET (1..Len(view))
  PROVE  {view[k].row : k \in R} = {rows[k] : k \in R}
BY DEF ViewKnowsTheRows

-----------------------------------------------------------------------------
(* Lemmas about the invariant.                                             *)

LEMMA TabIsOne == TabTypes => tab \in TabKinds
BY TabsAssumption DEF TabTypes

\* With a view that knows the rows, the selected rows are rows of the list.
LEMMA ChosenOfKnown ==
  ASSUME ViewKnowsTheRows, rows \in Seq(Row)
  PROVE  /\ SelectedRows = SelectedIn(view)
         /\ SelectedRows \in SUBSET (1..Len(rows))
         /\ Chosen(view) = {rows[k] : k \in SelectedRows}
         /\ Chosen(view) \subseteq Row
         /\ KeysOf(Chosen(view)) = {rows[k].key : k \in SelectedRows}
         /\ KeysOf(Chosen(view)) \subseteq Keys
<1>1. SelectedRows = SelectedIn(view) /\ SelectedRows \in SUBSET (1..Len(rows))
  BY DEF SelectedRows, SelectedIn, ViewKnowsTheRows
<1>2. \A k \in SelectedRows : view[k].row = rows[k] /\ rows[k] \in Row
  BY <1>1 DEF ViewKnowsTheRows
<1>3. Chosen(view) = {rows[k] : k \in SelectedRows} /\ Chosen(view) \subseteq Row
  BY <1>1, <1>2 DEF Chosen
<1>4. KeysOf(Chosen(view)) = {rows[k].key : k \in SelectedRows}
  BY <1>3 DEF KeysOf
<1>5. KeysOf(Chosen(view)) \subseteq Keys
  BY <1>3, RowParts DEF KeysOf
<1> QED  BY <1>1, <1>3, <1>4, <1>5

\* Where the model handler is, by what the tab looks at.
LEMMA HandlerPlace ==
  ASSUME HandlerInv
  PROVE  /\ Idle => Settled
         /\ merging => Updating
         /\ todo # <<>> => \/ Selecting /\ Head(todo).signal = "host_selected"
                           \/ Updating /\ Head(todo).signal = "updated"
                           \/ Unselecting /\ Head(todo).signal = "host_unselected"
<1>1. CASE Settled
  BY <1>1 DEF Settled
<1>2. CASE Selecting
  <2>1. todo # <<>> /\ Head(todo).signal = "host_selected" /\ ~merging
    BY <1>2 DEF Selecting
  <2> QED  BY <1>2, <2>1 DEF Idle
<1>3. CASE Updating
  <2>1. PICK data \in Seq(Row) : todo = <<Updated(data)>>
    BY <1>3 DEF Updating
  <2>2. todo # <<>> /\ Head(todo).signal = "updated"
    BY <2>1 DEF Updated
  <2> QED  BY <1>3, <2>2 DEF Idle
<1>4. CASE Unselecting
  <2>1. todo # <<>> /\ Head(todo).signal = "host_unselected" /\ ~merging
    BY <1>4 DEF Unselecting
  <2> QED  BY <1>4, <2>1 DEF Idle
<1> QED  BY <1>1, <1>2, <1>3, <1>4 DEF HandlerInv

\* What does not depend on the model handler stays if the rows, the host and what the
\* user selected do.
LEMMA ListSame ==
  ASSUME IInv, UNCHANGED <<updaterVars, tab, host, picked>>
  PROVE  MergeSound' /\ MergeIsExact' /\ RowsInv' /\ SelectionInv'
<1>1. MergeSound' /\ MergeIsExact'
  BY DEF IInv, updaterVars, MergeSound, UpdaterTypeOK, MergeInvariant, MergeIsExact
<1>2. RowsInv'
  BY DEF IInv, updaterVars, RowsInv, ListTab
<1>3. SelectionInv'
  <2>1. Remaining' = Remaining
    BY DEF updaterVars, Remaining
  <2> QED  BY <2>1 DEF IInv, SelectionInv, ListTab
<1> QED  BY <1>1, <1>2, <1>3

LEMMA ViewSame ==
  ASSUME IInv, UNCHANGED <<updaterVars, tab, picked, panel, question>>
  PROVE  ViewInv' /\ QuestionInv'
<1>1. Chosen(view)' = Chosen(view) /\ ViewKnowsTheRows' = ViewKnowsTheRows
  BY DEF updaterVars, ViewKnowsTheRows
<1>2. ViewInv'
  BY <1>1 DEF IInv, ViewInv
<1>3. QuestionInv'
  BY <1>1 DEF IInv, QuestionInv, Asked
<1> QED  BY <1>2, <1>3

LEMMA PanelSame ==
  ASSUME IInv, UNCHANGED <<updaterVars, tab, host, panel>>, Idle' => Idle
  PROVE  PanelInv'
<1>1. UNCHANGED <<ItemsOf(SelectedRows, rows, host), Chosen(view)>>
  BY DEF updaterVars, ItemsOf, TaskItems, ProjectItems, TransferItems, SelectedRows
<1> QED  BY <1>1 DEF IInv, PanelInv, ListTab

-----------------------------------------------------------------------------
(* The beginning, and the steps of the model handler.                      *)

LEMMA TabInitInv == Init => IInv
<1> SUFFICES ASSUME Init PROVE IInv
  OBVIOUS
<1>1. UpdaterInv /\ ~merging /\ rows = <<>> /\ view = <<>> /\ new = <<>>
  BY InitInv DEF Init, UpdaterInit
<1>2. MergeSound /\ MergeIsExact
  BY <1>1 DEF UpdaterInv, MergeIsExact
<1>3. SelectedIn(view) = {} /\ SelectedRows = {}
  BY <1>1 DEF SelectedIn, SelectedRows
<1>4. Chosen(view) = {} /\ KeysOf(Chosen(view)) = {}
  BY <1>3 DEF Chosen, KeysOf
<1>5. TabTypes
  <2>1. hasRows \in BOOLEAN
    BY Zenon DEF Init
  <2>2. updates \in 0..MaxUpdates
    BY TabsAssumption DEF Init
  <2> QED  BY <2>1, <2>2 DEF Init, TabTypes
<1>6. ViewInv
  BY <1>1, <1>4 DEF Init, ViewInv, UpdaterInv
<1>7. HandlerInv
  BY <1>1 DEF Init, HandlerInv, Settled
<1>8. RowsInv
  BY <1>1 DEF Init, RowsInv, Sorted
<1>9. SelectionInv
  BY <1>4 DEF Init, SelectionInv, Remaining
<1>10. PanelInv
  <2>1. ItemsOf({}, rows, host) = {}
    BY DEF ItemsOf, TaskItems, ProjectItems, TransferItems
  <2> QED  BY <1>3, <1>4, <2>1 DEF Init, PanelInv
<1>11. QuestionInv
  BY DEF Init, QuestionInv
<1> QED  BY <1>2, <1>5, <1>6, <1>7, <1>8, <1>9, <1>10, <1>11 DEF IInv

\* The model handler sends lists of rows of the host, sorted but for the transfers.
LEMMA ListsAreRows ==
  ASSUME NEW h, NEW data \in Lists(h)
  PROVE  data \in Seq(Row) /\ OfHost(data, h) /\ (tab # "transfers" => Sorted(data))
<1>1. PICK n \in 0..MaxRows : data \in [1..n -> {r \in Row : r.hidden.host = h}]
  <2> DEFINE Of(hosts) == {r \in Row : r.hidden.host = hosts}
             Sharing(d) == {r \in Row : /\ r.hidden = d
                                        /\ tab \in {"transfers", "events"} => ~r.value.suspended}
  <2>1. PICK n \in 0..MaxRows, d \in Hidden : d.host = h /\ data \in [1..n -> Sharing(d)]
    BY DEF Lists, RowsOf
  <2>2. \A r \in Sharing(d) : r \in Row /\ r.hidden = d
    BY Zenon
  <2>3. \A r \in Sharing(d) : r \in Of(h)
    BY ONLY <2>1, <2>2
  <2> HIDE DEF Of, Sharing
  <2>4. data \in [1..n -> Of(h)]
    BY <2>1, <2>3
  <2> QED  BY <2>4 DEF Of
<1>2. n \in Nat
  BY <1>1, TabsAssumption
<1>3. data \in Seq(Row) /\ Len(data) = n
  BY <1>1, <1>2
<1>4. OfHost(data, h)
  BY <1>1, <1>3 DEF OfHost
<1>5. tab # "transfers" => Sorted(data)
  BY DEF Lists
<1> QED  BY <1>3, <1>4, <1>5

LEMMA HandlerStepInv ==
  ASSUME IInv, UnselectHost \/ SendRows \/ \E h \in Hosts : SelectHost(h)
  PROVE  IInv'
<1>1. /\ Idle /\ UNCHANGED <<updaterVars, tab, host, panel, hasRows, question, sent, picked>>
  BY DEF UnselectHost, SendRows, SelectHost
<1>2. MergeSound' /\ MergeIsExact' /\ RowsInv' /\ SelectionInv' /\ ViewInv' /\ QuestionInv'
  BY <1>1, ListSame, ViewSame
<1>3. PanelInv'
  BY <1>1, PanelSame
<1>4. Settled /\ UNCHANGED <<merging, rows>>
  BY <1>1, HandlerPlace DEF IInv, updaterVars
<1>5. CASE UnselectHost
  <2>1. HandlerInv'
    BY <1>4, <1>5 DEF UnselectHost, HandlerInv, Unselecting, Updated, Settled
  <2>2. TabTypes'
    BY <1>1, <1>5 DEF UnselectHost, IInv, TabTypes
  <2> QED  BY <1>2, <1>3, <2>1, <2>2 DEF IInv
<1>6. CASE SendRows
  <2>1. PICK data \in Lists(selected) : todo' = <<Updated(data)>>
    BY <1>6 DEF SendRows, Updated
  <2>2. data \in Seq(Row) /\ OfHost(data, selected) /\ (ListTab => Sorted(data))
    BY <2>1, ListsAreRows DEF ListTab
  <2>3. host' = selected' /\ selected' = selected /\ host' # NoHost
    BY <1>1, <1>4, <1>6 DEF SendRows, Settled
  <2>4. HandlerInv'
    <3>1. (ListTab => Sorted(data))'
      BY <1>1, <2>2 DEF ListTab
    <3> QED  BY <2>1, <2>2, <2>3, <3>1 DEF HandlerInv, Updating
  <2>5. TabTypes'
    BY <1>1, <1>6, TabsAssumption DEF SendRows, IInv, TabTypes
  <2> QED  BY <1>2, <1>3, <2>4, <2>5 DEF IInv
<1>7. ASSUME NEW h \in Hosts, SelectHost(h) PROVE IInv'
  <2>1. HandlerInv'
    BY <1>1, <1>4, <1>7 DEF SelectHost, HandlerInv, Selecting, Settled
  <2>2. TabTypes'
    BY <1>1, <1>7 DEF SelectHost, IInv, TabTypes
  <2> QED  BY <1>2, <1>3, <2>1, <2>2 DEF IInv
<1> QED  BY <1>5, <1>6, <1>7

-----------------------------------------------------------------------------
(* The slots of the tab: another host.                                     *)

\* Nothing is left of the selection when all rows have gone.
LEMMA ClearedView ==
  ASSUME MergeSound, ViewKnowsTheRows, NEW data, Clear(data)
  PROVE  /\ rows' = <<>> /\ view' = <<>> /\ new' = <<>> /\ merging' = FALSE
         /\ SelectedRows' = {} /\ Chosen(view)' = {} /\ KeysOf(Chosen(view))' = {}
<1>1. /\ rows' = <<>> /\ new' = <<>> /\ merging' = merging /\ ~merging
  BY DEF Clear
<1>2. merging' = FALSE
  BY <1>1, Zenon DEF MergeSound, UpdaterTypeOK
<1>3. ViewKnowsTheRows' /\ MergeSound'
  BY ClearKeepsInv DEF Kept
<1>4. view' = <<>>
  BY <1>1, <1>3 DEF ViewKnowsTheRows, MergeSound, UpdaterTypeOK
<1>5. SelectedRows' = {} /\ SelectedIn(view') = {}
  BY <1>4 DEF SelectedRows, SelectedIn
<1>6. Chosen(view)' = {} /\ KeysOf(Chosen(view))' = {}
  BY <1>5 DEF Chosen, KeysOf
<1> QED  BY <1>1, <1>2, <1>4, <1>5, <1>6

LEMMA NothingSelected == ItemsOf({}, rows, host) = {}
BY DEF ItemsOf, TaskItems, ProjectItems, TransferItems

\* From where the host changes, and to where.
LEMMA HostChangedPlaces ==
  ASSUME IInv, NEW s \in {"host_selected", "host_unselected"}, HostChanged(s)
  PROVE  \/ Selecting /\ todo' = <<>> /\ host' = selected
         \/ Unselecting /\ todo' = <<Updated(<<>>)>> /\ host' = NoHost
<1>1. /\ todo # <<>> /\ Head(todo).signal = s /\ todo' = Tail(todo)
      /\ host' = IF s = "host_selected" THEN selected ELSE NoHost
  BY DEF HostChanged
<1>2. CASE Selecting /\ Head(todo).signal = "host_selected"
  <2>1. Tail(todo) = <<>>
    BY <1>2 DEF Selecting
  <2> QED  BY <1>1, <1>2, <2>1
<1>3. CASE Unselecting /\ Head(todo).signal = "host_unselected"
  <2>1. Tail(todo) = <<Updated(<<>>)>>
    BY <1>3 DEF Unselecting
  <2> QED  BY <1>1, <1>3, <2>1
<1>4. HandlerInv
  BY DEF IInv
<1> QED  BY <1>1, <1>2, <1>3, <1>4, HandlerPlace

\* The model handler then is where it should be, if the rows are gone or a transfers
\* tab waits for the empty list.
LEMMA HostChangedHandler ==
  ASSUME IInv, NEW s \in {"host_selected", "host_unselected"}, HostChanged(s),
         rows' = <<>> \/ (tab = "transfers" /\ rows' = rows), ~merging'
  PROVE  HandlerInv'
<1>1. /\ UNCHANGED <<tab, selected>>
      /\ \/ Selecting /\ todo' = <<>> /\ host' = selected
         \/ Unselecting /\ todo' = <<Updated(<<>>)>> /\ host' = NoHost
  BY HostChangedPlaces DEF HostChanged
<1>2. CASE Selecting /\ todo' = <<>> /\ host' = selected
  BY <1>1, <1>2 DEF HandlerInv, Settled, Selecting
<1>3. CASE Unselecting /\ todo' = <<Updated(<<>>)>> /\ host' = NoHost
  <2>1. selected' = NoHost
    BY <1>1, <1>3 DEF Unselecting
  <2>2. <<>> \in Seq(Row) /\ OfHost(<<>>, host') /\ Sorted(<<>>)
    BY DEF OfHost, Sorted
  <2>3. tab' # "transfers" => rows' = <<>>
    BY <1>1
  <2>4. Updating'
    <3> DEFINE D == <<>>
    <3>1. /\ D \in Seq(Row)
          /\ todo' = <<Updated(D)>> /\ host' = selected'
          /\ OfHost(D, host') /\ Sorted(D) /\ D = <<>>
      BY <1>3, <2>1, <2>2
    <3> HIDE DEF D
    <3> QED  BY <2>3, <3>1 DEF Updating, Updated
  <2> QED  BY <2>4 DEF HandlerInv
<1> QED  BY <1>1, <1>2, <1>3

LEMMA HostChangedInv ==
  ASSUME IInv, NEW s \in {"host_selected", "host_unselected"}, HostChanged(s)
  PROVE  IInv'
<1>1. /\ ~merging /\ UNCHANGED <<tab, selected, question, sent, updates>>
      /\ \/ Selecting /\ todo' = <<>> /\ host' = selected
         \/ Unselecting /\ todo' = <<Updated(<<>>)>> /\ host' = NoHost
  BY HostChangedPlaces DEF HostChanged
<1>2. MergeSound /\ tab \in TabKinds /\ rows \in Seq(Row)
  BY TabIsOne, SoundTypes DEF IInv
<1>3. CASE ListTab
  <2>1. ListChangesHost
    BY <1>3 DEF HostChanged, ListTab
  <2>2. Clear(<<>>) /\ panel' = {} /\ picked' = {} /\ hasRows' = hasRows
    BY <2>1 DEF ListChangesHost
  <2>3. ViewKnowsTheRows /\ tab # "events" /\ tab # "transfers"
    BY <1>3 DEF IInv, ViewInv, ListTab
  <2>4. /\ rows' = <<>> /\ ~merging'
        /\ SelectedRows' = {} /\ Chosen(view)' = {} /\ KeysOf(Chosen(view))' = {}
    BY <1>2, <2>2, <2>3, ClearedView
  <2>5. MergeSound' /\ MergeIsExact' /\ ViewKnowsTheRows'
    BY <1>2, <2>2, <2>3, ClearKeepsInv DEF Kept, MergeIsExact, AsNew
  <2>6. TabTypes'
    BY <1>1, <2>2 DEF IInv, TabTypes
  <2>7. ViewInv'
    BY <1>1, <2>3, <2>5 DEF ViewInv
  <2>8. RowsInv'
    BY <2>4 DEF RowsInv, OfHost, Sorted
  <2>9. SelectionInv'
    BY <1>1, <2>2, <2>3, <2>4 DEF SelectionInv, Remaining
  <2>10. PanelInv'
    <3>1. ItemsOf({}, rows, host)' = {}
      BY DEF ItemsOf, TaskItems, ProjectItems, TransferItems
    <3> QED  BY <1>1, <2>2, <2>3, <2>4, <3>1 DEF PanelInv
  <2>11. QuestionInv'
    BY <2>4 DEF QuestionInv
  <2>12. HandlerInv'
    BY <2>4, HostChangedHandler
  <2> QED  BY <2>5, <2>6, <2>7, <2>8, <2>9, <2>10, <2>11, <2>12 DEF IInv
<1>4. CASE tab = "transfers"
  <2>1. TransfersChangeHost
    BY <1>4 DEF HostChanged
  <2>2. UNCHANGED <<updaterVars, picked>> /\ panel' = {} /\ hasRows' = FALSE
    BY <2>1 DEF TransfersChangeHost
  <2>3. /\ UNCHANGED <<rows, view, new, merging>>
        /\ Chosen(view)' = Chosen(view) /\ Remaining' = Remaining
        /\ (ViewKnowsTheRows' <=> ViewKnowsTheRows)
    BY <2>2 DEF updaterVars, Remaining, ViewKnowsTheRows
  <2>4. ViewKnowsTheRows
    BY <1>4 DEF IInv, ViewInv
  <2>5. MergeSound' /\ MergeIsExact'
    BY <2>2 DEF IInv, updaterVars, MergeSound, UpdaterTypeOK, MergeInvariant, MergeIsExact
  <2>6. TabTypes'
    <3>1. hasRows' \in BOOLEAN
      BY <2>2, Zenon
    <3> QED  BY <1>1, <2>2, <3>1 DEF IInv, TabTypes
  <2>7. ViewInv' /\ SelectionInv'
    BY <1>1, <1>4, <2>2, <2>3, <2>4 DEF IInv, ViewInv, SelectionInv, ListTab
  <2>8. QuestionInv'
    BY <1>1, <2>3 DEF IInv, QuestionInv, Asked
  <2>9. host' # NoHost => rows' = <<>>
    BY <1>1, <2>3 DEF Selecting
  <2>10. RowsInv'
    BY <1>1, <1>4, <2>3, <2>9 DEF RowsInv, OfHost, ListTab
  <2>11. PanelInv'
    <3>1. host' # NoHost => Chosen(view) = {}
      <4>1. host' # NoHost => rows = <<>>
        BY <2>3, <2>9
      <4>2. rows = <<>> => SelectedRows = {}
        BY <2>4 DEF SelectedRows, ViewKnowsTheRows
      <4>3. SelectedRows = {} => Chosen(view) = {}
        BY <1>2, <2>4, ChosenOfKnown
      <4> QED  BY <4>1, <4>2, <4>3
    <3> QED  BY <1>1, <1>4, <2>2, <2>3, <3>1 DEF PanelInv, ListTab, KeysOf
  <2>12. HandlerInv'
    BY <1>1, <1>4, <2>3, HostChangedHandler
  <2> QED  BY <2>5, <2>6, <2>7, <2>8, <2>10, <2>11, <2>12 DEF IInv
<1>5. CASE tab = "events"
  <2>1. EventsChangeHost
    BY <1>5 DEF HostChanged
  <2>2. /\ rows' = <<>> /\ new' = <<>>
        /\ UNCHANGED <<ci, ni, merging, view, panel, hasRows, picked>>
    BY <2>1 DEF EventsChangeHost
  <2>3. Chosen(view)' = Chosen(view) /\ ~ListTab'
    BY <1>1, <1>5, <2>2 DEF ListTab
  <2>4. MergeSound' /\ MergeIsExact'
    <3>1. /\ new' \in Seq(Row) /\ rows' \in Seq(Row) /\ Len(rows') = 0
      BY <2>2
    <3>2. merging' \in BOOLEAN
      BY <1>2, <2>2, Zenon DEF MergeSound, UpdaterTypeOK
    <3> QED  BY <1>1, <1>2, <2>2, <3>1, <3>2, SoundTypes
             DEF MergeSound, UpdaterTypeOK, MergeInvariant, MergeIsExact
  <2>5. TabTypes'
    BY <1>1, <2>2 DEF IInv, TabTypes
  <2>6. ViewInv' /\ RowsInv' /\ SelectionInv' /\ PanelInv' /\ QuestionInv'
    BY <1>1, <1>5, <2>2, <2>3
       DEF IInv, ViewInv, RowsInv, SelectionInv, PanelInv, QuestionInv
  <2>7. HandlerInv'
    BY <1>1, <2>2, HostChangedHandler
  <2> QED  BY <2>4, <2>5, <2>6, <2>7 DEF IInv
<1> QED  BY <1>2, <1>3, <1>4, <1>5 DEF ListTab, TabKinds

-----------------------------------------------------------------------------
(* The user.                                                               *)

\* Selecting rows makes them the chosen ones.
LEMMA ChosenAfterSelect ==
  ASSUME MergeSound, ViewKnowsTheRows, NEW S \in SUBSET (1..Len(rows)), Select(S)
  PROVE  SelectedRows' = S /\ Chosen(view)' = {rows[k] : k \in S}
<1>1. /\ Len(view) = Len(rows) /\ Len(rows) \in Nat
      /\ \A k \in 1..Len(rows) : view[k].row = rows[k] /\ view[k] \in Cell
  BY SoundTypes DEF ViewKnowsTheRows
<1>2. view' = [k \in 1..Len(view) |-> [view[k] EXCEPT !.selected = k \in S]]
  BY DEF Select
<1>3. Len(view') = Len(view)
  BY <1>1, <1>2
<1>4. \A k \in 1..Len(view) : view'[k].row = rows[k] /\ (view'[k].selected <=> k \in S)
  <2> TAKE k \in 1..Len(view)
  <2>1. view'[k] = [view[k] EXCEPT !.selected = k \in S]
    BY ONLY <1>2, Zenon
  <2>2. view[k] \in [row : Row, selected : BOOLEAN] /\ view[k].row = rows[k]
    BY <1>1 DEF Cell
  <2> QED  BY ONLY <2>1, <2>2
<1>5. SelectedRows' = S /\ SelectedIn(view') = S
  BY <1>1, <1>3, <1>4 DEF SelectedRows, SelectedIn
<1> QED  BY <1>1, <1>4, <1>5 DEF Chosen

LEMMA UserSelectsInv ==
  ASSUME IInv, NEW S \in SUBSET (1..Len(rows)), UserSelects(S)
  PROVE  IInv'
<1>1. /\ Idle /\ question = {} /\ tab # "events" /\ Select(S)
      /\ panel' = ItemsOf(S, rows, host) /\ picked' = {rows[k].key : k \in S} /\ sent' = {}
      /\ UNCHANGED <<tab, selected, host, todo, hasRows, question, updates>>
  BY DEF UserSelects, PanelFromView
<1>2. MergeSound /\ ViewKnowsTheRows /\ Settled /\ rows \in Seq(Row)
  BY <1>1, HandlerPlace, SoundTypes DEF IInv, ViewInv
<1>3. UNCHANGED <<rows, new, merging>> /\ ~merging
  BY <1>1 DEF Select
<1>4. MergeSound' /\ MergeIsExact' /\ ViewKnowsTheRows'
  BY <1>1, <1>2, <1>3, SelectKeepsInv DEF Kept, IInv, MergeIsExact
<1>5. SelectedRows' = S /\ Chosen(view)' = {rows[k] : k \in S}
  BY <1>1, <1>2, ChosenAfterSelect
<1>6. KeysOf(Chosen(view))' = {rows[k].key : k \in S} /\ {rows[k].key : k \in S} \subseteq Keys
  <2>1. \A k \in S : rows[k] \in Row
    BY <1>2
  <2> QED  BY <1>5, <2>1, RowParts DEF KeysOf
<1>7. TabTypes'
  <2>1. host \in Hosts \cup {NoHost}
    BY DEF IInv, TabTypes
  <2>2. panel' \subseteq Item
    BY <1>1, <1>2, <2>1, ItemsAreItems
  <2> QED  BY <1>1, <1>6, <2>2 DEF IInv, TabTypes
<1>8. ViewInv' /\ HandlerInv' /\ QuestionInv'
  BY <1>1, <1>2, <1>3, <1>4 DEF ViewInv, HandlerInv, Settled, QuestionInv
<1>9. RowsInv'
  BY <1>1, <1>3 DEF IInv, RowsInv, ListTab
<1>10. SelectionInv'
  BY <1>1, <1>3, <1>6 DEF SelectionInv, Remaining
<1>11. PanelInv'
  <2>1. CASE ListTab
    <3>1. panel' = ItemsOf(SelectedRows, rows, host)'
      BY <1>1, <1>3, <1>5 DEF ItemsOf, TaskItems, ProjectItems, TransferItems
    <3>2. tab' # "transfers"
      BY <1>1, <2>1 DEF ListTab
    <3> QED  BY <3>1, <3>2 DEF PanelInv
  <2>2. CASE tab = "transfers"
    <3>1. KeysOf(panel') = {rows[k].key : k \in S}
      <4>1. KeysOf(ItemsOf(S, rows, host)) = {rows[k].key : k \in S}
        BY ItemsKeys, Zenon
      <4>2. panel' = ItemsOf(S, rows, host)
        BY <1>1, Zenon
      <4> QED  BY ONLY <4>1, <4>2, Zenon
    <3>2. CASE host = NoHost
      <4>1. S = {}
        BY <1>2, <3>2 DEF Settled
      <4>2. panel' = {}
        BY <1>1, <4>1, NothingSelected
      <4> QED  BY <1>1, <2>2, <3>2, <4>2 DEF PanelInv, ListTab
    <3>3. CASE host # NoHost
      <4>1. OfHost(rows, host)
        BY <1>1, <3>3 DEF IInv, RowsInv
      <4>2. \A i \in panel' : i.host = host
        BY <1>1, <4>1, ItemsHosts
      <4> QED  BY <1>1, <1>6, <2>2, <3>1, <3>3, <4>2 DEF PanelInv, ListTab
    <3> QED  BY <3>2, <3>3
  <2>3. tab \in TabKinds
    BY TabIsOne DEF IInv
  <2> QED  BY <1>1, <2>1, <2>2, <2>3 DEF ListTab, TabKinds
<1> QED  BY <1>4, <1>7, <1>8, <1>9, <1>10, <1>11 DEF IInv

\* Between the signals the panel has the selected rows, and they are of the tab's host.
LEMMA PanelOfRows ==
  ASSUME IInv, Idle, tab # "events"
  PROVE  /\ KeysOf(panel) = KeysOf(Chosen(view))
         /\ \A i \in panel : i.host = host
         /\ \A r \in Chosen(view) : r.hidden.host = host
<1>1. ViewKnowsTheRows /\ Settled /\ rows \in Seq(Row)
  BY HandlerPlace, SoundTypes DEF IInv, ViewInv
<1>2. /\ SelectedRows \in SUBSET (1..Len(rows))
      /\ Chosen(view) = {rows[k] : k \in SelectedRows}
      /\ KeysOf(Chosen(view)) = {rows[k].key : k \in SelectedRows}
  BY <1>1, ChosenOfKnown
<1>3. OfHost(rows, host)
  <2>1. host = NoHost => rows = <<>>
    BY <1>1 DEF Settled
  <2>2. host # NoHost => OfHost(rows, host)
    BY DEF IInv, RowsInv
  <2> QED  BY <2>1, <2>2 DEF OfHost
<1>4. \A r \in Chosen(view) : r.hidden.host = host
  BY <1>2, <1>3 DEF OfHost
<1>5. CASE ListTab
  <2>1. panel = ItemsOf(SelectedRows, rows, host)
    BY <1>5 DEF IInv, PanelInv
  <2> QED  BY <1>2, <1>3, <1>4, <2>1, ItemsKeys, ItemsHosts
<1>6. CASE tab = "transfers" /\ host = NoHost
  <2>1. panel = {} /\ SelectedRows = {}
    BY <1>1, <1>2, <1>6 DEF IInv, PanelInv, Settled
  <2> QED  BY <1>2, <1>4, <2>1 DEF KeysOf
<1>7. CASE tab = "transfers" /\ host # NoHost
  BY <1>4, <1>7 DEF IInv, PanelInv
<1>8. tab \in TabKinds
  BY TabIsOne DEF IInv
<1> QED  BY <1>5, <1>6, <1>7, <1>8 DEF ListTab, TabKinds

\* Commands are for items of the type.
LEMMA SentItems ==
  ASSUME IInv, NEW op
  PROVE  \A c \in Sent(op) : c.item \in Item
<1>1. panel \subseteq Item /\ host \in Hosts \cup {NoHost}
  BY DEF IInv, TabTypes
<1>2. \A i \in panel : [i EXCEPT !.host = host] \in Item
  BY <1>1 DEF Item
<1>3. \A c \in PanelSends(op) : c.item \in Item
  BY <1>1 DEF PanelSends, Command
<1>4. \A c \in TransfersSend(op) : c.item \in Item
  BY <1>2 DEF TransfersSend, Command
<1> QED  BY <1>3, <1>4 DEF Sent

LEMMA ClickInv ==
  ASSUME IInv, NEW op, Click(op)
  PROVE  IInv'
<1>1. /\ Idle /\ panel # {}
      /\ UNCHANGED <<updaterVars, tab, selected, host, todo, panel, hasRows, picked, updates>>
      /\ IF op = "abort" THEN question' = panel /\ sent' = sent
                         ELSE sent' = Sent(op) /\ question' = question
  BY DEF Click, Offered
<1>2. MergeSound' /\ MergeIsExact' /\ RowsInv' /\ SelectionInv'
  BY <1>1, ListSame
<1>3. PanelInv'
  <2>1. Idle' => Idle
    BY <1>1
  <2> QED  BY <1>1, <2>1, PanelSame
<1>4. HandlerInv'
  BY <1>1 DEF IInv, updaterVars, HandlerInv, Settled, Selecting, Updating, Unselecting, ListTab
<1>5. TabTypes'
  <2>1. hasRows' \in BOOLEAN
    BY <1>1, Zenon DEF IInv, TabTypes
  <2> QED  BY <1>1, <2>1, SentItems DEF IInv, TabTypes
<1>6. tab # "events"
  BY <1>1 DEF IInv, ViewInv
<1>7. ViewInv'
  BY <1>1, <1>6 DEF IInv, ViewInv, ViewKnowsTheRows, updaterVars
<1>8. QuestionInv'
  <2>1. Chosen(view)' = Chosen(view)
    BY <1>1 DEF updaterVars
  <2>2. ASSUME op = "abort", NEW r \in Chosen(view)
        PROVE  \E i \in panel : i.key = r.key /\ i.host = r.hidden.host
    <3>1. r.key \in KeysOf(panel)
      BY <1>1, <1>6, PanelOfRows DEF KeysOf
    <3> QED  BY <1>1, <1>6, <3>1, PanelOfRows DEF KeysOf
  <2>3. CASE op = "abort"
    BY <1>1, <2>1, <2>2, <2>3 DEF QuestionInv, Asked
  <2>4. CASE op # "abort"
    BY <1>1, <2>1, <2>4 DEF IInv, QuestionInv, Asked
  <2> QED  BY <2>3, <2>4
<1> QED  BY <1>2, <1>3, <1>4, <1>5, <1>7, <1>8 DEF IInv

LEMMA AnswerInv ==
  ASSUME IInv, NEW yes \in BOOLEAN, Answer(yes)
  PROVE  IInv'
<1>1. /\ Idle /\ question # {} /\ question' = {}
      /\ sent' = IF yes THEN Sent("abort") ELSE {}
      /\ UNCHANGED <<updaterVars, tab, selected, host, todo, panel, hasRows, picked, updates>>
  BY DEF Answer
<1>2. MergeSound' /\ MergeIsExact' /\ RowsInv' /\ SelectionInv'
  BY <1>1, ListSame
<1>3. PanelInv'
  <2>1. Idle' => Idle
    BY <1>1
  <2> QED  BY <1>1, <2>1, PanelSame
<1>4. HandlerInv'
  BY <1>1 DEF IInv, updaterVars, HandlerInv, Settled, Selecting, Updating, Unselecting, ListTab
<1>5. TabTypes'
  <2>1. hasRows' \in BOOLEAN
    BY <1>1, Zenon DEF IInv, TabTypes
  <2>2. \A c \in sent' : c.item \in Item
    BY <1>1, SentItems
  <2> QED  BY <1>1, <2>1, <2>2 DEF IInv, TabTypes
<1>6. ViewInv'
  BY <1>1 DEF IInv, ViewInv, ViewKnowsTheRows, updaterVars
<1>7. QuestionInv'
  BY <1>1 DEF QuestionInv
<1> QED  BY <1>2, <1>3, <1>4, <1>5, <1>6, <1>7 DEF IInv

\* What is aborted was asked about.
LEMMA AnswerIsConfirmed ==
  ASSUME IInv, NEW yes \in BOOLEAN, Answer(yes), NEW c \in sent'
  PROVE  \E i \in question : i.key = c.item.key /\ i.host = c.item.host
<1>1. Idle /\ question # {} /\ c \in Sent("abort")
  BY DEF Answer
<1>2. tab # "events"
  BY <1>1 DEF IInv, ViewInv
<1>3. PICK i \in panel : c.item.key = i.key /\ c.item.host = host
  <2>1. \A i \in panel : i.host = host
    BY <1>1, <1>2, PanelOfRows
  <2>2. \A i \in panel : i \in Item
    BY DEF IInv, TabTypes
  <2>3. CASE tab = "transfers"
    <3>1. PICK i \in panel : c.item = [i EXCEPT !.host = host]
      BY <1>1, <2>3 DEF Sent, TransfersSend, Command
    <3> QED  BY <2>2, <3>1 DEF Item
  <2>4. CASE tab # "transfers"
    <3>1. c.item \in panel
      BY <1>1, <2>4 DEF Sent, PanelSends, Command
    <3> QED  BY <2>1, <3>1
  <2> QED  BY <2>3, <2>4
<1>4. PICK r \in Chosen(view) : r.key = i.key
  <2>1. i.key \in KeysOf(Chosen(view))
    BY <1>1, <1>2, PanelOfRows DEF KeysOf
  <2> QED  BY <2>1 DEF KeysOf
<1>5. r.hidden.host = host
  BY <1>1, <1>2, PanelOfRows
<1>6. Asked(r)
  BY <1>1 DEF IInv, QuestionInv
<1> QED  BY <1>3, <1>4, <1>5, <1>6 DEF Asked

-----------------------------------------------------------------------------
(* The slots of the tab: a list.                                           *)

\* The events kept are rows.
LEMMA NewEventsAreRows ==
  ASSUME rows \in Seq(Row), NEW data \in Seq(Row)
  PROVE  WithNewEvents(data) \in Seq(Row)
<1>1. PICK all : all = rows \o data
  OBVIOUS
<1>2. all \in Seq(Row) /\ Len(all) \in Nat
  BY <1>1
<1>3. PICK m : m = IF Len(all) > MaxEvents THEN Len(all) - MaxEvents + 1 ELSE 1
  OBVIOUS
<1>4. m \in Nat \ {0}
  BY <1>2, <1>3, TabsAssumption
<1>5. SubSeq(all, m, Len(all)) \in Seq(Row)
  BY <1>2, <1>4
<1> QED  BY <1>1, <1>3, <1>5 DEF WithNewEvents

LEMMA UpdateBeginsInv == IInv /\ UpdateBegins => IInv'
<1> SUFFICES ASSUME IInv, UpdateBegins PROVE IInv'
  OBVIOUS
<1>1. todo # <<>> /\ ~merging /\ Head(todo).signal = "updated"
  BY DEF UpdateBegins
<1>2. Updating /\ MergeSound /\ rows \in Seq(Row) /\ tab \in TabKinds
  <2>1. HandlerInv
    BY DEF IInv
  <2> QED  BY <1>1, <2>1, HandlerPlace, TabIsOne, SoundTypes DEF IInv
<1>3. PICK sentRows \in Seq(Row) :
        /\ todo = <<Updated(sentRows)>> /\ host = selected
        /\ tab # "events" => OfHost(sentRows, host)
        /\ ListTab => Sorted(sentRows)
        /\ host = NoHost => sentRows = <<>> /\ (tab # "transfers" => rows = <<>>)
  BY <1>2 DEF Updating
<1>4. Head(todo).data = sentRows /\ Tail(todo) = <<>>
  BY <1>3 DEF Updated
<1>5. PICK data : data = IF tab = "events" THEN WithNewEvents(sentRows) ELSE sentRows
  OBVIOUS
<1>6. data \in Seq(Row)
  BY <1>2, <1>3, <1>5, NewEventsAreRows
<1>7. /\ (Start(data) /\ panel' = panel) \/ (Clear(data) /\ panel' = {})
      /\ hasRows' = (tab = "transfers" /\ data # <<>>)
      /\ picked' = picked \cap Keyed(data)
      /\ todo' = IF merging' THEN todo ELSE <<>>
      /\ UNCHANGED <<tab, selected, host, question, sent, updates>>
  BY <1>4, <1>5 DEF UpdateBegins
<1>8. TabTypes'
  <2>1. hasRows' \in BOOLEAN
    BY <1>7, Zenon
  <2> QED  BY <1>7, <2>1 DEF IInv, TabTypes
<1>9. host = NoHost => data = <<>>
  <2>1. ASSUME host = NoHost, tab = "events" PROVE WithNewEvents(sentRows) = <<>>
    <3>1. rows = <<>> /\ sentRows = <<>>
      BY <1>3, <2>1
    <3>2. rows \o sentRows = <<>>
      BY <3>1
    <3> DEFINE none == <<>>
    <3>3. WithNewEvents(sentRows) = SubSeq(<<>>, 1, 0)
      BY <3>2, TabsAssumption DEF WithNewEvents
    <3> QED  BY <3>3
  <2> QED  BY <1>3, <1>5, <2>1
<1>10. CASE Start(data) /\ panel' = panel
  <2>1. /\ rows' = rows /\ view' = view /\ new' = data /\ merging' = TRUE /\ data # <<>>
        /\ todo' = todo /\ host # NoHost
    BY <1>7, <1>9, <1>10 DEF Start
  <2>2. MergeSound' /\ (ViewKnowsTheRows => ViewKnowsTheRows') /\ MergeIsExact'
    BY <1>2, <1>6, <1>10, <2>1, StartKeepsInv DEF Kept, MergeIsExact
  <2>3. Chosen(view)' = Chosen(view)
    BY <2>1
  <2>4. ViewInv'
    BY <1>7, <1>10, <2>2, <2>3 DEF IInv, ViewInv
  <2>5. HandlerInv'
    BY <1>3, <1>7, <2>1 DEF HandlerInv, Updating, ListTab
  <2>6. RowsInv'
    BY <1>3, <1>5, <1>7, <2>1 DEF IInv, RowsInv, ListTab
  <2>7. SelectionInv'
    <3>1. CASE tab = "events"
      BY <1>7, <3>1 DEF SelectionInv, ListTab
    <3>2. CASE tab # "events"
      <4>1. KeysOf(Chosen(view)) \subseteq Keys
        BY <1>2, <3>2, ChosenOfKnown DEF IInv, ViewInv
      <4>2. Remaining = KeysOf(Chosen(view))
        BY <1>1, <4>1 DEF Remaining
      <4>3. Remaining' = Remaining \cap Keyed(data)
        BY <2>1, <2>3, <4>2 DEF Remaining
      <4> QED  BY <1>7, <4>3 DEF IInv, SelectionInv, ListTab
    <3> QED  BY <3>1, <3>2
  <2>8. PanelInv'
    BY <1>7, <1>10, <2>1, <2>3 DEF IInv, PanelInv, ListTab, Idle
  <2>9. QuestionInv'
    BY <1>7, <2>3 DEF IInv, QuestionInv, Asked
  <2> QED  BY <1>8, <2>2, <2>4, <2>5, <2>6, <2>7, <2>8, <2>9 DEF IInv
<1>11. CASE Clear(data) /\ panel' = {}
  <2>1. /\ rows' = <<>> /\ ~merging' /\ data = <<>> /\ todo' = <<>>
        /\ view' = IF rows = <<>> THEN view ELSE Cut(view, 1, Len(rows))
    BY <1>7, <1>11 DEF Clear
  <2>2. MergeSound' /\ (ViewKnowsTheRows => ViewKnowsTheRows') /\ MergeIsExact'
    BY <1>2, <1>11, ClearKeepsInv DEF Kept, MergeIsExact, AsNew
  <2>3. HandlerInv'
    BY <1>3, <1>7, <2>1 DEF HandlerInv, Settled
  <2>4. RowsInv'
    BY <2>1 DEF RowsInv, OfHost, Sorted
  <2>5. picked' = {}
    BY <1>7, <2>1 DEF Keyed
  <2>6. Chosen(view)' = {} /\ (tab # "events" => SelectedRows' = {})
    <3>1. CASE tab # "events"
      BY <1>2, <1>11, <3>1, ClearedView DEF IInv, ViewInv
    <3>2. CASE tab = "events"
      <4>1. Chosen(view) = {}
        BY <3>2 DEF IInv, ViewInv
      <4>2. CASE rows = <<>>
        <5>1. view' = view
          BY <2>1, <4>2
        <5> QED  BY <3>2, <4>1, <5>1
      <4>3. CASE rows # <<>>
        <5>1. Len(rows) # 0
          BY <1>2, <4>3
        <5>2. view \in Seq(Cell) /\ 1 \in 1..Len(view) /\ Len(rows) \in 1..(Len(view) - 1 + 1)
          BY <1>2, <5>1, SoundTypes
        <5>3. PICK n : n = Len(rows)
          OBVIOUS
        <5>4. Chosen(Cut(view, 1, n)) =
                {view[k].row : k \in {j \in SelectedIn(view) : ~(1 <= j /\ j < 1 + n)}}
          BY <5>2, <5>3, ChosenAfterCut
        <5>5. Chosen(Cut(view, 1, n)) \subseteq Chosen(view)
          BY <5>4 DEF Chosen
        <5>6. view' = Cut(view, 1, n)
          BY <2>1, <4>3, <5>3
        <5> QED  BY <3>2, <4>1, <5>5, <5>6
      <4> QED  BY <3>2, <4>2, <4>3
    <3> QED  BY <3>1, <3>2
  <2>7. ViewInv'
    BY <1>7, <1>11, <2>2, <2>5, <2>6 DEF IInv, ViewInv
  <2>8. SelectionInv'
    BY <1>7, <2>1, <2>5, <2>6 DEF SelectionInv, Remaining, KeysOf
  <2>9. PanelInv'
    <3>1. ItemsOf({}, rows, host)' = {}
      BY DEF ItemsOf, TaskItems, ProjectItems, TransferItems
    <3>2. KeysOf(panel') = {} /\ KeysOf(Chosen(view))' = {}
      BY <1>11, <2>6 DEF KeysOf
    <3> QED  BY <1>7, <1>11, <2>6, <3>1, <3>2 DEF PanelInv, ListTab
  <2>10. QuestionInv'
    BY <2>6 DEF QuestionInv
  <2> QED  BY <1>8, <2>2, <2>3, <2>4, <2>7, <2>8, <2>9, <2>10 DEF IInv
<1> QED  BY <1>7, <1>10, <1>11

\* During the merge the model handler waits for it to end, with a host selected.
LEMMA MergingPlace ==
  ASSUME IInv, merging
  PROVE  /\ Updating /\ host # NoHost /\ host = selected /\ Tail(todo) = <<>>
         /\ MergeSound /\ tab \in TabKinds
         /\ (tab # "events" => ViewKnowsTheRows /\ OfHost(rows, host) /\ OfHost(new, host))
         /\ (ListTab => Sorted(rows) /\ Sorted(new))
         /\ (tab = "events" => SelectedIn(view) = {} /\ SelectedRows = {})
<1>1. Updating
  BY HandlerPlace DEF IInv
<1>2. host # NoHost /\ host = selected /\ Tail(todo) = <<>>
  BY <1>1 DEF Updating
<1>3. MergeSound /\ tab \in TabKinds
  BY TabIsOne DEF IInv
<1>4. tab # "events" => ViewKnowsTheRows /\ OfHost(rows, host) /\ OfHost(new, host)
  BY <1>2 DEF IInv, ViewInv, RowsInv
<1>5. ListTab => Sorted(rows) /\ Sorted(new)
  BY DEF IInv, RowsInv, ListTab
<1>6. ASSUME tab = "events" PROVE SelectedIn(view) = {} /\ SelectedRows = {}
  <2>1. Chosen(view) = {}
    BY <1>6 DEF IInv, ViewInv
  <2> QED  BY <2>1 DEF Chosen, SelectedIn, SelectedRows
<1> QED  BY <1>1, <1>2, <1>3, <1>4, <1>5, <1>6

\* And it goes on waiting while the merge goes on.
LEMMA MergingHandler ==
  ASSUME IInv, merging, UNCHANGED <<tab, selected, host, todo>>
  PROVE  HandlerInv'
<1>1. PICK data \in Seq(Row) :
        /\ todo = <<Updated(data)>> /\ host = selected /\ host # NoHost
        /\ tab # "events" => OfHost(data, host)
        /\ ListTab => Sorted(data)
  BY MergingPlace DEF Updating
<1> QED  BY <1>1 DEF HandlerInv, Updating, ListTab

\* In sorted lists no row that the merge takes out is among the new ones.
LEMMA RemovedAreOld ==
  ASSUME IInv, merging, ListTab, NEW n \in 1..(Len(rows) - ci + 1),
         ni > Len(new) \/ \A k \in ci..(ci + n - 1) : Compare(rows[k], new[ni]) < 0,
         NEW k \in ci..(ci + n - 1)
  PROVE  rows[k].key \notin Keyed(new)
<1>1. /\ Sorted(rows) /\ Sorted(new) /\ MergeSound
      /\ ci = ni /\ \A m \in 1..(ci - 1) : Same(rows[m], new[m])
  BY MergingPlace DEF MergeSound, MergeInvariant
<1>2. /\ rows \in Seq(Row) /\ new \in Seq(Row) /\ ci \in Nat \ {0}
      /\ Len(rows) \in Nat /\ Len(new) \in Nat
  BY <1>1, SoundTypes
<1>3. k \in 1..Len(rows) /\ rows[k] \in Row
  BY <1>2
<1>4. rows[k].key \in Int
  BY <1>3, RowParts
<1>5. \A m \in 1..Len(new) : new[m].key \in Int
  <2> TAKE m \in 1..Len(new)
  <2>1. new[m] \in Row
    BY <1>2
  <2> QED  BY <2>1, RowParts
<1>6. ASSUME NEW m \in 1..Len(new), m < ci PROVE rows[k].key # new[m].key
  <2>1. m \in 1..(ci - 1) /\ m \in 1..Len(rows) /\ m < k
    BY <1>2, <1>3, <1>6
  <2>2. rows[m].key < rows[k].key
    BY <1>1, <1>3, <2>1 DEF Sorted
  <2>3. rows[m].key = new[m].key
    BY ONLY <1>1, <2>1 DEF Same
  <2> QED  BY <1>4, <1>5, <2>2, <2>3
<1>7. ASSUME NEW m \in 1..Len(new), ~(m < ci) PROVE rows[k].key # new[m].key
  <2>1. ni \in 1..Len(new) /\ ni <= m
    BY <1>1, <1>2, <1>7
  <2>2. rows[k].key < new[ni].key
    <3>1. Compare(rows[k], new[ni]) < 0
      BY <1>2, <2>1
    <3> QED  BY <1>4, <1>5, <2>1, <3>1 DEF Compare
  <2>3. new[ni].key <= new[m].key
    <3>1. CASE ni = m
      BY <1>5, <3>1
    <3>2. CASE ni < m
      BY <1>1, <1>5, <2>1, <3>2 DEF Sorted
    <3> QED  BY <1>1, <1>2, <2>1, <3>1, <3>2
  <2> QED  BY <1>4, <1>5, <2>1, <2>2, <2>3
<1> QED  BY <1>2, <1>6, <1>7 DEF Keyed

\* A sorted list with rows cut out is sorted, and of the same host.
LEMMA CutKeepsRows ==
  ASSUME NEW s \in Seq(Row), NEW i \in 1..Len(s), NEW n \in 1..(Len(s) - i + 1), NEW h
  PROVE  /\ OfHost(s, h) => OfHost(Cut(s, i, n), h)
         /\ Sorted(s) => Sorted(Cut(s, i, n))
<1>1. PICK t : t = Cut(s, i, n)
  OBVIOUS
<1>2. /\ Len(t) = Len(s) - n /\ Len(s) \in Nat
      /\ \A k \in 1..(Len(s) - n) : t[k] = IF k < i THEN s[k] ELSE s[k + n]
  <2>1. Len(s) \in Nat
    OBVIOUS
  <2>2. /\ Len(Cut(s, i, n)) = Len(s) - n
        /\ \A k \in 1..(Len(s) - n) : Cut(s, i, n)[k] = IF k < i THEN s[k] ELSE s[k + n]
    BY CutIsSeq
  <2> QED  BY ONLY <1>1, <2>1, <2>2
<1> DEFINE From(k) == IF k < i THEN k ELSE k + n
<1>3. \A k \in 1..Len(t) : From(k) \in 1..Len(s) /\ t[k] = s[From(k)]
  BY <1>2
<1>4. \A j, k \in 1..Len(t) : j < k => From(j) < From(k)
  BY <1>2
<1> HIDE DEF From
<1>5. OfHost(s, h) => OfHost(t, h)
  BY <1>3 DEF OfHost
<1>6. Sorted(s) => Sorted(t)
  BY <1>3, <1>4 DEF Sorted
<1> QED  BY <1>1, <1>5, <1>6

\* Rows are taken out, whether in front of a new one or at the end.
LEMMA CutInv ==
  ASSUME IInv, merging, ci <= Len(rows), NEW n \in 1..(Len(rows) - ci + 1),
         ni > Len(new) \/ \A k \in ci..(ci + n - 1) : Compare(rows[k], new[ni]) < 0,
         rows' = Cut(rows, ci, n), view' = Cut(view, ci, n),
         UNCHANGED <<new, ci, ni, merging>>,
         UNCHANGED <<tab, selected, host, todo, hasRows, question, sent, picked, updates>>,
         NEW gone, gone = {k \in SelectedRows : ci <= k /\ k < ci + n},
         panel' = IF gone # {} THEN PanelFromView(SelectedRows \ gone) ELSE panel
  PROVE  IInv'
<1>1. /\ host # NoHost /\ MergeSound /\ tab \in TabKinds
      /\ (tab # "events" => ViewKnowsTheRows /\ OfHost(rows, host) /\ OfHost(new, host))
      /\ (ListTab => Sorted(rows) /\ Sorted(new))
      /\ (tab = "events" => SelectedIn(view) = {} /\ SelectedRows = {})
  BY MergingPlace
<1>2. /\ rows \in Seq(Row) /\ view \in Seq(Cell) /\ Len(rows) \in Nat /\ Len(view) \in Nat
      /\ Len(rows) <= Len(view) /\ ci \in Nat \ {0} /\ ci \in 1..Len(rows)
  BY <1>1, SoundTypes
<1>3. ci \in 1..Len(view) /\ n \in 1..(Len(view) - ci + 1)
  BY <1>2
<1>4. Kept /\ MergeIsExact'
  BY <1>1, CutKeepsInv DEF MergeIsExact
<1>5. SelectedRows = SelectedIn(view)
  BY DEF SelectedRows, SelectedIn
<1>6. PICK R : R = SelectedRows \ gone
  OBVIOUS
<1>7. R = {j \in SelectedIn(view) : ~(ci <= j /\ j < ci + n)}
  BY <1>5, <1>6
<1>8. Chosen(view)' = {view[k].row : k \in R} /\ Chosen(view)' \subseteq Chosen(view)
  <2>1. Chosen(Cut(view, ci, n)) = {view[k].row : k \in R}
    BY <1>2, <1>3, <1>7, ChosenAfterCut
  <2>2. Chosen(view)' = {view[k].row : k \in R}
    BY <2>1
  <2>3. R \subseteq SelectedIn(view)
    BY <1>7
  <2> QED  BY <2>2, <2>3 DEF Chosen
<1>9. HandlerInv'
  BY MergingHandler
<1>10. RowsInv'
  <2>1. /\ OfHost(rows, host) => OfHost(rows', host)
        /\ Sorted(rows) => Sorted(rows')
    BY <1>2, CutKeepsRows
  <2> QED  BY <1>1, <2>1 DEF RowsInv, ListTab
<1>11. QuestionInv'
  BY <1>8 DEF IInv, QuestionInv, Asked
<1>12. CASE tab = "events"
  <2>1. panel' = panel
    BY <1>1, <1>12
  <2>2. Chosen(view) = {}
    BY <1>12 DEF IInv, ViewInv
  <2>3. ViewInv'
    BY <1>8, <1>12, <2>1, <2>2 DEF IInv, ViewInv
  <2>4. TabTypes'
    BY <2>1 DEF IInv, TabTypes
  <2>5. SelectionInv' /\ PanelInv'
    BY <1>12 DEF SelectionInv, PanelInv, ListTab
  <2> QED  BY <1>4, <1>9, <1>10, <1>11, <2>3, <2>4, <2>5 DEF IInv, Kept
<1>13. CASE tab # "events"
  <2>1. /\ SelectedRows \in SUBSET (1..Len(rows))
        /\ \A k \in SelectedRows : view[k].row = rows[k]
        /\ KeysOf(Chosen(view)) = {rows[k].key : k \in SelectedRows}
        /\ ViewKnowsTheRows /\ Len(view) = Len(rows)
    BY <1>1, <1>2, <1>13, ChosenOfKnown DEF ViewKnowsTheRows
  <2>2. R \in SUBSET (1..Len(rows))
    BY <1>6, <2>1
  <2>3. KeysOf(Chosen(view))' = {rows[k].key : k \in R}
    <3>1. \A k \in R : view[k].row = rows[k]
      BY <1>6, <2>1
    <3> QED  BY <1>8, <3>1 DEF KeysOf
  <2>4. ViewInv'
    BY <1>4, <1>13, <2>1 DEF ViewInv, Kept
  <2>5. panel' = IF gone # {} THEN ItemsOf(R, rows, host) ELSE panel
    BY <1>6 DEF PanelFromView
  <2>6. TabTypes'
    <3>1. host \in Hosts \cup {NoHost} /\ panel \subseteq Item
      BY DEF IInv, TabTypes
    <3>2. ItemsOf(R, rows, host) \subseteq Item
      BY <1>2, <2>2, <3>1, ItemsAreItems
    <3> QED  BY <2>5, <3>1, <3>2 DEF IInv, TabTypes
  <2>7. PanelInv'
    <3>1. CASE ListTab
      BY <3>1 DEF PanelInv, ListTab, Idle
    <3>2. CASE tab = "transfers" /\ gone # {}
      <4>1. panel' = ItemsOf(R, rows, host)
        BY <2>5, <3>2
      <4>2. KeysOf(panel') = KeysOf(Chosen(view))' /\ \A i \in panel' : i.host = host
        BY <1>1, <1>13, <2>2, <2>3, <4>1, ItemsKeys, ItemsHosts
      <4> QED  BY <1>1, <3>2, <4>2 DEF PanelInv, ListTab
    <3>3. CASE tab = "transfers" /\ gone = {}
      <4>1. panel' = panel /\ R = SelectedRows
        BY <1>6, <2>5, <3>3
      <4> QED  BY <1>1, <2>1, <2>3, <3>3, <4>1 DEF IInv, PanelInv, ListTab
    <3> QED  BY <1>1, <1>13, <3>1, <3>2, <3>3 DEF ListTab, TabKinds
  <2>8. SelectionInv'
    <3>1. Remaining' \subseteq Remaining
      BY <1>8 DEF Remaining, KeysOf
    <3>2. CASE ListTab
      <4>1. \A k \in SelectedRows \ R : rows[k].key \notin Keyed(new)
        <5>1. \A k \in SelectedRows \ R : k \in ci..(ci + n - 1)
          BY <1>2, <1>6, <2>1
        <5> QED  BY <3>2, <5>1, RemovedAreOld
      <4>2. Remaining \subseteq Remaining'
        BY <2>1, <2>3, <4>1 DEF Remaining
      <4> QED  BY <3>1, <3>2, <4>2 DEF IInv, SelectionInv, ListTab
    <3>3. CASE ~ListTab
      BY <3>1, <3>3 DEF IInv, SelectionInv, ListTab
    <3> QED  BY <3>2, <3>3
  <2> QED  BY <1>4, <1>9, <1>10, <1>11, <2>4, <2>6, <2>7, <2>8 DEF IInv, Kept
<1> QED  BY <1>12, <1>13

LEMMA UpdateRemovesInv == IInv /\ UpdateRemoves => IInv'
<1> SUFFICES ASSUME IInv, UpdateRemoves PROVE IInv'
  OBVIOUS
<1>1. PICK gone : gone = {k \in SelectedRows : ci <= k /\ k < ci + Len(rows) - Len(rows')}
  OBVIOUS
<1>2. /\ panel' = IF gone # {} THEN PanelFromView(SelectedRows \ gone) ELSE panel
      /\ UNCHANGED <<tab, selected, host, todo, hasRows, question, sent, picked, updates>>
  BY <1>1 DEF UpdateRemoves
<1>3. rows \in Seq(Row) /\ Len(rows) \in Nat /\ ci \in Nat \ {0}
  BY SoundTypes DEF IInv
<1>4. PICK n \in 1..(Len(rows) - ci + 1) :
        /\ merging /\ ci <= Len(rows)
        /\ ni > Len(new) \/ \A k \in ci..(ci + n - 1) : Compare(rows[k], new[ni]) < 0
        /\ rows' = Cut(rows, ci, n) /\ view' = Cut(view, ci, n)
        /\ UNCHANGED <<new, ci, ni, merging>>
  <2>1. CASE RemoveRest
    <3>1. Len(rows) - ci + 1 \in 1..(Len(rows) - ci + 1)
      BY <1>3, <2>1 DEF RemoveRest
    <3> QED  BY <2>1, <3>1 DEF RemoveRest
  <2>2. CASE \E n \in 1..Len(rows) : Remove(n)
    BY <2>2 DEF Remove, RunLength, Walking
  <2> QED  BY <2>1, <2>2 DEF UpdateRemoves
<1>5. Len(rows') = Len(rows) - n
  <2>1. ci \in 1..Len(rows)
    BY <1>3, <1>4
  <2> QED  BY <1>3, <1>4, <2>1, CutIsSeq
<1>6. gone = {k \in SelectedRows : ci <= k /\ k < ci + n}
  <2>1. ci + Len(rows) - Len(rows') = ci + n
    BY <1>3, <1>5
  <2> QED  BY <1>1, <2>1
<1> QED  BY <1>2, <1>4, <1>6, CutInv

\* A list in which a row is written with the same key stays sorted, and of its host.
LEMMA WriteKeepsRows ==
  ASSUME NEW s \in Seq(Row), NEW i \in 1..Len(s), NEW r \in Row, r.key = s[i].key,
         NEW h, r.hidden.host = h
  PROVE  /\ OfHost(s, h) => OfHost([s EXCEPT ![i] = r], h)
         /\ Sorted(s) => Sorted([s EXCEPT ![i] = r])
<1>1. PICK t : t = [s EXCEPT ![i] = r]
  OBVIOUS
<1>2. Len(t) = Len(s) /\ \A k \in 1..Len(s) : t[k] = IF k = i THEN r ELSE s[k]
  BY <1>1
<1>3. \A k \in 1..Len(s) : t[k].key = s[k].key
  BY <1>2
<1>4. OfHost(s, h) => OfHost(t, h)
  BY <1>2 DEF OfHost
<1>5. Sorted(s) => Sorted(t)
  BY <1>2, <1>3 DEF Sorted
<1> QED  BY <1>1, <1>4, <1>5

\* So does one that gets a row between smaller and greater ones.
LEMMA InsertKeepsRows ==
  ASSUME NEW s \in Seq(Row), NEW i \in 1..Len(s), NEW r \in Row, NEW h, r.hidden.host = h
  PROVE  /\ OfHost(s, h) => OfHost(Insert(s, i, r), h)
         /\ Sorted(s) /\ r.key < s[i].key /\ (\A k \in 1..(i - 1) : s[k].key < r.key)
              => Sorted(Insert(s, i, r))
<1>1. Len(s) \in Nat /\ i \in Nat
  OBVIOUS
<1>2. PICK t : t = Insert(s, i, r)
  OBVIOUS
<1>3. /\ Len(t) = Len(s) + 1
      /\ \A k \in 1..(Len(s) + 1) : t[k] = IF k < i THEN s[k] ELSE IF k = i THEN r ELSE s[k - 1]
  <2>1. i \in 1..(Len(s) + 1)
    BY <1>1
  <2> QED  BY <1>2, <2>1, InsertIsSeq DEF Inserted
<1>4. \A k \in 1..Len(t) : \/ k < i /\ k \in 1..(i - 1) /\ k \in 1..Len(s) /\ t[k] = s[k]
                           \/ k = i /\ t[k] = r
                           \/ k > i /\ k - 1 \in 1..Len(s) /\ k - 1 >= i /\ t[k] = s[k - 1]
  <2> TAKE k \in 1..Len(t)
  <2>1. CASE k < i
    <3>1. k \in 1..(i - 1) /\ k \in 1..Len(s) /\ k \in 1..(Len(s) + 1)
      BY <1>1, <1>3, <2>1
    <3> QED  BY ONLY <1>3, <2>1, <3>1
  <2>2. CASE k = i
    <3>1. ~(k < i) /\ k \in 1..(Len(s) + 1)
      BY <1>1, <1>3, <2>2
    <3> QED  BY ONLY <1>3, <2>2, <3>1
  <2>3. CASE k > i
    <3>1. ~(k < i) /\ k # i /\ k \in 1..(Len(s) + 1) /\ k - 1 \in 1..Len(s) /\ k - 1 >= i
      BY <1>1, <1>3, <2>3
    <3>2. t[k] = s[k - 1]
      BY ONLY <1>3, <3>1
    <3> QED  BY ONLY <2>3, <3>1, <3>2
  <2> QED  BY <1>1, <1>3, <2>1, <2>2, <2>3
<1>5. OfHost(s, h) => OfHost(t, h)
  BY <1>4 DEF OfHost
<1>6. ASSUME Sorted(s), r.key < s[i].key, \A k \in 1..(i - 1) : s[k].key < r.key
      PROVE  Sorted(t)
  <2>1. r.key \in Int /\ \A k \in 1..Len(s) : s[k].key \in Int
    <3>1. \A k \in 1..Len(s) : s[k] \in Row
      OBVIOUS
    <3> QED  BY <3>1, RowParts
  <2>2. \A j, k \in 1..Len(s) : j < k => s[j].key < s[k].key
    BY <1>6 DEF Sorted
  <2>3. \A k \in 1..Len(s) : k >= i => r.key < s[k].key
    <3> TAKE k \in 1..Len(s)
    <3>1. CASE k = i
      BY <1>6, <3>1
    <3>2. CASE k > i
      <4>1. s[i].key < s[k].key
        BY <2>2, <3>2
      <4> QED  BY <1>6, <2>1, <4>1
    <3> QED  BY <1>1, <3>1, <3>2
  <2>4. ASSUME NEW j \in 1..Len(t), NEW k \in 1..Len(t), j < k
        PROVE  t[j].key < t[k].key
    <3>1. CASE k < i
      <4>1. j < i
        BY <1>1, <1>3, <2>4, <3>1
      <4> QED  BY <1>1, <1>4, <2>2, <2>4, <3>1, <4>1
    <3>2. CASE k = i
      BY <1>1, <1>3, <1>4, <1>6, <2>4, <3>2
    <3>3. CASE k > i /\ j < i
      <4>1. t[k] = s[k - 1] /\ k - 1 \in 1..Len(s) /\ k - 1 >= i
        BY <1>1, <1>3, <1>4, <3>3
      <4>2. t[j] = s[j] /\ j \in 1..(i - 1)
        BY <1>1, <1>3, <1>4, <3>3
      <4>3. s[j].key < r.key /\ r.key < s[k - 1].key
        BY <1>6, <2>3, <4>1, <4>2
      <4>4. s[j].key \in Int /\ s[k - 1].key \in Int
        BY <1>1, <2>1, <4>1, <4>2
      <4> QED  BY <2>1, <4>1, <4>2, <4>3, <4>4
    <3>4. CASE k > i /\ j = i
      <4>1. t[k] = s[k - 1] /\ k - 1 \in 1..Len(s) /\ k - 1 >= i
        BY <1>1, <1>3, <1>4, <3>4
      <4>2. t[j] = r
        BY <1>1, <1>3, <1>4, <3>4
      <4> QED  BY <2>3, <4>1, <4>2
    <3>5. CASE j > i
      <4>1. t[k] = s[k - 1] /\ k - 1 \in 1..Len(s)
        BY <1>1, <1>3, <1>4, <2>4, <3>5
      <4>2. t[j] = s[j - 1] /\ j - 1 \in 1..Len(s)
        BY <1>1, <1>3, <1>4, <3>5
      <4>3. j - 1 < k - 1
        BY <1>1, <1>3, <2>4
      <4> QED  BY <2>2, <4>1, <4>2, <4>3
    <3> QED  BY <1>1, <1>3, <3>1, <3>2, <3>3, <3>4, <3>5
  <2> QED  BY <2>4 DEF Sorted
<1> QED  BY <1>2, <1>5, <1>6

\* What the writing steps leave alone.
LEMMA WritingStep ==
  ASSUME IInv, UpdateWrites
  PROVE  /\ merging /\ merging' = merging /\ new' = new
         /\ UNCHANGED <<tab, selected, host, todo, panel, hasRows, question, sent, picked, updates>>
         /\ TabTypes' /\ HandlerInv' /\ MergeSound' /\ MergeIsExact'
         /\ (tab # "events" => ViewKnowsTheRows')
         /\ MergeSound /\ ci = ni /\ ci \in 1..Len(rows) /\ ni \in 1..Len(new)
         /\ ci \in 1..Len(view) /\ ci \in 1..(Len(view) + 1)
         /\ rows \in Seq(Row) /\ new \in Seq(Row) /\ view \in Seq(Cell) /\ new[ni] \in Row
         /\ \A k \in 1..(ci - 1) : Same(rows[k], new[k])
<1>1. /\ merging /\ merging' = merging /\ new' = new /\ Walking
      /\ UNCHANGED <<tab, selected, host, todo, panel, hasRows, question, sent, picked, updates>>
  BY DEF UpdateWrites, Update, InsertNew, Walking, tabVars
<1>2. MergeSound /\ ci = ni /\ \A k \in 1..(ci - 1) : Same(rows[k], new[k])
  BY <1>1 DEF IInv, MergeSound, MergeInvariant
<1>3. /\ rows \in Seq(Row) /\ new \in Seq(Row) /\ view \in Seq(Cell)
      /\ ci \in 1..Len(rows) /\ ni \in 1..Len(new)
      /\ ci \in 1..Len(view) /\ ci \in 1..(Len(view) + 1)
  BY <1>1, <1>2, SoundTypes DEF Walking
<1>4. new[ni] \in Row
  BY <1>3
<1>5. Kept
  BY <1>2, UpdateKeepsInv, InsertKeepsInv DEF UpdateWrites
<1>6. tab # "events" => ViewKnowsTheRows'
  BY <1>5 DEF Kept, IInv, ViewInv
<1>7. TabTypes'
  BY <1>1 DEF IInv, TabTypes
<1>8. HandlerInv'
  BY <1>1, MergingHandler
<1> QED  BY <1>1, <1>2, <1>3, <1>4, <1>5, <1>6, <1>7, <1>8 DEF Kept, MergeIsExact

\* A step of the merge that leaves the selected keys alone, and to each the host.
LEMMA SameSelection ==
  ASSUME IInv, UpdateWrites, KeysOf(Chosen(view))' = KeysOf(Chosen(view)),
         tab = "events" => Chosen(view)' = {},
         tab # "events" => \A r \in Chosen(view)' : \E q \in Chosen(view) :
                              q.key = r.key /\ q.hidden.host = r.hidden.host
  PROVE  ViewInv' /\ SelectionInv' /\ PanelInv' /\ QuestionInv'
<1>1. /\ merging /\ merging' = merging /\ new' = new
      /\ UNCHANGED <<tab, host, panel, question, picked>>
      /\ (tab # "events" => ViewKnowsTheRows')
  BY WritingStep
<1>2. ViewInv'
  BY <1>1 DEF IInv, ViewInv
<1>3. SelectionInv'
  <2>1. Remaining' = Remaining
    BY <1>1 DEF Remaining
  <2> QED  BY <1>1, <2>1 DEF IInv, SelectionInv, ListTab
<1>4. PanelInv'
  BY <1>1 DEF IInv, PanelInv, ListTab, Idle
<1>5. QuestionInv'
  BY <1>1 DEF IInv, QuestionInv, Asked, ViewInv
<1> QED  BY <1>2, <1>3, <1>4, <1>5

\* A row that is written.
LEMMA WriteInv ==
  ASSUME IInv, UpdateWrites, Update, ~Same(rows[ci], new[ni])
  PROVE  IInv'
<1>1. /\ merging /\ merging' = merging /\ new' = new
      /\ UNCHANGED <<tab, host>>
      /\ TabTypes' /\ HandlerInv' /\ MergeSound' /\ MergeIsExact'
      /\ ci \in 1..Len(rows) /\ ni \in 1..Len(new) /\ ci \in 1..Len(view)
      /\ rows \in Seq(Row) /\ new \in Seq(Row) /\ view \in Seq(Cell) /\ new[ni] \in Row
  BY WritingStep
<1>2. /\ host # NoHost
      /\ (tab # "events" => ViewKnowsTheRows /\ OfHost(rows, host) /\ OfHost(new, host))
      /\ (tab = "events" => SelectedIn(view) = {})
  BY <1>1, MergingPlace
<1>3. /\ rows' = [rows EXCEPT ![ci] = new[ni]] /\ view' = [view EXCEPT ![ci].row = new[ni]]
      /\ Compare(rows[ci], new[ni]) = 0
  BY RowIsWritten DEF IInv, Update
<1>4. new[ni].key = rows[ci].key
  <2>1. rows[ci] \in Row
    BY <1>1
  <2>2. rows[ci].key \in Int /\ new[ni].key \in Int
    BY <1>1, <2>1, RowParts
  <2> QED  BY <1>3, <2>2 DEF Compare
<1>5. /\ SelectedIn(view') = SelectedIn(view)
      /\ \A k \in SelectedIn(view) : view'[k].row = IF k = ci THEN new[ni] ELSE view[k].row
  <2>1. /\ SelectedIn([view EXCEPT ![ci].row = new[ni]]) = SelectedIn(view)
        /\ \A k \in SelectedIn(view) :
             [view EXCEPT ![ci].row = new[ni]][k].row = IF k = ci THEN new[ni] ELSE view[k].row
    BY <1>1, ChosenAfterWrite
  <2> QED  BY <1>3, <2>1, Zenon
<1>6. ASSUME tab # "events"
      PROVE  /\ view[ci].row = rows[ci]
             /\ new[ni].hidden.host = host /\ view[ci].row.hidden.host = host
  BY <1>1, <1>2, <1>6 DEF ViewKnowsTheRows, OfHost
<1>7. CASE tab = "events"
  <2>1. Chosen(view)' = {} /\ Chosen(view) = {}
    BY <1>2, <1>5, <1>7 DEF Chosen
  <2>2. ViewInv' /\ SelectionInv' /\ PanelInv' /\ QuestionInv'
    BY <1>7, <2>1, SameSelection DEF KeysOf
  <2>3. RowsInv'
    BY <1>1, <1>7 DEF RowsInv
  <2> QED  BY <1>1, <2>2, <2>3 DEF IInv
<1>8. CASE tab # "events"
  <2>1. \A k \in SelectedIn(view) : /\ view'[k].row.key = view[k].row.key
                                    /\ view'[k].row.hidden.host = view[k].row.hidden.host
    BY <1>4, <1>5, <1>6, <1>8
  <2>2. Chosen(view)' = {view'[k].row : k \in SelectedIn(view)}
    BY <1>5 DEF Chosen
  <2>3. KeysOf(Chosen(view))' = KeysOf(Chosen(view))
    <3>1. KeysOf(Chosen(view))' = {view'[k].row.key : k \in SelectedIn(view)}
      BY <2>2 DEF KeysOf
    <3>2. KeysOf(Chosen(view)) = {view[k].row.key : k \in SelectedIn(view)}
      BY DEF KeysOf, Chosen
    <3> QED  BY ONLY <2>1, <3>1, <3>2
  <2>4. \A r \in Chosen(view)' : \E q \in Chosen(view) :
          q.key = r.key /\ q.hidden.host = r.hidden.host
    <3> TAKE r \in Chosen(view)'
    <3>1. PICK k \in SelectedIn(view) : r = view'[k].row
      BY <2>2
    <3>2. view[k].row \in Chosen(view)
      BY DEF Chosen
    <3> QED  BY <2>1, <3>1, <3>2
  <2>5. ViewInv' /\ SelectionInv' /\ PanelInv' /\ QuestionInv'
    BY <1>8, <2>3, <2>4, SameSelection
  <2>6. RowsInv'
    <3>1. /\ OfHost(rows, host) => OfHost(rows', host)
          /\ Sorted(rows) => Sorted(rows')
      BY <1>1, <1>3, <1>4, <1>6, <1>8, WriteKeepsRows
    <3> QED  BY <1>1, <3>1 DEF IInv, RowsInv, ListTab
  <2> QED  BY <1>1, <2>5, <2>6 DEF IInv
<1> QED  BY <1>7, <1>8

\* A row that shows what the new one does is left as it is.
LEMMA LeaveInv ==
  ASSUME IInv, UpdateWrites, Update, Same(rows[ci], new[ni])
  PROVE  IInv'
<1>1. /\ merging /\ merging' = merging /\ new' = new
      /\ UNCHANGED <<tab, host>>
      /\ TabTypes' /\ HandlerInv' /\ MergeSound' /\ MergeIsExact'
  BY WritingStep
<1>2. rows' = rows /\ view' = view
  BY RowIsWritten DEF IInv
<1>3. ViewInv' /\ SelectionInv' /\ PanelInv' /\ QuestionInv'
  <2>1. tab = "events" => Chosen(view) = {}
    BY DEF IInv, ViewInv
  <2>2. Chosen(view)' = Chosen(view)
    BY <1>2
  <2> QED  BY <2>1, <2>2, SameSelection
<1>4. RowsInv'
  BY <1>1, <1>2 DEF IInv, RowsInv, ListTab
<1> QED  BY <1>1, <1>3, <1>4 DEF IInv

LEMMA PutInInv == IInv /\ UpdateWrites /\ InsertNew => IInv'
<1> SUFFICES ASSUME IInv, UpdateWrites, InsertNew PROVE IInv'
  OBVIOUS
<1>1. /\ merging /\ merging' = merging /\ new' = new
      /\ UNCHANGED <<tab, host>>
      /\ TabTypes' /\ HandlerInv' /\ MergeSound' /\ MergeIsExact'
      /\ ci = ni /\ ci \in 1..Len(rows) /\ ni \in 1..Len(new) /\ ci \in 1..(Len(view) + 1)
      /\ rows \in Seq(Row) /\ new \in Seq(Row) /\ view \in Seq(Cell) /\ new[ni] \in Row
      /\ \A k \in 1..(ci - 1) : Same(rows[k], new[k])
  BY WritingStep
<1>2. /\ host # NoHost
      /\ (tab # "events" => OfHost(rows, host) /\ OfHost(new, host))
      /\ (ListTab => Sorted(rows) /\ Sorted(new))
  BY <1>1, MergingPlace
<1>3. PICK c : c = [row |-> new[ni], selected |-> FALSE]
  OBVIOUS
<1>4. /\ rows' = Insert(rows, ci, new[ni]) /\ view' = Insert(view, ci, c)
      /\ Compare(rows[ci], new[ni]) > 0
  BY <1>3 DEF InsertNew
<1>5. c \in Cell /\ c.selected = FALSE
  <2>1. FALSE \in BOOLEAN
    BY Zenon
  <2> QED  BY <1>1, <1>3, <2>1 DEF Cell
<1>6. Chosen(view)' = Chosen(view)
  BY <1>1, <1>4, <1>5, ChosenAfterInsert
<1>7. ViewInv' /\ SelectionInv' /\ PanelInv' /\ QuestionInv'
  <2>1. tab = "events" => Chosen(view) = {}
    BY DEF IInv, ViewInv
  <2> QED  BY <1>6, <2>1, SameSelection
<1>8. RowsInv'
  <2>1. CASE tab = "events"
    BY <1>1, <2>1 DEF RowsInv
  <2>2. CASE tab # "events"
    <3>1. new[ni].hidden.host = host
      BY <1>1, <1>2, <2>2 DEF OfHost
    <3>2. new[ni].key < rows[ci].key
      <4>1. rows[ci] \in Row
        BY <1>1
      <4>2. rows[ci].key \in Int /\ new[ni].key \in Int
        BY <1>1, <4>1, RowParts
      <4> QED  BY <1>4, <4>2 DEF Compare
    <3>3. ListTab => \A k \in 1..(ci - 1) : rows[k].key < new[ni].key
      <4>1. \A k \in 1..(ci - 1) : k \in 1..Len(new) /\ k < ni /\ rows[k].key = new[k].key
        BY <1>1 DEF Same
      <4> QED  BY <1>1, <1>2, <4>1 DEF Sorted
    <3>4. /\ OfHost(rows, host) => OfHost(rows', host)
          /\ ListTab => Sorted(rows')
      BY <1>1, <1>2, <1>4, <3>1, <3>2, <3>3, InsertKeepsRows
    <3> QED  BY <1>1, <1>2, <2>2, <3>4 DEF RowsInv, ListTab
  <2> QED  BY <2>1, <2>2
<1> QED  BY <1>1, <1>7, <1>8 DEF IInv

LEMMA UpdateEndsInv == IInv /\ UpdateEnds => IInv'
<1> SUFFICES ASSUME IInv, UpdateEnds PROVE IInv'
  OBVIOUS
<1>1. /\ Finish /\ merging /\ ~merging' /\ todo' = Tail(todo) /\ new' = new
      /\ UNCHANGED <<tab, selected, host, hasRows, question, sent, picked, updates>>
      /\ panel' = IF ListTab THEN ItemsOf({k \in 1..Len(view') : view'[k].selected}, rows', host)
                  ELSE panel
  BY DEF UpdateEnds, Finish, ListTab
<1>2. /\ host # NoHost /\ host = selected /\ Tail(todo) = <<>>
      /\ MergeSound /\ tab \in TabKinds
      /\ (tab # "events" => ViewKnowsTheRows /\ OfHost(rows, host) /\ OfHost(new, host))
      /\ (ListTab => Sorted(new))
      /\ (tab = "events" => SelectedIn(view) = {})
  BY <1>1, MergingPlace
<1>3. /\ Kept /\ MergeIsExact'
      /\ rows' \in Seq(Row) /\ Len(rows') = Len(new) /\ Len(rows) <= Len(new)
      /\ \A k \in 1..Len(new) : rows'[k].key = new[k].key
      /\ \A k \in 1..Len(new) : rows'[k] = IF k <= Len(rows) THEN rows[k] ELSE new[k]
  <2>1. Kept /\ AsNew'
    BY <1>1, <1>2, FinishIsExact
  <2>2. /\ rows' \in Seq(Row) /\ Len(rows') = Len(new) /\ Len(rows) <= Len(new)
        /\ \A k \in 1..Len(new) : rows'[k] = IF k <= Len(rows) THEN rows[k] ELSE new[k]
    BY <1>1, <1>2, FinishAppends
  <2>3. MergeIsExact' /\ \A k \in 1..Len(new) : rows'[k].key = new[k].key
    BY <1>1, <2>1, <2>2 DEF AsNew, MergeIsExact, Same
  <2> QED  BY <2>1, <2>2, <2>3
<1>4. /\ rows \in Seq(Row) /\ view \in Seq(Cell) /\ new \in Seq(Row)
  BY <1>2, SoundTypes
<1>5. Chosen(view)' = Chosen(view)
  <2>1. view' = IF ni <= Len(new) THEN Extend(view, Cells(new)) ELSE view
    BY <1>1 DEF Finish
  <2>2. Chosen(Extend(view, Cells(new))) = Chosen(view)
    BY <1>4, ChosenAfterExtend
  <2>3. CASE ni <= Len(new)
    BY <2>1, <2>2, <2>3
  <2>4. CASE ~(ni <= Len(new))
    BY <2>1, <2>4
  <2> QED  BY <2>3, <2>4
<1>6. KeysOf(Chosen(view))' = KeysOf(Chosen(view))
  BY <1>5
<1>7. ViewInv'
  <2>1. tab # "events" => ViewKnowsTheRows'
    BY <1>2, <1>3 DEF Kept
  <2> QED  BY <1>1, <1>5, <2>1 DEF IInv, ViewInv, ListTab
<1>8. HandlerInv'
  BY <1>1, <1>2 DEF HandlerInv, Settled
<1>9. RowsInv'
  <2>1. ASSUME tab # "events" PROVE OfHost(rows', host)
    <3> SUFFICES ASSUME NEW k \in 1..Len(rows') PROVE rows'[k].hidden.host = host
      BY DEF OfHost
    <3>1. CASE k <= Len(rows)
      BY <1>2, <1>3, <1>4, <2>1, <3>1 DEF OfHost
    <3>2. CASE ~(k <= Len(rows))
      BY <1>2, <1>3, <2>1, <3>2 DEF OfHost
    <3> QED  BY <3>1, <3>2
  <2>2. ListTab => Sorted(rows')
    BY <1>2, <1>3 DEF Sorted
  <2> QED  BY <1>1, <1>2, <2>1, <2>2 DEF RowsInv, ListTab
<1>10. QuestionInv'
  BY <1>1, <1>5 DEF IInv, QuestionInv, Asked
<1>11. SelectionInv'
  <2>1. CASE tab = "events"
    BY <1>1, <2>1 DEF SelectionInv, ListTab
  <2>2. CASE tab # "events"
    <3>1. ViewKnowsTheRows' /\ rows' \in Seq(Row)
      BY <1>2, <1>3, <1>4, <2>2 DEF Kept
    <3>2. /\ SelectedRows' \in SUBSET (1..Len(rows'))
          /\ KeysOf(Chosen(view))' = {rows'[k].key : k \in SelectedRows'}
          /\ KeysOf(Chosen(view))' \subseteq Keys
      <4>1. SelectedRows' = SelectedIn(view') /\ SelectedRows' \in SUBSET (1..Len(rows'))
        BY <3>1 DEF SelectedRows, SelectedIn, ViewKnowsTheRows
      <4>2. \A k \in SelectedRows' : view'[k].row = rows'[k] /\ rows'[k] \in Row
        BY <3>1, <4>1 DEF ViewKnowsTheRows
      <4>3. KeysOf(Chosen(view))' = {rows'[k].key : k \in SelectedRows'}
        BY <4>1, <4>2 DEF KeysOf, Chosen
      <4> QED  BY <4>1, <4>2, <4>3, RowParts
    <3>3. KeysOf(Chosen(view))' \subseteq Keyed(new)
      BY <1>3, <3>2 DEF Keyed
    <3>4. Remaining' = Remaining
      BY <1>1, <1>6, <3>2, <3>3 DEF Remaining
    <3> QED  BY <1>1, <3>4 DEF IInv, SelectionInv, ListTab
  <2> QED  BY <2>1, <2>2
<1>12. PanelInv'
  <2>1. CASE ListTab
    <3>1. panel' = ItemsOf(SelectedRows, rows, host)'
      BY <1>1, <2>1 DEF SelectedRows, ItemsOf, TaskItems, ProjectItems, TransferItems
    <3> QED  BY <1>1, <2>1, <3>1 DEF PanelInv, ListTab
  <2>2. CASE ~ListTab
    BY <1>1, <1>6, <2>2 DEF IInv, PanelInv, ListTab
  <2> QED  BY <2>1, <2>2
<1>13. TabTypes'
  <2>1. panel \subseteq Item /\ host \in Hosts \cup {NoHost}
    BY DEF IInv, TabTypes
  <2>2. ASSUME ListTab PROVE panel' \subseteq Item
    <3>1. ViewKnowsTheRows'
      BY <1>2, <1>3, <2>2 DEF Kept, ListTab
    <3>2. PICK R : R = {k \in 1..Len(view') : view'[k].selected}
      OBVIOUS
    <3>3. R \in SUBSET (1..Len(rows'))
      BY <1>3, <3>1, <3>2 DEF ViewKnowsTheRows
    <3>4. ItemsOf(R, rows', host) \subseteq Item
      BY <1>3, <2>1, <3>3, ItemsAreItems
    <3> QED  BY <1>1, <1>3, <2>2, <3>2, <3>4
  <2> QED  BY <1>1, <2>1, <2>2 DEF IInv, TabTypes
<1> QED  BY <1>3, <1>7, <1>8, <1>9, <1>10, <1>11, <1>12, <1>13 DEF IInv, Kept

-----------------------------------------------------------------------------
(* The invariant is inductive.                                             *)

LEMMA TabStutterInv == IInv /\ UNCHANGED vars => IInv'
<1> SUFFICES ASSUME IInv, UNCHANGED vars PROVE IInv'
  OBVIOUS
<1>1. /\ UNCHANGED updaterVars
      /\ UNCHANGED <<tab, selected, host, todo, panel, hasRows, question, sent, picked, updates>>
  BY DEF vars, tabVars
<1>2. MergeSound' /\ MergeIsExact' /\ RowsInv' /\ SelectionInv' /\ ViewInv' /\ QuestionInv'
  BY <1>1, ListSame, ViewSame
<1>3. PanelInv'
  <2>1. Idle' => Idle
    BY <1>1 DEF Idle, updaterVars
  <2> QED  BY <1>1, <2>1, PanelSame
<1>4. HandlerInv'
  BY <1>1 DEF IInv, updaterVars, HandlerInv, Settled, Selecting, Updating, Unselecting, ListTab
<1>5. TabTypes'
  <2>1. hasRows' \in BOOLEAN
    BY <1>1, Zenon DEF IInv, TabTypes
  <2> QED  BY <1>1, <2>1 DEF IInv, TabTypes
<1> QED  BY <1>2, <1>3, <1>4, <1>5 DEF IInv

LEMMA TabNextInv == IInv /\ [Next]_vars => IInv'
<1> SUFFICES ASSUME IInv, [Next]_vars PROVE IInv'
  OBVIOUS
<1>1. CASE UnselectHost \/ SendRows \/ \E h \in Hosts : SelectHost(h)
  BY <1>1, HandlerStepInv
<1>2. CASE HostChanged("host_selected") \/ HostChanged("host_unselected")
  BY <1>2, HostChangedInv
<1>3. CASE UpdateBegins
  BY <1>3, UpdateBeginsInv
<1>4. CASE UpdateRemoves
  BY <1>4, UpdateRemovesInv
<1>5. CASE UpdateWrites
  <2>1. Update \/ InsertNew
    BY <1>5 DEF UpdateWrites
  <2> QED  BY <1>5, <2>1, WriteInv, LeaveInv, PutInInv
<1>6. CASE UpdateEnds
  BY <1>6, UpdateEndsInv
<1>7. CASE \E S \in SUBSET (1..Len(rows)) : UserSelects(S)
  BY <1>7, UserSelectsInv
<1>8. CASE \E op \in {"suspend", "resume", "abort", "update"} : Click(op)
  BY <1>8, ClickInv
<1>9. CASE \E yes \in BOOLEAN : Answer(yes)
  BY <1>9, AnswerInv
<1>10. CASE UNCHANGED vars
  BY <1>10, TabStutterInv
<1> QED
  BY <1>1, <1>2, <1>3, <1>4, <1>5, <1>6, <1>7, <1>8, <1>9, <1>10 DEF Next

LEMMA TabSpecInv == Spec => []IInv
BY TabInitInv, TabNextInv, PTL DEF Spec

-----------------------------------------------------------------------------
(* The theorems.                                                           *)

\* Every reachable state of a tab is of its type.
THEOREM TypeCorrect == Spec => []TypeOK
<1>1. IInv => TypeOK
  <2> SUFFICES ASSUME IInv PROVE TypeOK
    OBVIOUS
  <2>1. Len(todo) <= 2
    BY DEF IInv, HandlerInv, Settled, Selecting, Updating, Unselecting
  <2>2. hasRows \in BOOLEAN
    BY Zenon DEF IInv, TabTypes
  <2>3. UpdaterTypeOK
    BY DEF IInv, MergeSound
  <2> QED  BY <2>1, <2>2, <2>3 DEF IInv, TabTypes, TypeOK
<1> QED  BY <1>1, TabSpecInv, PTL

\* Whatever lists, hosts and clicks come in between, a tab shows after each list exactly
\* its rows (the events: those and the latest before them); what of a task is not shown
\* may be older.
THEOREM TabMergesExactly == Spec => []MergeIsExact
<1>1. IInv => MergeIsExact
  BY DEF IInv
<1> QED  BY <1>1, TabSpecInv, PTL

\* The views of tasks, projects and transfers know exactly the rows that are there,
\* through every announcement of every list and every change of the host.
THEOREM ListsViewAlwaysKnowsTheRows == Spec => []ListsViewKnowsTheRows
<1>1. IInv => ListsViewKnowsTheRows
  BY DEF IInv, ViewInv, ListsViewKnowsTheRows
<1> QED  BY <1>1, TabSpecInv, PTL

\* For lists of any length and any number of them: what is selected is what the user
\* selected and has been in the list ever since; a transfer may lose the selection.
THEOREM SelectionStaysTheUsers == Spec => []SelectionIsTheUsers
<1>1. IInv => SelectionIsTheUsers
  <2> SUFFICES ASSUME IInv, ~merging PROVE SelectionIsTheUsers
    BY DEF SelectionIsTheUsers
  <2> DEFINE marked == {rows[k].key : k \in SelectedRows \cap 1..Len(rows)}
  <2>1. CASE tab = "events"
    <3>1. Chosen(view) = {} /\ picked = {}
      BY <2>1 DEF IInv, ViewInv
    <3>2. SelectedRows = {}
      BY <3>1 DEF Chosen, SelectedIn, SelectedRows
    <3>3. marked = {}
      BY <3>2
    <3> QED  BY <3>1, <3>3 DEF SelectionIsTheUsers
  <2>2. CASE tab # "events"
    <3>1. ViewKnowsTheRows /\ rows \in Seq(Row) /\ tab \in TabKinds
      BY <2>2, SoundTypes, TabIsOne DEF IInv, ViewInv
    <3>2. /\ SelectedRows \in SUBSET (1..Len(rows))
          /\ KeysOf(Chosen(view)) = {rows[k].key : k \in SelectedRows}
          /\ KeysOf(Chosen(view)) \subseteq Keys
      BY <3>1, ChosenOfKnown
    <3>3. SelectedRows \cap 1..Len(rows) = SelectedRows
      BY <3>2
    <3>4. marked = KeysOf(Chosen(view))
      BY <3>2, <3>3
    <3>5. Remaining = KeysOf(Chosen(view))
      BY <3>2 DEF Remaining
    <3> HIDE DEF marked
    <3>6. IF tab = "transfers" THEN marked \subseteq picked ELSE marked = picked
      BY <2>2, <3>1, <3>4, <3>5 DEF IInv, SelectionInv, ListTab, TabKinds
    <3> QED  BY <3>6 DEF marked, SelectionIsTheUsers
  <2> QED  BY <2>1, <2>2
<1> QED  BY <1>1, TabSpecInv, PTL

\* Between the signals the buttons act on the rows that are selected, of the host that
\* is shown, and for tasks and projects on what the list says of them now.
THEOREM PanelFollowsTheSelection == Spec => []PanelActsOnSelection
<1>1. IInv => PanelActsOnSelection
  <2> SUFFICES ASSUME IInv, Idle, tab # "events" PROVE PanelActsOnSelection
    BY DEF PanelActsOnSelection
  <2>1. ViewKnowsTheRows /\ Settled /\ rows \in Seq(Row) /\ tab \in TabKinds
    BY HandlerPlace, SoundTypes, TabIsOne DEF IInv, ViewInv
  <2>2. {i.key : i \in panel} = {rows[k].key : k \in SelectedRows}
    BY <2>1, PanelOfRows, ChosenOfKnown DEF KeysOf
  <2>3. \A i \in panel : i.host = selected
    BY <2>1, PanelOfRows DEF Settled
  <2>4. tab # "transfers" => panel = ItemsOf(SelectedRows, rows, host)
    BY <2>1 DEF IInv, PanelInv, ListTab, TabKinds
  <2> QED  BY <2>2, <2>3, <2>4 DEF PanelActsOnSelection
<1> QED  BY <1>1, TabSpecInv, PTL

\* An abort goes to what the user was asked about, on the host it was on, although the
\* list, the selection and the host may have changed while the question was open.
THEOREM OnlyTheConfirmedIsAborted == Spec => AbortsOnlyWhatWasConfirmed
<1> DEFINE Confirmed ==
      \A c \in sent' \ sent :
        c.op = "abort" => \E i \in question : i.key = c.item.key /\ i.host = c.item.host
<1>1. ASSUME IInv, [Next]_vars PROVE [Confirmed]_vars
  <2>1. CASE \E yes \in BOOLEAN : Answer(yes)
    BY <1>1, <2>1, AnswerIsConfirmed
  <2>2. CASE \E op \in {"suspend", "resume", "abort", "update"} : Click(op)
    <3>1. PICK op \in {"suspend", "resume", "abort", "update"} : Click(op)
      BY <2>2
    <3>2. CASE op = "abort"
      BY <3>1, <3>2 DEF Click
    <3>3. CASE op # "abort"
      <4>1. sent' = Sent(op)
        BY <3>1, <3>3 DEF Click
      <4>2. \A c \in Sent(op) : c.op = op
        BY DEF Sent, PanelSends, TransfersSend, Command
      <4> QED  BY <3>3, <4>1, <4>2
    <3> QED  BY <3>2, <3>3
  <2>3. CASE \E S \in SUBSET (1..Len(rows)) : UserSelects(S)
    BY <2>3 DEF UserSelects
  <2>4. CASE \/ UnselectHost \/ SendRows \/ \E h \in Hosts : SelectHost(h)
             \/ HostChanged("host_selected") \/ HostChanged("host_unselected")
             \/ UpdateBegins \/ UpdateRemoves \/ UpdateWrites \/ UpdateEnds
    <3>1. sent' = sent
      BY <2>4 DEF UnselectHost, SendRows, SelectHost, HostChanged, UpdateBegins, UpdateRemoves,
                  UpdateWrites, UpdateEnds, tabVars
    <3> QED  BY <3>1
  <2> QED  BY <1>1, <2>1, <2>2, <2>3, <2>4 DEF Next
<1>2. Spec => [][Confirmed]_vars
  BY <1>1, TabSpecInv, PTL DEF Spec
<1> QED  BY <1>2 DEF AbortsOnlyWhatWasConfirmed
=============================================================================
