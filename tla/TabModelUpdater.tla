--------------------------- MODULE TabModelUpdater ---------------------------
(***************************************************************************)
(* update_tab_model (ui/qt/tabs/tab_model_updater.h): the rows of a table  *)
(* are turned into new ones by walking both lists at once, and every       *)
(* change is announced to the view, which keeps what it knows of the rows  *)
(* (its selection, the order it shows them in) by their number.            *)
(*                                                                         *)
(* Everything happens in one call in the GUI thread, but each announcement *)
(* runs the view's slots, so each one is an action.  What the view knows   *)
(* is `view', a sequence that is changed by the announcements only.        *)
(***************************************************************************)
EXTENDS Integers, Sequences

CONSTANTS
  Keys,     \* what the table is sorted by, as ranks in that order
  Values,   \* what else of a row is shown
  Hidden    \* what a row holds and the table does not show

ASSUME KeysAssumption == Keys \subseteq Int

Row == [key : Keys, value : Values, hidden : Hidden]

\* operator== of the rows: what is not shown is not compared (Task only; no other
\* kind of row holds anything that is not compared).
Same(a, b) == a.key = b.key /\ a.value = b.value

\* comp: negative, zero or positive.  Two tasks are compared by project and name,
\* two projects by name, two transfers by project and file.
Compare(a, b) == a.key - b.key

VARIABLES
  rows,   \* current_data
  new,    \* new_data
  ci,     \* current_data_iter, ni: new_data_iter, as positions from 1
  ni,
  merging,   \* update_tab_model is running
  view    \* the view: a row and whether it is selected, for each row announced

updaterVars == <<rows, new, ci, ni, merging, view>>

Cell == [row : Row, selected : BOOLEAN]

UpdaterInit ==
  /\ rows = <<>>
  /\ new = <<>>
  /\ ci = 1
  /\ ni = 1
  /\ merging = FALSE
  /\ view = <<>>

-----------------------------------------------------------------------------
(* Sequences of rows: n elements from position i on, taken out or put in.  *)

Cut(s, i, n) == [k \in 1..(Len(s) - n) |-> IF k < i THEN s[k] ELSE s[k + n]]

Insert(s, i, x) ==
  [k \in 1..(Len(s) + 1) |-> IF k < i THEN s[k] ELSE IF k = i THEN x ELSE s[k - 1]]

\* The new rows from position i on, as the view gets to know them.
Cells(s) == [k \in 1..Len(s) |-> [row |-> s[k], selected |-> FALSE]]

\* s with what t has beyond the length of s.
Extend(s, t) == [k \in 1..(IF Len(s) < Len(t) THEN Len(t) ELSE Len(s)) |->
                   IF k <= Len(s) THEN s[k] ELSE t[k]]

-----------------------------------------------------------------------------
(* The call.                                                               *)

\* Nothing new: all rows go at once.  An empty table announces nothing.
Clear(data) ==
  /\ ~merging
  /\ data = <<>>
  /\ rows' = <<>>
  /\ view' = IF rows = <<>> THEN view ELSE Cut(view, 1, Len(rows))
  /\ new' = data
  /\ UNCHANGED <<ci, ni, merging>>

Start(data) ==
  /\ ~merging
  /\ data # <<>>
  /\ new' = data
  /\ merging' = TRUE
  /\ ci' = 1
  /\ ni' = 1
  /\ UNCHANGED <<rows, view>>

Walking == merging /\ ci <= Len(rows) /\ ni <= Len(new)

\* do_remove's end_iter: all rows from ci on that are less than the new one.
RunLength(n) ==
  /\ n \in 1..(Len(rows) - ci + 1)
  /\ \A k \in ci..(ci + n - 1) : Compare(rows[k], new[ni]) < 0
  /\ ci + n <= Len(rows) => Compare(rows[ci + n], new[ni]) >= 0

\* Mutant: the announcement forgets that its last row is inclusive.
AnnouncedOneTooMany(n) ==
  /\ Walking
  /\ RunLength(n)
  /\ rows' = Cut(rows, ci, n)
  /\ view' = Cut(view, ci, IF ci + n <= Len(view) THEN n + 1 ELSE n)
  /\ UNCHANGED <<new, ci, ni, merging>>

Remove(n) ==
  /\ Walking
  /\ RunLength(n)
  /\ rows' = Cut(rows, ci, n)
  /\ view' = Cut(view, ci, n)
  /\ UNCHANGED <<new, ci, ni, merging>>

\* Mutant: a row that differs is taken out and put in again.
UpdateReplaces ==
  /\ Walking
  /\ Compare(rows[ci], new[ni]) = 0
  /\ IF Same(rows[ci], new[ni])
       THEN UNCHANGED <<rows, view>>
       ELSE /\ rows' = [rows EXCEPT ![ci] = new[ni]]
            /\ view' = [view EXCEPT ![ci] = [row |-> new[ni], selected |-> FALSE]]
  /\ ci' = ci + 1
  /\ ni' = ni + 1
  /\ UNCHANGED <<new, merging>>

\* The row is written, and dataChanged announced, only if it differs in what is shown:
\* else it keeps what is hidden as it was.
Update ==
  /\ Walking
  /\ Compare(rows[ci], new[ni]) = 0
  /\ IF Same(rows[ci], new[ni])
       THEN UNCHANGED <<rows, view>>
       ELSE /\ rows' = [rows EXCEPT ![ci] = new[ni]]
            /\ view' = [view EXCEPT ![ci].row = new[ni]]
  /\ ci' = ci + 1
  /\ ni' = ni + 1
  /\ UNCHANGED <<new, merging>>

\* Mutant: the iterator stays on the row that was put in.
InsertWithoutAdvance ==
  /\ Walking
  /\ Compare(rows[ci], new[ni]) > 0
  /\ rows' = Insert(rows, ci, new[ni])
  /\ view' = Insert(view, ci, [row |-> new[ni], selected |-> FALSE])
  /\ ni' = ni + 1
  /\ UNCHANGED <<new, ci, merging>>

InsertNew ==
  /\ Walking
  /\ Compare(rows[ci], new[ni]) > 0
  /\ rows' = Insert(rows, ci, new[ni])
  /\ view' = Insert(view, ci, [row |-> new[ni], selected |-> FALSE])
  /\ ci' = ci + 1
  /\ ni' = ni + 1
  /\ UNCHANGED <<new, merging>>

\* The new rows have ended: the remaining old ones go.
RemoveRest ==
  /\ merging
  /\ ci <= Len(rows)
  /\ ni > Len(new)
  /\ rows' = Cut(rows, ci, Len(rows) - ci + 1)
  /\ view' = Cut(view, ci, Len(rows) - ci + 1)
  /\ UNCHANGED <<new, ci, ni, merging>>

\* The old rows have ended: what is left of the new ones is appended, announced as
\* the rows from the old size to the new one.
Finish ==
  /\ merging
  /\ ci > Len(rows)
  /\ rows' = IF ni <= Len(new)
               THEN rows \o SubSeq(new, ni, Len(new))
               ELSE rows
  /\ view' = IF ni <= Len(new) THEN Extend(view, Cells(new)) ELSE view
  /\ merging' = FALSE
  /\ ci' = 1
  /\ ni' = 1
  /\ UNCHANGED new

MergeStep == (\E n \in 1..Len(rows) : Remove(n)) \/ Update \/ InsertNew \/ RemoveRest \/ Finish

-----------------------------------------------------------------------------
(* Alone, the function is called again and again with any list of rows, and *)
(* the user selects rows between two calls.                                 *)

Select(S) ==
  /\ ~merging
  /\ view' = [k \in 1..Len(view) |-> [view[k] EXCEPT !.selected = k \in S]]
  /\ UNCHANGED <<rows, new, ci, ni, merging>>

UpdaterNext ==
  \/ \E data \in Seq(Row) : Clear(data) \/ Start(data)
  \/ MergeStep
  \/ \E S \in SUBSET (1..Len(view)) : Select(S)

UpdaterSpec == UpdaterInit /\ [][UpdaterNext]_updaterVars

-----------------------------------------------------------------------------

UpdaterTypeOK ==
  /\ rows \in Seq(Row)
  /\ new \in Seq(Row)
  /\ view \in Seq(Cell)
  /\ ci \in Nat \ {0}
  /\ ni \in Nat \ {0}
  /\ merging \in BOOLEAN

\* The view knows exactly the rows that are there, after every announcement: a
\* row number it asks for exists (the assertions on the row in data() of the tabs).
ViewKnowsTheRows ==
  /\ Len(view) = Len(rows)
  /\ \A k \in 1..Len(rows) : view[k].row = rows[k]

\* After the call the table shows the new rows, no more and no less, in whatever order
\* the lists were (the assertion at the end of update_tab_model claims the number
\* only).  What a row holds and does not show may be older: see Update.
MergeIsExact ==
  ~merging => /\ Len(rows) = Len(new)
              /\ \A k \in 1..Len(rows) : Same(rows[k], new[k])

\* Why that is so: the rows before the iterators show the new ones already, and the
\* iterators never part.
MergeInvariant ==
  merging => /\ ci = ni
             /\ ci <= Len(rows) + 1
             /\ ni <= Len(new) + 1
             /\ \A k \in 1..(ci - 1) : Same(rows[k], new[k])

==============================================================================
