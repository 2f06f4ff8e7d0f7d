---------------------------- MODULE AccountName ----------------------------
(***************************************************************************)
(* Naming an account in its row: AccountNameCell of frontend/components/   *)
(* tables.tsx, with renameAccount of dashboard.tsx and name_account of the *)
(* API behind it.                                                          *)
(*                                                                         *)
(* `stored' is the name the API holds, `shown' the one in the cached row.  *)
(* `leaving' says that the form is being removed while its input has the   *)
(* focus: browsers differ in whether the input loses it with an event.     *)
(* `flying' are the requests without an answer.                            *)
(***************************************************************************)
EXTENDS Naturals, Sequences

CONSTANTS
  Names,     \* the trimmed names, the empty one among them
  MaxEdits   \* bound on how often the form is opened, and on the changes elsewhere
ASSUME NamesAssumption == Names # {} /\ MaxEdits \in Nat

VARIABLES stored, shown, editing, draft, saving, skipSave, savingRef, leaving, flying,
          opened,      \* the name the form was opened with
          typed,       \* it was typed in since
          abandoned,   \* the last form was left with Escape
          edits, others
nameVars == <<stored, shown, editing, draft, saving, skipSave, savingRef, leaving, flying,
              opened, typed, abandoned, edits, others>>
Edit == <<editing, draft, saving, skipSave, savingRef, leaving>>
Past == <<opened, typed, abandoned>>

NameInit ==
  /\ stored \in Names /\ shown = stored /\ draft = shown /\ opened = shown
  /\ editing = FALSE /\ saving = FALSE /\ skipSave = FALSE /\ savingRef = FALSE
  /\ leaving = FALSE /\ flying = <<>> /\ typed = FALSE /\ abandoned = FALSE
  /\ edits = 0 /\ others = 0

\* "Rename" or "Add a name".
Open ==
  /\ ~editing /\ ~leaving /\ edits < MaxEdits
  /\ savingRef' = FALSE /\ draft' = shown /\ editing' = TRUE
  /\ opened' = shown /\ typed' = FALSE /\ abandoned' = FALSE /\ edits' = edits + 1
  /\ UNCHANGED <<stored, shown, saving, skipSave, leaving, flying, others>>
\* The input is disabled while a save is under way.
Type ==
  /\ editing /\ ~saving /\ \E name \in Names : draft' = name
  /\ typed' = TRUE
  /\ UNCHANGED <<stored, shown, editing, saving, skipSave, savingRef, leaving, flying,
                 opened, abandoned, edits, others>>

\* Mutant: a save under way does not keep another one from starting.
SaveAgain ==
  \/ /\ skipSave /\ skipSave' = FALSE
     /\ UNCHANGED <<editing, saving, savingRef, flying>>
  \/ /\ ~skipSave /\ draft = shown /\ editing' = FALSE
     /\ UNCHANGED <<saving, skipSave, savingRef, flying>>
  \/ /\ ~skipSave /\ draft # shown
     /\ savingRef' = TRUE /\ saving' = TRUE /\ flying' = Append(flying, draft)
     /\ UNCHANGED <<editing, skipSave>>
\* save(): a save skipped once, a save under way, nothing to save, a request.
Save ==
  \/ /\ skipSave /\ skipSave' = FALSE
     /\ UNCHANGED <<editing, saving, savingRef, flying>>
  \/ /\ ~skipSave /\ savingRef /\ UNCHANGED <<editing, saving, skipSave, savingRef, flying>>
  \/ /\ ~skipSave /\ ~savingRef /\ draft = shown /\ editing' = FALSE
     /\ UNCHANGED <<saving, skipSave, savingRef, flying>>
  \/ /\ ~skipSave /\ ~savingRef /\ draft # shown
     /\ savingRef' = TRUE /\ saving' = TRUE /\ flying' = Append(flying, draft)
     /\ UNCHANGED <<editing, skipSave>>
Saves == Save /\ UNCHANGED <<stored, shown, draft, Past, edits, others>>
Enter == editing /\ ~saving /\ Saves /\ leaving' = (editing' = FALSE)
Blur == editing /\ Saves /\ UNCHANGED leaving
\* Mutant: Escape closes the form without a word to the loss of the focus.
EscapeOnly ==
  /\ editing /\ ~saving
  /\ editing' = FALSE /\ leaving' = TRUE /\ abandoned' = TRUE
  /\ UNCHANGED <<stored, shown, draft, saving, skipSave, savingRef, flying, opened, typed, edits, others>>
Escape ==
  /\ editing /\ ~saving
  /\ skipSave' = TRUE /\ editing' = FALSE /\ leaving' = TRUE /\ abandoned' = TRUE
  /\ UNCHANGED <<stored, shown, draft, saving, savingRef, flying, opened, typed, edits, others>>
\* The focus is lost with the form, with an event or without.
BlurLast == leaving /\ leaving' = FALSE /\ Saves
NoBlur == leaving /\ leaving' = FALSE /\ UNCHANGED <<stored, shown, editing, draft, saving,
            skipSave, savingRef, flying, Past, edits, others>>

\* The API stores the name and the rows are fetched again, or it refuses and
\* an alert says so: either way the form is closed.
Close == editing' = FALSE /\ saving' = FALSE
Renamed ==
  /\ flying # <<>> /\ stored' = Head(flying) /\ shown' = stored' /\ flying' = Tail(flying)
  /\ Close /\ UNCHANGED <<draft, skipSave, savingRef, leaving, Past, edits, others>>
Refused ==
  /\ flying # <<>> /\ flying' = Tail(flying)
  /\ Close /\ UNCHANGED <<stored, shown, draft, skipSave, savingRef, leaving, Past, edits, others>>

\* Another administrator names the account, and the rows are fetched again.
NamedElsewhere ==
  /\ others < MaxEdits /\ others' = others + 1 /\ stored' \in Names
  /\ UNCHANGED <<shown, Edit, flying, Past, edits>>
RowsFetched ==
  /\ shown # stored /\ ~leaving /\ shown' = stored
  /\ UNCHANGED <<stored, Edit, flying, Past, edits, others>>

NameNext ==
  \/ ~leaving /\ (Open \/ Type \/ Enter \/ Blur \/ Escape)
  \/ BlurLast \/ NoBlur \/ Renamed \/ Refused \/ NamedElsewhere \/ RowsFetched
NameSpec == NameInit /\ [][NameNext]_nameVars

-----------------------------------------------------------------------------
\* The types of the cell's state.
NameTypeOK ==
  /\ {stored, shown, draft, opened} \subseteq Names
  /\ {editing, saving, skipSave, savingRef, leaving, typed, abandoned} \subseteq BOOLEAN
  /\ flying \in Seq(Names) /\ edits \in 0..MaxEdits /\ others \in 0..MaxEdits

\* Enter, the loss of the focus it causes and the next opening of the form
\* never have two renames of one account under way (savingRef).
OneSaveAtATime == Len(flying) <= 1

\* Only what was typed and not given up is sent: not what was left with
\* Escape, whether or not the browser reports that the removed input lost the
\* focus (skipSave), and not a form that is left as it was opened, as long as
\* the row under it keeps its name.
OnlyEditsAreSent ==
  [][Len(flying') > Len(flying) => ~abandoned /\ (typed \/ shown # opened)]_nameVars
=============================================================================
