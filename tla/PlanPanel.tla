------------------------------ MODULE PlanPanel ------------------------------
(***************************************************************************)
(* The dashboard's tab for plans (apps/dashboard/src/App.tsx): the table,  *)
(* the modal that adds or edits a plan, and the buttons that delete one.   *)
(* The administrator is signed in throughout.                              *)
(*                                                                         *)
(* One pair of state variables serves every use of the modal, and its      *)
(* button stays enabled while a request is on its way: answers to earlier  *)
(* requests come back to a modal that was closed, or opened for another    *)
(* plan.  The modal covers the table.                                      *)
(***************************************************************************)
CONSTANTS Plans, NewPlan, Prices, NotSold

VARIABLES
  list,      \* plans in the table
  lists,     \* answers to fetchPlans on their way
  isOpen,    \* isPlanModalOpen
  editing,   \* id of editingPlan; NewPlan for null
  opened     \* history: what the modal was last opened for

panelVars == <<list, lists, isOpen, editing, opened>>

Catalogs == [Plans -> Prices \cup {NotSold}]

TypeOK ==
  /\ list \in Catalogs
  /\ lists \subseteq Catalogs
  /\ isOpen \in BOOLEAN
  /\ editing \in Plans \cup {NewPlan}
  /\ opened \in Plans \cup {NewPlan}

Init ==
  /\ list = [p \in Plans |-> NotSold]
  /\ lists = {}
  /\ isOpen = FALSE
  /\ editing = NewPlan
  /\ opened = NewPlan

\* fetchPlans, by the timer or by a handler; the gateway answers with catalog.
FetchPlans(catalog) == lists' = lists \cup {catalog}

\* Mutant: the table is left alone while the modal is open.
PollWhenClosed(catalog) ==
  /\ ~isOpen
  /\ FetchPlans(catalog)
  /\ UNCHANGED <<list, isOpen, editing, opened>>

Poll(catalog) ==
  /\ FetchPlans(catalog)
  /\ UNCHANGED <<list, isOpen, editing, opened>>

\* An answer is shown, whatever was asked after it.
ShowPlans(catalog) ==
  /\ catalog \in lists
  /\ lists' = lists \ {catalog}
  /\ list' = catalog
  /\ UNCHANGED <<isOpen, editing, opened>>

\* "+ Add Package" and "Edit".
OpenFor(target) ==
  /\ ~isOpen
  /\ isOpen' = TRUE
  /\ editing' = target
  /\ opened' = target
  /\ UNCHANGED <<list, lists>>

AddPackage == OpenFor(NewPlan)

EditPackage(p) ==
  /\ list[p] # NotSold
  /\ OpenFor(p)

Cancel ==
  /\ isOpen
  /\ isOpen' = FALSE
  /\ UNCHANGED <<list, lists, editing, opened>>

\* handleSavePlan up to its await: what the request is about.
CanSave(target) == isOpen /\ target = editing

\* Mutant: the modal is left to whoever opened it, but its plan is reset.
SavedLeavingOpen(catalog) ==
  /\ FetchPlans(catalog)
  /\ editing' = NewPlan
  /\ UNCHANGED <<list, isOpen, opened>>

\* The rest of handleSavePlan: the modal closes, whatever it is open for.
Saved(catalog) ==
  /\ isOpen' = FALSE
  /\ editing' = NewPlan
  /\ FetchPlans(catalog)
  /\ UNCHANGED <<list, opened>>

\* handleDeletePlan, confirmed, up to its await, and the rest of it.
CanDelete(p) == ~isOpen /\ list[p] # NotSold

Deleted(catalog) == Poll(catalog)

\* What the modal saves is what it was opened for: an edit never turns into a
\* new plan or into an edit of another one.
ModalIsWhatWasOpened == isOpen => editing = opened

=============================================================================
