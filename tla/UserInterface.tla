--------------------------- MODULE UserInterface ---------------------------
(***************************************************************************)
(* One browser tab on the pages of the UI (pages.py, layout.py).  Each     *)
(* link builds its page anew, with a state and widgets of its own, so that *)
(* a behaviour is on one page, from its opening until it is left.          *)
(***************************************************************************)
EXTENDS DataPage

CONSTANTS MaxSteps, Types, Fields, JsonFields, Values, EmptyObject, Empty, Garbled, Defaults
CONSTANTS Asks, Choices, Unchosen, Spinner

VARIABLES
  tab,                                \* the page
  steps, sent,                        \* the builder's
  kind, chosen, column, asks, asked   \* those of lineage, preview and runs

builder == <<steps, sent>>
results == <<kind, chosen, column, asks, asked>>
everything == <<vars, tab, builder, results>>

Build == INSTANCE Builder
Results == INSTANCE ResultPages

ASSUME BuilderOK == Build!BuilderAssumption
ASSUME ResultsOK == Results!ResultsAssumption

\* Of the pages that are not open, the state is that of their opening.
TabInit ==
  /\ tab \in {"data", "builder", "results"}
  /\ Init /\ Build!Init /\ Results!Init
  /\ tab # "data" => raw = [s \in RawSources |-> [k \in Keys |-> None]]
  /\ tab # "results" => kind = "runs" /\ chosen = CHOOSE c \in Choices : TRUE

TabNext ==
  \/ tab = "data" /\ Next /\ UNCHANGED <<tab, builder, results>>
  \/ tab = "builder" /\ Build!Next /\ UNCHANGED <<tab, vars, results>>
  \/ tab = "results" /\ Results!Next /\ UNCHANGED <<tab, vars, builder>>

TabSpec == TabInit /\ [][TabNext]_everything

-----------------------------------------------------------------------------
(* Properties: those of the Data page, and of the others. *)

\* What DataPage, Builder and ResultPages say of their types.
PagesTypeOK == TypeOK /\ Build!TypeOK /\ Results!TypeOK

\* A step is posted with what was typed into its form, as far as that was collected
\* before the form was drawn anew: see Builder.
TypedIsSaved == Build!TypedIsSaved

\* A column shows the answer to the last call, if that overlapped no other: see
\* ResultPages.
AnswersStand == Results!AnswersStand
=============================================================================
