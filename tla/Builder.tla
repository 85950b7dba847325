------------------------------ MODULE Builder ------------------------------
(***************************************************************************)
(* One client of the Pipeline Builder page (pages.py, forms.py): a list of *)
(* steps, each with a form that is drawn from the schema of its type.      *)
(*                                                                         *)
(* What the user types is in the widgets only, until _snapshot collects    *)
(* each form into its step's config; drawing the list makes all the        *)
(* widgets anew, from the configs.  Every handler runs without a           *)
(* suspension up to the POST of save, whose outcome the page keeps nothing *)
(* of.  A required field is a field without a default.                     *)
(***************************************************************************)
EXTENDS Naturals, SequencesExt

CONSTANTS
  MaxSteps,     \* bound: steps of a pipeline
  Types,        \* step types, with a form each
  Fields,       \* the properties of their schemas
  JsonFields,   \* those drawn as a JSON textarea
  Values,       \* values of fields
  EmptyObject,  \* the JSON value {}
  Empty,        \* an empty widget; a field that a config has not
  Garbled,      \* a text that is no JSON
  Defaults      \* of each type, what the schema gives its fields

\* Assumed by UserInterface.
BuilderAssumption ==
  /\ MaxSteps \in Nat
  /\ JsonFields \subseteq Fields
  /\ Empty \notin Values /\ Garbled \notin Values /\ Empty # Garbled
  /\ EmptyObject \in Values
  /\ Defaults \in [Types -> [Fields -> Values \cup {Empty}]]

VARIABLES
  steps,  \* state.steps, each with its config and its form; as history, what was last
          \* typed into each field, which fields have been typed into since the form
          \* was collected, and what had been typed when it was
  sent    \* history: the steps save has just posted, and what was meant by them

vars == <<steps, sent>>

Configs == [Fields -> Values \cup {Empty}]
Forms == {form \in [Fields -> Values \cup {Empty, Garbled}] :
            \A f \in Fields : form[f] \in {Garbled, EmptyObject} => f \in JsonFields}

-----------------------------------------------------------------------------
(* forms.py. *)

\* Each field is filled with its value in the config, or with the default.
Drawn(type, config) ==
  [f \in Fields |->
     LET value == IF config[f] # Empty THEN config[f] ELSE Defaults[type][f]
     IN IF value = EmptyObject THEN Empty ELSE value]

Parses(form) == \A f \in Fields : form[f] # Garbled

\* Mutant: a text that does not parse is collected as it is.
CollectedRaw(step) ==
  [step EXCEPT !.config = step.form, !.kept = step.typed, !.fresh = {}]

\* collect leaves out the empty fields.  If one field does not parse it raises, and
\* the step keeps the config that it had.
Collected(step) ==
  IF Parses(step.form)
  THEN [step EXCEPT !.config = step.form, !.kept = step.typed, !.fresh = {}] ELSE step

-----------------------------------------------------------------------------
(* pages.py. *)

\* _snapshot, and render_steps.
Snapshot(list) == [i \in DOMAIN list |-> Collected(list[i])]
Render(list) == [i \in DOMAIN list |-> [list[i] EXCEPT !.form = Drawn(list[i].type, list[i].config)]]

\* History: text that is not collected before its form is drawn anew is gone, and the
\* user sees what the form shows instead.
Dropped(list) ==
  [i \in DOMAIN list |->
     [list[i] EXCEPT !.fresh = {},
        !.typed = [f \in Fields |-> IF f \in list[i].fresh
                                    THEN Drawn(list[i].type, list[i].config)[f]
                                    ELSE list[i].typed[f]]]]

Redraw(list) == Render(Dropped(Snapshot(list)))

Init == steps = <<>> /\ sent = <<>>

\* The user changes a widget.
Type(i, f, text) ==
  /\ text \in {Garbled, EmptyObject} => f \in JsonFields
  /\ LET step == steps[i]
     IN steps' = [steps EXCEPT ![i] = [step EXCEPT !.form = [step.form EXCEPT ![f] = text],
                                                   !.typed = [step.typed EXCEPT ![f] = text],
                                                   !.fresh = step.fresh \cup {f}]]
  /\ sent' = <<>>

\* add_step takes no snapshot.
AddStep(type) ==
  /\ Len(steps) < MaxSteps
  /\ LET blank == [f \in Fields |-> Empty]
         step == [type |-> type, config |-> blank, form |-> Drawn(type, blank),
                  typed |-> Drawn(type, blank), fresh |-> {}, kept |-> Drawn(type, blank)]
     IN steps' = Append(Render(Dropped(steps)), step)
  /\ sent' = <<>>

\* Mutant: move draws the list without a snapshot.
MoveUnsnapshotted(i, j) ==
  /\ j \in DOMAIN steps /\ (j = i + 1 \/ i = j + 1)
  /\ steps' = Render([steps EXCEPT ![i] = steps[j], ![j] = steps[i]])
  /\ sent' = <<>>

\* move, one place up or down.
Move(i, j) ==
  /\ j \in DOMAIN steps /\ (j = i + 1 \/ i = j + 1)
  /\ LET kept == Redraw(steps)
     IN steps' = [kept EXCEPT ![i] = kept[j], ![j] = kept[i]]
  /\ sent' = <<>>

RemoveStep(i) ==
  /\ steps' = RemoveAt(Redraw(steps), i)
  /\ sent' = <<>>

\* save: the forms stay as they are, and their configs are posted.
Save ==
  /\ steps' = Snapshot(steps)
  /\ sent' = [i \in DOMAIN steps' |->
                [type |-> steps'[i].type, config |-> steps'[i].config,
                 meant |-> IF Parses(steps[i].form) THEN steps[i].typed ELSE steps[i].kept]]

Next ==
  \/ \E i \in DOMAIN steps :
       \/ \E f \in Fields, text \in Values \cup {Empty, Garbled} : Type(i, f, text)
       \/ \E j \in DOMAIN steps : Move(i, j)
       \/ RemoveStep(i)
  \/ \E type \in Types : AddStep(type)
  \/ Save

Spec == Init /\ [][Next]_vars

-----------------------------------------------------------------------------
(* Properties. *)

\* The steps are within their bound; a config holds values, whatever was typed.
TypeOK ==
  /\ steps \in Seq([type : Types, config : Configs, form : Forms, typed : Forms,
                    fresh : SUBSET Fields, kept : Configs])
  /\ Len(steps) <= MaxSteps
  /\ \A i \in DOMAIN sent : sent[i].config \in Configs

\* What the API makes of a step's fields: those that are absent have their defaults.
\* An empty object is drawn as an empty field, and so is as good as none.
Meaning(type, fields) ==
  [f \in Fields |->
     IF fields[f] \in {Empty, EmptyObject} THEN Defaults[type][f] ELSE fields[f]]

\* "Schema-driven step forms, reorder, save a pipeline" (README): whatever is typed,
\* added, moved and removed, a step whose form parses is posted with what was last typed
\* into each of its fields or, in a field whose text add_step or a form that did not
\* parse has dropped since, with what the form has shown in its place.  A step whose form
\* does not parse is posted as when it last did.  What is absent, empty or an empty
\* object stands for the default of its field.
TypedIsSaved ==
  \A i \in DOMAIN sent :
     Meaning(sent[i].type, sent[i].config) = Meaning(sent[i].type, sent[i].meant)
=============================================================================
