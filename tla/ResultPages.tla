---------------------------- MODULE ResultPages ----------------------------
(***************************************************************************)
(* One client of the Lineage, Preview or Runs page (pages.py): a choice,   *)
(* and a column for what was asked about it.                               *)
(*                                                                         *)
(* Each press of the button is a coroutine that suspends at its call of    *)
(* the API, with nothing to keep a second one from starting.  A call that  *)
(* is not answered raises what the handlers do not catch.  Run & Commit    *)
(* only notifies, and is left out.                                         *)
(***************************************************************************)
EXTENDS Naturals, Sequences, FiniteSets

CONSTANTS
  Asks,     \* bound: calls in flight at once
  Choices,  \* a target id, or a pipeline
  Unchosen, \* the select is empty
  Spinner

\* Assumed by UserInterface.
ResultsAssumption == Unchosen \notin Choices /\ Spinner \notin Choices /\ IsFiniteSet(Asks)

VARIABLES
  kind,    \* which of the pages
  chosen,  \* target_id.value, pipeline_sel.value
  column,  \* what result or holder has: answers, each of a choice, or a spinner
  asks,    \* the calls: idle, or the choice that they are about
  asked    \* history: the last choice asked about, whether that call overlapped no
           \* other, and whether a call has died since

vars == <<kind, chosen, column, asks, asked>>

Idle == {a \in Asks : asks[a] = Unchosen}
InFlight == Asks \ Idle

\* The Runs page asks by itself, and once.
Init ==
  /\ kind \in {"lineage", "preview", "runs"}
  /\ chosen \in IF kind = "preview" THEN {Unchosen} ELSE Choices
  /\ column = <<>>
  /\ asks = [a \in Asks |-> Unchosen]
  /\ asked = [last |-> Unchosen, alone |-> FALSE, died |-> FALSE]

Choose(c) ==
  /\ kind # "runs"
  /\ c # chosen
  /\ chosen' = c
  /\ UNCHANGED <<kind, column, asks, asked>>

\* load, do_preview: before the await.
Press(a) ==
  /\ a \in Idle
  /\ kind = "runs" => asked.last = Unchosen
  /\ chosen # Unchosen
  /\ column' = IF kind = "preview" THEN <<Spinner>> ELSE <<>>
  /\ asks' = [asks EXCEPT ![a] = chosen]
  /\ asked' = [last |-> chosen, alone |-> InFlight = {}, died |-> FALSE]
  /\ UNCHANGED <<kind, chosen>>

\* do_preview without a pipeline clears the column, and warns.
PressUnchosen ==
  /\ kind = "preview" /\ chosen = Unchosen
  /\ column' = <<>>
  /\ UNCHANGED <<kind, chosen, asks, asked>>

\* Mutant: do_preview leaves what was there when the call fails.
AnswerUnderSpinner(a) ==
  /\ a \in InFlight
  /\ column' \in {Append(column, asks[a]),
                 IF kind = "preview" THEN <<asks[a]>> ELSE Append(column, asks[a])}
  /\ asks' = [asks EXCEPT ![a] = Unchosen]
  /\ UNCHANGED <<kind, chosen, asked>>

\* After the await, with an answer or an ApiError, which is drawn in its place:
\* do_preview clears the column again.
Answer(a) ==
  /\ a \in InFlight
  /\ column' = IF kind = "preview" THEN <<asks[a]>> ELSE Append(column, asks[a])
  /\ asks' = [asks EXCEPT ![a] = Unchosen]
  /\ UNCHANGED <<kind, chosen, asked>>

Dies(a) ==
  /\ a \in InFlight
  /\ asks' = [asks EXCEPT ![a] = Unchosen]
  /\ asked' = [asked EXCEPT !.died = TRUE]
  /\ UNCHANGED <<kind, chosen, column>>

Next ==
  \/ \E c \in Choices : Choose(c)
  \/ \E a \in Asks : Press(a) \/ Answer(a) \/ Dies(a)
  \/ PressUnchosen

Spec == Init /\ [][Next]_vars

-----------------------------------------------------------------------------
(* Properties. *)

\* Every variable holds a value of its kind, and the column no more than one entry for
\* each call.
TypeOK ==
  /\ kind \in {"lineage", "preview", "runs"}
  /\ chosen \in Choices \cup {Unchosen}
  /\ column \in Seq(Choices \cup {Spinner})
  /\ Len(column) <= Cardinality(Asks)
  /\ asks \in [Asks -> Choices \cup {Unchosen}]
  /\ asked \in [last : Choices \cup {Unchosen}, alone : BOOLEAN, died : BOOLEAN]

\* "handles loading/error/empty states explicitly" (pages.py): a preview shows one thing
\* at a time, and once every call is answered one answer, and no spinner.  What was asked
\* by a press that overlapped no other is what the column then shows, and all of it.
\* Of a call that is never answered it says nothing, nor of a lineage whose calls have
\* overlapped: the code leaves a spinner, or two records.
AnswersStand ==
  /\ kind = "preview" => Len(column) <= 1
  /\ (InFlight = {} /\ asked.last # Unchosen /\ ~asked.died) =>
       /\ kind = "preview" => Len(column) = 1 /\ column[1] # Spinner
       /\ asked.alone => column = <<asked.last>>
=============================================================================
