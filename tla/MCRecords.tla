----------------------------- MODULE MCRecords -----------------------------
(* Small instances of RecordPipeline for TLC. *)
EXTENDS RecordPipeline, TLC

MCFields == {"a", "b", "x"}
MCNumerals == ("1" :> 1) @@ ("2" :> 2)
MCUnquoted == ("'q'" :> "q")

Doc(a, b) == <<[EmptyDict EXCEPT !["a"] = a, !["b"] = b]>>

\* A text of two words with blanks around it, a number; a text, nothing; a text, and a dict.
MCDocuments == << Doc(Text(<<"", "2", "'q'">>), Number(1)), Doc(Text(<<"'q'">>), None),
                  << [a |-> Missing, b |-> Text(<<"2">>), x |-> Dict(2)],
                     [EmptyDict EXCEPT !["a"] = Number(1)] >> >>

\* Scalars, and a dict x, which the steps themselves make if the document has none.
A == <<"a">>
B == <<"b">>
XA == <<"x", "a">>
MCMenu ==
  { [type |-> "extract", source |-> s, target |-> t] : s \in {A, B}, t \in {B, XA} } \cup
  { [type |-> "rename", source |-> s, target |-> t] : s \in {A, XA}, t \in {A, B, XA} } \cup
  { [type |-> "duplicate", source |-> XA, target |-> A],
    [type |-> "constant", target |-> B, value |-> Text(<<"1">>)],
    [type |-> "default", target |-> B, value |-> Number(2)],
    [type |-> "cast", target |-> A, to |-> "int"],
    [type |-> "cast", target |-> B, to |-> "str"],
    [type |-> "trim", target |-> A],
    [type |-> "lookup", source |-> B, target |-> B, table |-> (<<"1">> :> Text(<<"'q'">>)),
     keep |-> FALSE],
    [type |-> "concat", sources |-> <<A, B>>, target |-> XA],
    [type |-> "split", source |-> A, targets |-> <<B, XA>>],
    [type |-> "drop", target |-> A],
    [type |-> "filter", target |-> B, op |-> "exists", mode |-> "keep_if", value |-> None],
    [type |-> "filter", target |-> B, op |-> "gt", mode |-> "drop_if", value |-> Number(1)] }

MCFlat == [1..3 -> MCMenu]

\* A dict under two paths, and steps that change it through each of them.
X == <<"x">>
BA == <<"b", "a">>
MCChanges ==
  { [type |-> "drop", target |-> BA],
    [type |-> "cast", target |-> XA, to |-> "str"],
    [type |-> "rename", source |-> BA, target |-> A],
    [type |-> "duplicate", source |-> X, target |-> BA],
    [type |-> "split", source |-> A, targets |-> <<BA, XA>>] }
MCShared ==
  { <<[type |-> "constant", target |-> XA, value |-> Number(1)], share, first, second>> :
      share \in [type : {"duplicate", "extract"}, source : {X}, target : {B}],
      first \in MCChanges, second \in MCChanges }

\* A dict of the config, which each record has under b, or shares between b and x.
MCLiterals ==
  { <<[type |-> given, target |-> B,
       value |-> [tree |-> <<[EmptyDict EXCEPT !["a"] = Number(1), !["x"] = Dict(2)],
                             [EmptyDict EXCEPT !["a"] = Number(2)]>>]],
      first, second>> :
      given \in {"constant", "default"},
      first \in MCChanges \cup {[type |-> "extract", source |-> <<"b", "x">>, target |-> X]},
      second \in MCChanges }

\* Paths that lead through a scalar, at b, or through what the steps before made of it.
MCThrough ==
  { [type |-> "split", source |-> A, targets |-> <<B, BA>>],
    [type |-> "split", source |-> A, targets |-> <<BA, B>>],
    [type |-> "rename", source |-> B, target |-> BA],
    [type |-> "extract", source |-> A, target |-> BA],
    [type |-> "default", target |-> BA, value |-> Number(2)],
    [type |-> "trim", target |-> B],
    [type |-> "drop", target |-> BA],
    [type |-> "drop", target |-> B] }
MCCrossing == [1..3 -> MCThrough]

MCPipelines == MCFlat \cup MCShared \cup MCLiterals \cup MCCrossing
=============================================================================
