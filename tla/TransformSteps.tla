--------------------------- MODULE TransformSteps ---------------------------
(***************************************************************************)
(* The twelve built-in transform steps (steps.py), as functions of the     *)
(* heap, the working record in it and the step's config.                   *)
(*                                                                         *)
(* A step yields the heap after it, the lineage it emits and whether it    *)
(* drops the record, or Raised.  Notes and messages are left out.          *)
(***************************************************************************)
EXTENDS RecordPaths

CONSTANTS
  Numerals,  \* the words that are numbers: word -> Nat
  Unquoted   \* the words in quotes: word -> what is between them

\* A literal that is a dict is given as a document, and is one dict for the whole run.
HasTree(c) == c.type \in {"constant", "default"} /\ "tree" \in DOMAIN c.value

\* What the config models of the steps accept.
IsConfig(c) ==
  /\ c.type \in {"extract", "rename", "duplicate", "constant", "default", "cast", "trim",
                 "lookup", "concat", "split", "drop", "filter"}
  /\ c.type # "split" => c.target \in DotPaths
  /\ c.type \in {"extract", "rename", "duplicate", "lookup", "split"} => c.source \in DotPaths
  /\ c.type = "concat" => c.sources \in Seq(DotPaths) \ {<<>>}
  /\ c.type = "split" => c.targets \in Seq(DotPaths) \ {<<>>}
  /\ c.type \in {"constant", "default"} =>
       /\ DOMAIN c = {"type", "target", "value"}
       /\ IF HasTree(c) THEN IsDocument(c.value.tree) ELSE ~IsDict(c.value)
  /\ c.type = "lookup" => \A w \in DOMAIN c.table : ~IsDict(c.table[w])

Raised == [raised |-> TRUE]

\* TransformStep._entry
Entry(c, sources, path, before, after) ==
  [type |-> c.type, sources |-> sources, target |-> path, before |-> before, after |-> after]

Result(heap, lineage) == [heap |-> heap, lineage |-> lineage, dropped |-> FALSE]

\* What most steps end with: one field set, one entry.
Assign(heap, record, c, sources, after) ==
  Result(set_path(heap, record, c.target, after),
         <<Entry(c, sources, c.target, get_path(heap, record, c.target), after)>>)

\* str(value): a number is written as its word, None and a dict as one of theirs.
Words(v) ==
  IF IsText(v) THEN v.text
  ELSE IF IsNumber(v) THEN <<CHOOSE w \in DOMAIN Numerals : Numerals[w] = v.number>>
  ELSE IF v = None THEN <<"None">> ELSE <<"{}">>

-----------------------------------------------------------------------------

ExtractStep(heap, record, c) ==
  Assign(heap, record, c, <<c.source>>, get_path(heap, record, c.source))

\* Mutant: the entry does not say where the value came from.
RenameStepSilent(heap, record, c) ==
  LET value == get_path(heap, record, c.source)
      before == get_path(heap, record, c.target)
  IN Result(set_path(delete_path(heap, record, c.source), record, c.target, value),
            <<Entry(c, <<>>, c.target, before, value)>>)

\* The source goes first, then the target is set, to None if there was no source.
RenameStep(heap, record, c) ==
  LET value == get_path(heap, record, c.source)
      before == get_path(heap, record, c.target)
  IN Result(set_path(delete_path(heap, record, c.source), record, c.target, value),
            <<Entry(c, <<c.source>>, c.target, before, value)>>)

DuplicateStep(heap, record, c) ==
  Assign(heap, record, c, <<c.source>>, get_path(heap, record, c.source))

ConstantStep(heap, record, c) == Assign(heap, record, c, <<>>, c.value)

\* Only if the field is missing or None; an entry says so either way.
DefaultStep(heap, record, c) ==
  LET current == get_path(heap, record, c.target)
  IN IF current # None
     THEN Result(heap, <<Entry(c, <<>>, c.target, current, current)>>)
     ELSE Assign(heap, record, c, <<>>, c.value)

\* None stays None, whatever it is cast to.
Coerce(v, to) ==
  CASE v = None -> None
    [] to = "str" -> Text(Words(v))
    [] to = "int" /\ IsNumber(v) -> v
    [] to = "int" /\ IsText(v) /\ Len(v.text) = 1 /\ v.text[1] \in DOMAIN Numerals ->
         Number(Numerals[v.text[1]])
    [] OTHER -> Raised

CastStep(heap, record, c) ==
  LET after == Coerce(get_path(heap, record, c.target), c.to)
  IN IF after = Raised THEN Raised ELSE Assign(heap, record, c, <<c.target>>, after)

\* strip(): an empty word is a blank at either end.
Strip(words) ==
  LET inner == {i \in DOMAIN words : words[i] # ""}
  IN IF inner = {} THEN <<"">> ELSE SubSeq(words, Min(inner), Max(inner))

TrimStep(heap, record, c) ==
  LET before == get_path(heap, record, c.target)
      bare == Strip(before.text)
      after == IF ~IsText(before) THEN before
               ELSE IF Len(bare) = 1 /\ bare[1] \in DOMAIN Unquoted
                    THEN Text(<<Unquoted[bare[1]]>>) ELSE Text(bare)
  IN Assign(heap, record, c, <<c.target>>, after)

LookupStep(heap, record, c) ==
  LET value == get_path(heap, record, c.source)
      after == IF Words(value) \in DOMAIN c.table THEN c.table[Words(value)]
               ELSE IF c.keep THEN value ELSE None
  IN Assign(heap, record, c, <<c.source>>, after)

\* skip_none: what is missing leaves no trace; joining nothing gives the empty text.
ConcatStep(heap, record, c) ==
  LET values == [i \in DOMAIN c.sources |-> get_path(heap, record, c.sources[i])]
      parts == SelectSeq(values, LAMBDA v : v # None)
      joined == FlattenSeq([i \in DOMAIN parts |-> Words(parts[i])])
  IN Assign(heap, record, c, c.sources, Text(IF parts = <<>> THEN <<"">> ELSE joined))

\* The text for the i-th target of a split: None when there are too few parts.
Part(value, i) ==
  LET parts == IF value = None THEN <<>> ELSE Words(value)
  IN IF i <= Len(parts) THEN Text(<<parts[i]>>) ELSE None

\* The heap as each of the targets of a split is set, and before.
SplitHeaps(heap, record, c, value) ==
  LET heaps[n \in 0..Len(c.targets)] ==
        IF n = 0 THEN heap ELSE set_path(heaps[n-1], record, c.targets[n], Part(value, n))
  IN heaps

\* Mutant: before_value is read after the field has been set.
SplitStepLate(heap, record, c) ==
  LET value == get_path(heap, record, c.source)
      heaps == SplitHeaps(heap, record, c, value)
  IN Result(heaps[Len(c.targets)],
            [i \in DOMAIN c.targets |->
               Entry(c, <<c.source>>, c.targets[i],
                     get_path(heaps[i], record, c.targets[i]), Part(value, i))])

\* One target after the other, an entry for each.
SplitStep(heap, record, c) ==
  LET value == get_path(heap, record, c.source)
      heaps == SplitHeaps(heap, record, c, value)
  IN Result(heaps[Len(c.targets)],
            [i \in DOMAIN c.targets |->
               Entry(c, <<c.source>>, c.targets[i],
                     get_path(heaps[i-1], record, c.targets[i]), Part(value, i))])

DropStep(heap, record, c) ==
  Result(delete_path(heap, record, c.target),
         <<Entry(c, <<c.target>>, c.target, get_path(heap, record, c.target), None)>>)

\* Numbers are ordered; anything else against a number raises TypeError.
Predicate(v, c) ==
  CASE c.op = "eq" -> v = c.value
    [] c.op = "ne" -> v # c.value
    [] c.op = "in" -> v \in c.value
    [] c.op = "not_in" -> v \notin c.value
    [] c.op = "exists" -> v # None
    [] c.op = "not_exists" -> v = None
    [] c.op = "gt" -> v # None /\ v.number > c.value.number
    [] c.op = "lt" -> v # None /\ v.number < c.value.number

FilterStep(heap, record, c) ==
  LET v == get_path(heap, record, c.target)
      dropped == Predicate(v, c) # (c.mode = "keep_if")
  IN IF c.op \in {"gt", "lt"} /\ v # None /\ ~IsNumber(v)
     THEN Raised
     ELSE [heap |-> heap, dropped |-> dropped,
           lineage |-> <<Entry(c, <<c.target>>, <<>>, v, None)>>]

\* The registry: the step of a type.
apply(heap, record, c) ==
  CASE c.type = "extract" -> ExtractStep(heap, record, c)
    [] c.type = "rename" -> RenameStep(heap, record, c)
    [] c.type = "duplicate" -> DuplicateStep(heap, record, c)
    [] c.type = "constant" -> ConstantStep(heap, record, c)
    [] c.type = "default" -> DefaultStep(heap, record, c)
    [] c.type = "cast" -> CastStep(heap, record, c)
    [] c.type = "trim" -> TrimStep(heap, record, c)
    [] c.type = "lookup" -> LookupStep(heap, record, c)
    [] c.type = "concat" -> ConcatStep(heap, record, c)
    [] c.type = "split" -> SplitStep(heap, record, c)
    [] c.type = "drop" -> DropStep(heap, record, c)
    [] c.type = "filter" -> FilterStep(heap, record, c)
=============================================================================
