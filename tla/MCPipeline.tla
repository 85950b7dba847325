----------------------------- MODULE MCPipeline -----------------------------
(* Small instances of PipelineExecutor for TLC. *)
EXTENDS PipelineExecutor, TLC

CONSTANTS s1, s2, s3, k1, k2, d1, d2, d3, bad, drops, raises, i1, i2

\* d1 maps s1 and s2 to one identity and raises on s3; d2 drops s1 and maps the
\* others apart; d3 drops all, and a malformed definition is never applied.
MCEffect ==
  [ds \in Definitions \X SourceIds |->
     CASE ds[1] = d1 -> (CASE ds[2] = s3 -> raises [] OTHER -> k1)
       [] ds[1] = d2 -> (CASE ds[2] = s1 -> drops [] ds[2] = s2 -> k1 [] OTHER -> k2)
       [] OTHER -> drops]

\* Two definitions without errors or drops, over two source records.
MCEffectPlain ==
  [ds \in Definitions \X SourceIds |->
     IF ds[1] = d1 THEN k1 ELSE IF ds[2] = s1 THEN k1 ELSE k2]

MCLineageId == (k1 :> i1) @@ (k2 :> i2)

\* Two identities whose printed values join to one id.
MCLineageIdJoined == (k1 :> i1) @@ (k2 :> i1)

\* Runs are alike.
RunSymmetry == Permutations(Runs)
=============================================================================
