----------------------------- MODULE MCSources -----------------------------
(* Small instances of Sources for TLC. *)
EXTENDS Sources, TLC

CONSTANTS index, c1, c2, m1, m2, m3, page1, page2, e1, e2, e3, e4, t1, t2, t3, l1, l2, v1, v2

MCPages == {index, c1, c2, m1, m2, m3, page1, page2}
MCThings == {c1, c2, m1, m2, m3, e1, e2, e3, e4, t1, t2, t3}

Lists(of) == [p \in MCPages |-> IF p \in DOMAIN of THEN of[p] ELSE <<>>]
MCMayList ==
  LET new == index :> {c2} @@ c1 :> {m3} @@ c2 :> {m3} @@ m2 :> {e4} @@ page1 :> {t3}
  IN [p \in MCPages |-> IF p \in DOMAIN new THEN new[p] ELSE {}]

SiteOf(of) ==
  [p \in MCPages |-> LET things == Lists(of)[p]
                     IN [i \in DOMAIN things |->
                           [thing |-> things[i], label |-> l1, content |-> v1]]]

\* One competition of two matches: in batches of two, the second batch begins with an
\* event of the first match.
MCStatsBomb == SiteOf(index :> <<c1>> @@ c1 :> <<m1, m2>> @@ m1 :> <<e1, e2>> @@ m2 :> <<e3>>)

Config(name, roots, wanted, most, first) ==
  [source |-> name, roots |-> roots, wanted |-> wanted, maxCompetitions |-> 1,
   maxMatches |-> most, includeEvents |-> TRUE, site |-> first]

\* StatsBomb with configured competitions, and as a bounded crawl; pages with a thing
\* each; a page of two rows.
MCConfigs ==
  { Config("statsbomb", <<index>>, <<c2, c1>>, 0, MCStatsBomb),
    Config("statsbomb", <<index>>, <<>>, 1, MCStatsBomb),
    Config("fbref", <<page1>>, <<>>, 0, SiteOf(page1 :> <<t1, t2>>)) } \cup
  { Config(name, <<page1, page2>>, <<>>, 0, SiteOf(page1 :> <<t1>> @@ page2 :> <<t2>>)) :
      name \in {"openfootball", "understat"} }
=============================================================================
