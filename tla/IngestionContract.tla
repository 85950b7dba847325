------------------------- MODULE IngestionContract -------------------------
(***************************************************************************)
(* What ingestion promises to someone who sees the collections only: the   *)
(* run rows, the raw documents and the unified ones, and not the           *)
(* coroutines that write them.                                             *)
(*                                                                         *)
(* The unified collections are a lagging projection of what ingestion has  *)
(* stored: a batch may reach them late, in part, or after a newer one, but *)
(* nothing gets there that was not stored first, and no document of either *)
(* kind ever disappears.  A run row is opened once and closed once.        *)
(***************************************************************************)
CONSTANTS Runs, Keys, Collections, Payloads, Rejected, Missing

VARIABLES
  status,    \* run -> "absent", "running", "success" or "failure"
  raw,       \* key -> payload or Missing
  unified,   \* collection -> key -> payload or Missing
  ingested   \* key -> the payloads ingestion has ever stored under it

vars == <<status, raw, unified, ingested>>

Init ==
  /\ status = [r \in Runs |-> "absent"]
  /\ raw = [k \in Keys |-> Missing]
  /\ unified = [c \in Collections |-> [k \in Keys |-> Missing]]
  /\ ingested = [k \in Keys |-> {}]

Open(r) ==
  /\ status[r] = "absent"
  /\ status' = [status EXCEPT ![r] = "running"]
  /\ UNCHANGED <<raw, unified, ingested>>

Close(r, verdict) ==
  /\ status[r] = "running"
  /\ status' = [status EXCEPT ![r] = verdict]
  /\ UNCHANGED <<raw, unified, ingested>>

\* A batch, or the part of it that got through, is stored.
Store(r) ==
  /\ status[r] = "running"
  /\ \A k \in Keys :
        /\ ingested[k] \subseteq ingested'[k]
        /\ \/ raw'[k] = raw[k]
           \/ raw'[k] \in ingested'[k]
  /\ UNCHANGED <<status, unified>>

\* Some of what was ever stored is projected into one collection.
Project(r, c) ==
  /\ status[r] = "running"
  /\ \A k \in Keys :
        \/ unified'[c][k] = unified[c][k]
        \/ unified'[c][k] \in ingested[k] \ Rejected
  /\ \A d \in Collections \ {c} : unified'[d] = unified[d]
  /\ UNCHANGED <<status, raw, ingested>>

\* A user replaces the payload of a document that exists.
Edit(k) ==
  /\ raw[k] # Missing
  /\ \E p \in Payloads : raw' = [raw EXCEPT ![k] = p]
  /\ UNCHANGED <<status, unified, ingested>>

Next ==
  \/ \E r \in Runs :
       \/ Open(r)
       \/ \E verdict \in {"success", "failure"} : Close(r, verdict)
       \/ Store(r)
       \/ \E c \in Collections : Project(r, c)
  \/ \E k \in Keys : Edit(k)

Spec == Init /\ [][Next]_vars
=============================================================================
