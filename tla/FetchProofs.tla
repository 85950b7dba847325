----------------------------- MODULE FetchProofs -----------------------------
(***************************************************************************)
(* Proofs about what a run fetches: PoliteClient, through which it asks a  *)
(* site, and Sources, which makes records of what the site shows.          *)
(*                                                                         *)
(* PoliteClient keeps its promises for any number of callers, clients and  *)
(* urls, any floor and any number of attempts.                             *)
(***************************************************************************)
EXTENDS PoliteClient, Sources, DataProofs

-----------------------------------------------------------------------------
(* PoliteClient. *)

\* The one task that sleeps holds its client's lock, and sleeps for long enough.
SleeperHoldsLock ==
  \A t \in Tasks : pc[t] = "sleeping" =>
     lock[ClientOf[t]] = t /\ wake[t] >= last[ClientOf[t]] + MinSpacing

\* No request is younger than the clock, nor, with a floor, than last.
RequestsArePast ==
  \A i \in DOMAIN requests :
     /\ requests[i].time <= now
     /\ (requests[i].kind = "get" /\ MinSpacing > 0) =>
           requests[i].time <= last[requests[i].client]

\* A task about to begin an attempt has one left.
AttemptLeft ==
  \A t \in Tasks :
     /\ pc[t] = "idle" => attempts[t] = 0
     /\ pc[t] = "backoff" => attempts[t] < MaxAttempts

\* A 304 confirms the version that was asked about.
Confirmed ==
  \A t \in Tasks :
     /\ pc[t] = "awaiting" /\ answer[t] # None /\ answer[t].kind = "notModified" =>
           cached[t] = answer[t].version
     /\ pc[t] = "returned" => body[t] = answer[t].version

ClientInv == ClientTypeOK /\ SleeperHoldsLock /\ RequestsArePast /\ AttemptLeft /\ Confirmed /\ SpacingKept

-----------------------------------------------------------------------------

\* The initial states satisfy the inductive invariant.
LEMMA ClientInitInv == ClientInit => ClientInv
BY ClientAssumption DEF ClientInit, ClientInv, ClientTypeOK, SleeperHoldsLock, RequestsArePast, AttemptLeft,
     Confirmed, SpacingKept, Versions, Requests

\* A step keeps the types.
LEMMA ClientNextType ==
  ASSUME ClientTypeOK, AttemptLeft, [ClientNext]_clientVars
  PROVE  ClientTypeOK'
<1> USE ClientAssumption DEF ClientTypeOK
<1>req. ASSUME NEW t \in Tasks, NEW kind \in {"get", "redirect"}, Send(t, kind)
        PROVE  requests' \in Seq(Requests)
  BY <1>req DEF Send, Requests
<1>iss. ASSUME NEW t \in Tasks, Issue(t)
        PROVE  /\ requests' \in Seq(Requests)
               /\ cached' \in [Tasks -> Versions \cup {None}]
               /\ answer' \in [Tasks -> [kind : Kinds, version : Versions] \cup {None}]
               /\ pc' \in [Tasks -> {"idle", "acquiring", "locking", "sleeping", "awaiting",
                                     "backoff", "returned", "raised"}]
  BY <1>iss, <1>req DEF Issue, Goto
<1>1. ASSUME NEW t \in Tasks, Attempt(t) PROVE ClientTypeOK'
  BY <1>1 DEF Attempt, Goto, AttemptLeft, spacing, result
<1>2. ASSUME NEW t \in Tasks, Acquire(t) PROVE ClientTypeOK'
  <2>1. CASE MinSpacing = 0  BY <2>1, <1>2, <1>iss DEF Acquire, spacing
  <2>2. CASE MinSpacing # 0  BY <2>2, <1>2 DEF Acquire, Goto, spacing
  <2> QED BY <2>1, <2>2
<1>3. ASSUME NEW t \in Tasks, Floor(t) PROVE ClientTypeOK'
  <2>1. CASE now >= last[ClientOf[t]] + MinSpacing
    <3>1. /\ Issue(t)
          /\ last' = [last EXCEPT ![ClientOf[t]] = now]
          /\ UNCHANGED <<now, lock, wake, attempts, body, cache, server>>
      BY <2>1, <1>3 DEF Floor
    <3> QED BY <3>1, <1>iss
  <2>2. CASE ~(now >= last[ClientOf[t]] + MinSpacing)
    <3> DEFINE c == ClientOf[t]
    <3>1. c \in Clients /\ last[c] + MinSpacing \in Nat  OBVIOUS
    <3>2. /\ lock' = [lock EXCEPT ![c] = t]
          /\ wake' = [wake EXCEPT ![t] = last[c] + MinSpacing]
          /\ pc' = [pc EXCEPT ![t] = "sleeping"]
          /\ UNCHANGED <<now, last, attempts, cached, answer, body, cache, server, requests>>
      BY <2>2, <1>3 DEF Floor, Goto
    <3> HIDE DEF c
    <3> QED BY <3>1, <3>2
  <2> QED BY <2>1, <2>2
<1>4. ASSUME NEW t \in Tasks, Wake(t) PROVE ClientTypeOK'
  BY <1>4, <1>iss DEF Wake
<1>5. ASSUME NEW t \in Tasks, Redirect(t) PROVE ClientTypeOK'
  BY <1>5, <1>req DEF Redirect, spacing, result
<1>6. ASSUME NEW t \in Tasks, NEW kind \in Kinds, Answer(t, kind) PROVE ClientTypeOK'
  BY <1>6 DEF Answer, Versions, Kinds, spacing
<1>7. ASSUME NEW t \in Tasks, ReturnCached(t) PROVE ClientTypeOK'
  BY <1>7 DEF ReturnCached, Goto, spacing
<1>8. ASSUME NEW t \in Tasks, ReturnBody(t) PROVE ClientTypeOK'
  BY <1>8 DEF ReturnBody, Goto, spacing
<1>9. ASSUME NEW t \in Tasks, Fails(t) PROVE ClientTypeOK'
  BY <1>9 DEF Fails, Goto, spacing, result
<1>10. CASE Tick
  BY <1>10 DEF Tick, spacing, result
<1>11. ASSUME NEW u \in Urls, Publish(u) PROVE ClientTypeOK'
  BY <1>11 DEF Publish, Versions, spacing, result
<1>12. CASE UNCHANGED clientVars
  BY <1>12 DEF clientVars, spacing, result
<1> QED BY <1>1, <1>2, <1>3, <1>4, <1>5, <1>6, <1>7, <1>8, <1>9, <1>10, <1>11, <1>12 DEF ClientNext

\* Every request has been made at some time, by some client.
LEMMA RequestFields ==
  ASSUME ClientTypeOK
  PROVE  \A i \in DOMAIN requests : requests[i].time \in Nat /\ requests[i].client \in Clients
<1>1. \A i \in DOMAIN requests : requests[i] \in Requests
  BY DEF ClientTypeOK
<1> QED BY <1>1 DEF Requests

\* A request sent is the last of the list; the others stay where they are.
LEMMA SendAppends ==
  ASSUME ClientTypeOK, NEW t \in Tasks, NEW kind, Send(t, kind)
  PROVE  /\ DOMAIN requests = 1..Len(requests)
         /\ DOMAIN requests' = 1..(Len(requests) + 1)
         /\ \A i \in 1..Len(requests) : requests'[i] = requests[i]
         /\ requests'[Len(requests) + 1] =
               [client |-> ClientOf[t], time |-> now, kind |-> kind]
BY DEF ClientTypeOK, Send

\* A get sent when the floor has passed since the last one keeps the spacing.
LEMMA GetKeepsSpacing ==
  ASSUME ClientTypeOK, RequestsArePast, SpacingKept, NEW t \in Tasks, Send(t, "get"), now' = now,
         MinSpacing > 0 => last' = [last EXCEPT ![ClientOf[t]] = now],
         \A i \in DOMAIN requests :
            requests[i].client = ClientOf[t] /\ requests[i].kind = "get" =>
               now >= requests[i].time + MinSpacing
  PROVE  RequestsArePast' /\ SpacingKept'
<1> DEFINE n == Len(requests)
           new == [client |-> ClientOf[t], time |-> now, kind |-> "get"]
<1>1. /\ n \in Nat
      /\ DOMAIN requests = 1..n /\ DOMAIN requests' = 1..(n + 1)
      /\ \A i \in 1..n : requests'[i] = requests[i]
      /\ requests'[n + 1] = new
  BY SendAppends DEF ClientTypeOK
<1>2. \A i \in 1..n : requests[i] \in Requests
  BY <1>1 DEF ClientTypeOK
<1>3. MinSpacing \in Nat /\ now \in Nat /\ ClientOf[t] \in Clients /\ last \in [Clients -> Nat]
  BY ClientAssumption DEF ClientTypeOK
<1> HIDE DEF n
<1>4. RequestsArePast'
  <2> SUFFICES ASSUME NEW i \in 1..(n + 1)
               PROVE  /\ requests'[i].time <= now'
                      /\ (requests'[i].kind = "get" /\ MinSpacing > 0) =>
                            requests'[i].time <= last'[requests'[i].client]
    BY <1>1 DEF RequestsArePast
  <2>1. CASE i = n + 1
    BY <2>1, <1>1, <1>3
  <2>2. CASE i \in 1..n
    <3>1. requests'[i] = requests[i] /\ requests[i] \in Requests
      BY <2>2, <1>1, <1>2
    <3>2. /\ requests[i].time <= now
          /\ (requests[i].kind = "get" /\ MinSpacing > 0) =>
                requests[i].time <= last[requests[i].client]
      BY <2>2, <1>1 DEF RequestsArePast
    <3>3. requests[i].client \in Clients /\ requests[i].time \in Nat
      BY <3>1 DEF Requests
    <3> QED BY <3>1, <3>2, <3>3, <1>3
  <2> QED BY <2>1, <2>2, <1>1
<1>5. SpacingKept'
  <2> SUFFICES ASSUME NEW i \in 1..(n + 1), NEW j \in 1..(n + 1), i < j,
                      requests'[i].client = requests'[j].client,
                      requests'[i].kind = "get", requests'[j].kind = "get"
               PROVE  requests'[j].time >= requests'[i].time + MinSpacing
    BY <1>1 DEF SpacingKept, Spaced
  <2>1. i \in 1..n /\ requests'[i] = requests[i]
    BY <1>1
  <2>2. CASE j = n + 1
    BY <2>1, <2>2, <1>1
  <2>3. CASE j \in 1..n
    BY <2>1, <2>3, <1>1 DEF SpacingKept, Spaced
  <2> QED BY <2>2, <2>3, <1>1
<1> QED BY <1>4, <1>5

\* A redirect that is followed leaves both as they are: it is no get.
LEMMA RedirectKeepsSpacing ==
  ASSUME ClientTypeOK, RequestsArePast, SpacingKept, NEW t \in Tasks, Redirect(t)
  PROVE  RequestsArePast' /\ SpacingKept'
<1> DEFINE n == Len(requests)
<1>0. now' = now /\ last' = last
  BY DEF Redirect, spacing
<1>1. /\ n \in Nat
      /\ DOMAIN requests = 1..n /\ DOMAIN requests' = 1..(n + 1)
      /\ \A i \in 1..n : requests'[i] = requests[i]
      /\ requests'[n + 1].kind = "redirect" /\ requests'[n + 1].time = now
  <2>1. Send(t, "redirect")  BY DEF Redirect
  <2>2. n \in Nat  BY DEF ClientTypeOK
  <2>3. requests'[n + 1] = [client |-> ClientOf[t], time |-> now, kind |-> "redirect"]
    BY <2>1, SendAppends
  <2> QED BY <2>1, <2>2, <2>3, SendAppends
<1>2. now \in Nat
  BY DEF ClientTypeOK
<1> HIDE DEF n
<1>4. RequestsArePast'
  <2> SUFFICES ASSUME NEW i \in 1..(n + 1)
               PROVE  /\ requests'[i].time <= now
                      /\ (requests'[i].kind = "get" /\ MinSpacing > 0) =>
                            requests'[i].time <= last[requests'[i].client]
    BY <1>0, <1>1 DEF RequestsArePast
  <2>1. CASE i = n + 1
    BY <2>1, <1>1, <1>2
  <2>2. CASE i \in 1..n
    BY <2>2, <1>1 DEF RequestsArePast
  <2> QED BY <2>1, <2>2, <1>1
<1>5. SpacingKept'
  <2> SUFFICES ASSUME NEW i \in 1..(n + 1), NEW j \in 1..(n + 1), i < j,
                      requests'[i].client = requests'[j].client,
                      requests'[i].kind = "get", requests'[j].kind = "get"
               PROVE  requests'[j].time >= requests'[i].time + MinSpacing
    BY <1>1 DEF SpacingKept, Spaced
  <2>1. i \in 1..n /\ j \in 1..n
    BY <1>1
  <2> QED BY <2>1, <1>1 DEF SpacingKept, Spaced
<1> QED BY <1>4, <1>5

\* A step that sends nothing and leaves last alone keeps the spacing.
LEMMA QuietKeepsSpacing ==
  ASSUME ClientTypeOK, RequestsArePast, SpacingKept, now' \in Nat, now' >= now,
         requests' = requests, last' = last
  PROVE  RequestsArePast' /\ SpacingKept'
<1>1. \A i \in DOMAIN requests : requests[i].time \in Nat /\ now \in Nat
  BY RequestFields DEF ClientTypeOK
<1>2. RequestsArePast'
  BY <1>1 DEF RequestsArePast
<1> QED BY <1>2 DEF SpacingKept, Spaced

\* A step keeps the sleepers, the requests and their spacing as they should be.
LEMMA NextSpacing ==
  ASSUME ClientTypeOK, SleeperHoldsLock, RequestsArePast, SpacingKept, [ClientNext]_clientVars
  PROVE  SleeperHoldsLock' /\ RequestsArePast' /\ SpacingKept'
<1> DEFINE Kept == SleeperHoldsLock' /\ RequestsArePast' /\ SpacingKept'
<1>t. /\ MinSpacing \in Nat /\ now \in Nat
      /\ \A t \in Tasks : ClientOf[t] \in Clients /\ t # None
      /\ \A c \in Clients : last[c] \in Nat
      /\ \A i \in DOMAIN requests : requests[i].time \in Nat
  BY ClientAssumption, RequestFields DEF ClientTypeOK
\* Nothing is sent, and the floor's variables stay.
<1>q. ASSUME NEW t \in Tasks, NEW label, label # "sleeping",
             Goto(t, label), UNCHANGED <<now, lock, last, wake, requests>>
      PROVE  Kept
  <2>1. SleeperHoldsLock'
    BY <1>q DEF SleeperHoldsLock, Goto, ClientTypeOK
  <2> QED BY <2>1, <1>q, <1>t, QuietKeepsSpacing
<1>1. ASSUME NEW t \in Tasks, Attempt(t) PROVE Kept
  BY <1>1, <1>q DEF Attempt, spacing
<1>2. ASSUME NEW t \in Tasks, Acquire(t) PROVE Kept
  <2>1. CASE MinSpacing = 0
    <3>1. Send(t, "get") /\ Goto(t, "awaiting") /\ UNCHANGED <<now, lock, last, wake>>
      BY <2>1, <1>2 DEF Acquire, Issue, spacing
    <3>2. SleeperHoldsLock'
      BY <3>1 DEF SleeperHoldsLock, Goto, ClientTypeOK
    <3>3. \A i \in DOMAIN requests : now >= requests[i].time + MinSpacing
      BY <2>1, <1>t DEF RequestsArePast
    <3> QED BY <2>1, <3>1, <3>2, <3>3, GetKeepsSpacing
  <2>2. CASE MinSpacing # 0
    BY <2>2, <1>2, <1>q DEF Acquire, spacing
  <2> QED BY <2>1, <2>2
<1>3. ASSUME NEW t \in Tasks, Floor(t) PROVE Kept
  <2> DEFINE c == ClientOf[t]
  <2>0. c \in Clients /\ lock[c] = None
    BY <1>3, <1>t DEF Floor
  <2>1. CASE now >= last[c] + MinSpacing
    <3>1. /\ Send(t, "get") /\ Goto(t, "awaiting")
          /\ last' = [last EXCEPT ![c] = now] /\ UNCHANGED <<now, lock, wake>>
      BY <2>1, <1>3 DEF Floor, Issue
    <3>2. SleeperHoldsLock'
      BY <3>1, <2>0, <1>t DEF SleeperHoldsLock, Goto, ClientTypeOK
    <3>3. \A i \in DOMAIN requests : requests[i].client = c /\ requests[i].kind = "get" =>
             now >= requests[i].time + MinSpacing
      BY <2>1, <2>0, <1>t DEF RequestsArePast
    <3> QED BY <3>1, <3>2, <3>3, GetKeepsSpacing
  <2>2. CASE ~(now >= last[c] + MinSpacing)
    <3>1. /\ pc' = [pc EXCEPT ![t] = "sleeping"] /\ lock' = [lock EXCEPT ![c] = t]
          /\ wake' = [wake EXCEPT ![t] = last[c] + MinSpacing]
          /\ UNCHANGED <<now, last, requests>>
      BY <2>2, <1>3 DEF Floor, Goto
    <3>2. SleeperHoldsLock'
      <4> SUFFICES ASSUME NEW s \in Tasks, pc'[s] = "sleeping"
                   PROVE  lock'[ClientOf[s]] = s /\ wake'[s] >= last'[ClientOf[s]] + MinSpacing
        BY DEF SleeperHoldsLock
      <4>1. CASE s = t
        BY <4>1, <3>1, <2>0, <1>t DEF ClientTypeOK
      <4>2. CASE s # t
        BY <4>2, <3>1, <2>0, <1>t DEF ClientTypeOK, SleeperHoldsLock
      <4> QED BY <4>1, <4>2
    <3> QED BY <3>1, <3>2, <1>t, QuietKeepsSpacing
  <2> QED BY <2>1, <2>2
<1>4. ASSUME NEW t \in Tasks, Wake(t) PROVE Kept
  <2> DEFINE c == ClientOf[t]
  <2>1. /\ Send(t, "get") /\ Goto(t, "awaiting") /\ pc[t] = "sleeping"
        /\ last' = [last EXCEPT ![c] = now] /\ lock' = [lock EXCEPT ![c] = None]
        /\ now >= wake[t] /\ UNCHANGED <<now, wake>>
    BY <1>4 DEF Wake, Issue
  <2>2. c \in Clients /\ lock[c] = t /\ now >= last[c] + MinSpacing
    BY <2>1, <1>t DEF SleeperHoldsLock, ClientTypeOK
  <2>3. SleeperHoldsLock'
    BY <2>1, <2>2, <1>t DEF SleeperHoldsLock, Goto, ClientTypeOK
  <2>4. \A i \in DOMAIN requests : requests[i].client = c /\ requests[i].kind = "get" =>
           now >= requests[i].time + MinSpacing
    <3> SUFFICES ASSUME NEW i \in DOMAIN requests,
                        requests[i].client = c, requests[i].kind = "get"
                 PROVE  now >= requests[i].time + MinSpacing
      OBVIOUS
    <3>1. CASE MinSpacing = 0  BY <3>1, <1>t DEF RequestsArePast
    <3>2. CASE MinSpacing > 0
      <4>1. requests[i].time <= last[c]  BY <3>2 DEF RequestsArePast
      <4> QED BY <4>1, <2>2, <1>t
    <3> QED BY <3>1, <3>2, <1>t
  <2> QED BY <2>1, <2>3, <2>4, GetKeepsSpacing
<1>5. ASSUME NEW t \in Tasks, Redirect(t) PROVE Kept
  <2>1. SleeperHoldsLock'
    BY <1>5 DEF Redirect, SleeperHoldsLock, spacing
  <2> QED BY <2>1, <1>5, RedirectKeepsSpacing
<1>6. ASSUME UNCHANGED <<pc, lock, last, wake, requests>>, now' \in Nat, now' >= now PROVE Kept
  <2>1. SleeperHoldsLock'
    BY <1>6 DEF SleeperHoldsLock
  <2> QED BY <2>1, <1>6, QuietKeepsSpacing
<1>7. ASSUME NEW t \in Tasks, NEW kind \in Kinds, Answer(t, kind) PROVE Kept
  BY <1>7, <1>6, <1>t DEF Answer, spacing
<1>8. ASSUME NEW t \in Tasks, ReturnCached(t) PROVE Kept
  BY <1>8, <1>q DEF ReturnCached, spacing
<1>9. ASSUME NEW t \in Tasks, ReturnBody(t) PROVE Kept
  BY <1>9, <1>q DEF ReturnBody, spacing
<1>10. ASSUME NEW t \in Tasks, Fails(t) PROVE Kept
  BY <1>10, <1>q DEF Fails, spacing
<1>11. CASE Tick
  BY <1>11, <1>6, <1>t DEF Tick, spacing
<1>12. ASSUME NEW u \in Urls, Publish(u) PROVE Kept
  BY <1>12, <1>6, <1>t DEF Publish, spacing
<1>13. CASE UNCHANGED clientVars
  BY <1>13, <1>6, <1>t DEF clientVars, spacing
<1> QED BY <1>1, <1>2, <1>3, <1>4, <1>5, <1>7, <1>8, <1>9, <1>10, <1>11, <1>12, <1>13 DEF ClientNext

\* A step keeps count of the attempts and of what a 304 has confirmed.
LEMMA NextAnswers ==
  ASSUME ClientTypeOK, AttemptLeft, Confirmed, [ClientNext]_clientVars
  PROVE  AttemptLeft' /\ Confirmed'
<1> DEFINE Kept == AttemptLeft' /\ Confirmed'
<1> USE DEF ClientTypeOK, AttemptLeft, Confirmed
<1>1. ASSUME NEW t \in Tasks, Attempt(t) PROVE Kept
  BY <1>1 DEF Attempt, Goto, result
<1>i. ASSUME NEW t \in Tasks, Issue(t), pc[t] \in {"acquiring", "locking", "sleeping"},
             UNCHANGED <<attempts, body>>
      PROVE  Kept
  BY <1>i DEF Issue, Goto
<1>2. ASSUME NEW t \in Tasks, Acquire(t) PROVE Kept
  <2>1. CASE MinSpacing = 0  BY <2>1, <1>2, <1>i DEF Acquire
  <2>2. CASE MinSpacing # 0  BY <2>2, <1>2 DEF Acquire, Goto
  <2> QED BY <2>1, <2>2
<1>3. ASSUME NEW t \in Tasks, Floor(t) PROVE Kept
  <2>1. CASE now >= last[ClientOf[t]] + MinSpacing  BY <2>1, <1>3, <1>i DEF Floor
  <2>2. CASE ~(now >= last[ClientOf[t]] + MinSpacing)  BY <2>2, <1>3 DEF Floor, Goto
  <2> QED BY <2>1, <2>2
<1>4. ASSUME NEW t \in Tasks, Wake(t) PROVE Kept
  BY <1>4, <1>i DEF Wake
<1>5. ASSUME NEW t \in Tasks, Redirect(t) PROVE Kept
  BY <1>5 DEF Redirect, result
<1>6. ASSUME NEW t \in Tasks, NEW kind \in Kinds, Answer(t, kind) PROVE Kept
  <2>1. answer' = [answer EXCEPT ![t] = [kind |-> kind, version |-> server[UrlOf[t]]]]
    BY <1>6 DEF Answer
  <2>2. /\ pc[t] = "awaiting" /\ kind = "notModified" => cached[t] = server[UrlOf[t]]
        /\ UNCHANGED <<pc, attempts, cached, body>>
    BY <1>6 DEF Answer
  <2>3. pc[t] = "awaiting"
    BY <1>6 DEF Answer
  <2>4. ASSUME NEW s \in Tasks
        PROVE  /\ pc[s] = "awaiting" /\ answer'[s] # None /\ answer'[s].kind = "notModified" =>
                     cached[s] = answer'[s].version
               /\ pc[s] = "returned" => body[s] = answer'[s].version
    <3>1. CASE s = t
      <4>1. answer'[s] = [kind |-> kind, version |-> server[UrlOf[t]]]  BY <2>1, <3>1
      <4> QED BY <4>1, <3>1, <2>2, <2>3
    <3>2. CASE s # t
      <4>1. answer'[s] = answer[s]  BY <2>1, <3>2
      <4> QED BY <4>1
    <3> QED BY <3>1, <3>2
  <2> QED BY <2>2, <2>4
<1>7. ASSUME NEW t \in Tasks, ReturnCached(t) PROVE Kept
  BY <1>7 DEF ReturnCached, Goto
<1>8. ASSUME NEW t \in Tasks, ReturnBody(t) PROVE Kept
  BY <1>8 DEF ReturnBody, Goto
<1>9. ASSUME NEW t \in Tasks, Fails(t) PROVE Kept
  <2> DEFINE again == answer[t].kind \in Retried /\ attempts[t] < MaxAttempts
  <2>1. CASE again  BY <2>1, <1>9 DEF Fails, Goto, result
  <2>2. CASE ~again  BY <2>2, <1>9 DEF Fails, Goto, result
  <2> QED BY <2>1, <2>2
<1>10. CASE Tick
  BY <1>10 DEF Tick, result
<1>11. ASSUME NEW u \in Urls, Publish(u) PROVE Kept
  BY <1>11 DEF Publish, result
<1>12. CASE UNCHANGED clientVars
  BY <1>12 DEF clientVars, result
<1> QED BY <1>1, <1>2, <1>3, <1>4, <1>5, <1>6, <1>7, <1>8, <1>9, <1>10, <1>11, <1>12 DEF ClientNext

-----------------------------------------------------------------------------

\* The inductive invariant holds in every reachable state.
LEMMA ClientInvariance == ClientSpec => []ClientInv
<1>1. ClientInv /\ [ClientNext]_clientVars => ClientInv'
  BY ClientNextType, NextSpacing, NextAnswers DEF ClientInv
<1> QED BY ClientInitInv, <1>1, PTL DEF ClientSpec

\* Every variable of the client holds a value of its kind, and no get makes more
\* than MaxAttempts attempts, however the site answers.
THEOREM ClientTypeCorrect == ClientSpec => []ClientTypeOK
<1>1. ClientInv => ClientTypeOK
  BY DEF ClientInv
<1> QED BY ClientInvariance, <1>1, PTL

\* Two gets of one client are never closer than the floor, whatever the number of
\* concurrent callers and however often they retry.
THEOREM FloorHolds == ClientSpec => []SpacingKept
<1>1. ClientInv => SpacingKept
  BY DEF ClientInv
<1> QED BY ClientInvariance, <1>1, PTL

\* A get returns the version that the site answered about, whatever other gets do
\* to the cache while it waits.
THEOREM BodiesAreCurrent == ClientSpec => []BodyWasCurrent
<1>1. ClientInv => BodyWasCurrent
  BY DEF ClientInv, Confirmed, BodyWasCurrent
<1> QED BY ClientInvariance, <1>1, PTL

-----------------------------------------------------------------------------
(* Sources: the inductive invariant, part by part. *)

\* The refs that Ref makes, and the records and the agenda that Items is made of.
Refs ==
  (Labels \X Things) \cup (Pages \X Things \X Nat) \cup {<<t>> : t \in Things \cup Pages}

Recs ==
  {r \in [kind : Entities, key : Refs, thing : Things, content : Contents, match : Refs] :
     /\ r.kind = "events" => source = "statsbomb"
     /\ r.kind # "events" => r.match = r.key
     /\ source = "understat" => r.kind = "matches"}

Agenda == {Get(page) : page \in Pages} \cup {Yield(record) : record \in Recs}

Collections == Entities \cup {"team_stats"}

\* A collection has one document for each key.
Unique(coll) == \A d \in coll, e \in coll : Same(d, e) => d = e

SiteTyped(s) ==
  /\ DOMAIN s = Pages
  /\ \A p \in Pages : s[p] \in Seq(Entries(p))
  /\ \A p \in Pages, q \in Pages : \A i \in DOMAIN s[p], j \in DOMAIN s[q] :
       s[p][i].thing = s[q][j].thing => p = q /\ i = j

RunTyped ==
  /\ run \in [on : BOOLEAN, agenda : Seq(Agenda), buffer : Seq(Recs),
              due : SUBSET Collections]
  /\ Len(run.buffer) <= BatchSize
  /\ ~run.on => run = NoRun
  /\ run.buffer = <<>> => run.due = {}

StoreTyped ==
  /\ raw \subseteq Recs
  /\ \A d \in unified : d.kind \in Collections /\ d.thing \in Things
  /\ Unique(raw)
  /\ Unique(unified)

Histories ==
  [started : Nat, changed : Nat, fresh : BOOLEAN, settled : BOOLEAN, moved : BOOLEAN,
   torn : BOOLEAN]

Typed ==
  /\ config \in Configs
  /\ SiteTyped(site)
  /\ RunTyped
  /\ StoreTyped
  /\ ended \in {"never", "success", "failure"}
  /\ history \in Histories

\* The things of the site with the refs that it gives them now.
Placed ==
  {x \in Things \X Refs : \E p \in Pages : \E i \in DOMAIN site[p] :
     x = <<site[p][i].thing, Ref(p, i, site[p])>>}

AgendaInPlace ==
  \A n \in DOMAIN run.agenda : run.agenda[n].do = "yield" =>
     <<run.agenda[n].record.thing, run.agenda[n].record.key>> \in Placed
BufferInPlace ==
  \A n \in DOMAIN run.buffer : <<run.buffer[n].thing, run.buffer[n].key>> \in Placed
RawInPlace == \A r \in raw : <<r.thing, r.key>> \in Placed
UnifiedInPlace ==
  \A d \in unified : d.kind # "team_stats" =>
     \E ref \in Refs : <<d.thing, ref>> \in Placed /\ d.key = UnifiedId(ref)

\* While no thing has changed its ref, every record anywhere is under the present one.
InPlace ==
  ~history.moved => AgendaInPlace /\ BufferInPlace /\ RawInPlace /\ UnifiedInPlace

\* The matches that have been stored, and those that are stored or in the buffer.
MatchesInRaw == {ref \in Refs : \E r \in raw : r.kind = "matches" /\ r.key = ref}
MatchesInUnified ==
  {ref \in Refs : \E d \in unified : d.kind = "matches" /\ d.key = UnifiedId(ref)}
MatchesInBuffer ==
  {ref \in Refs : \E n \in DOMAIN run.buffer :
     run.buffer[n].kind = "matches" /\ run.buffer[n].key = ref}
Kept == MatchesInBuffer \cup (MatchesInRaw \cap MatchesInUnified)

\* A match is yielded on the agenda before place n.
Ahead(ref, agenda, n) ==
  \E m \in 1..n-1 : /\ agenda[m].do = "yield"
                    /\ agenda[m].record.kind = "matches" /\ agenda[m].record.key = ref

\* The matches that the records of an item of the agenda will refer to.
Refers(of, item) ==
  {ref \in Refs :
     \/ item.do = "get" /\ of = "statsbomb" /\ item.page \in Matches /\ ref = <<item.page>>
     \/ item.do = "yield" /\ item.record.kind = "events" /\ ref = item.record.match}

\* A match comes before its events, from the agenda through the buffer into the stores.
AgendaMatched ==
  \A n \in DOMAIN run.agenda : \A ref \in Refers(source, run.agenda[n]) :
     ref \in Kept \/ Ahead(ref, run.agenda, n)
BufferMatched ==
  \A n \in DOMAIN run.buffer : run.buffer[n].kind = "events" => run.buffer[n].match \in Kept

\* Within a flush the buffer is in raw, and what its records map to in the collections
\* that have been written.
Ops == UnifiedOps(run.buffer)
Pending == {o.doc : o \in {o \in Ops : o.doc.kind \in run.due}}
FlushedKeys ==
  run.due # {} =>
     /\ \A n \in DOMAIN run.buffer : \E r \in raw : Same(r, run.buffer[n])
     /\ \A o \in Ops : o.doc.kind \notin run.due => \E d \in unified : Same(d, o.doc)

TeamStatsMatched == \A d \in unified : d.kind = "team_stats" => HasMatch(d, unified)
EventsStored ==
  \A d \in unified : d.kind = "events" => \E ref \in MatchesInRaw : d.match = UnifiedId(ref)
EventsMatched ==
  ~history.torn =>
     \A d \in unified : d.kind = "events" => HasMatch(d, unified \cup Pending)

MatchFirst ==
  /\ AgendaMatched /\ BufferMatched /\ FlushedKeys
  /\ TeamStatsMatched /\ EventsStored /\ EventsMatched

\* The pages that can be reached.
Reached ==
  LET roots == ToSet(config.roots)
  IN roots \cup Below(roots) \cup Below(Below(roots))

\* The pages at and below a page, what pages yield, and the records a page leads to.
Under(page) == {page} \cup Below({page}) \cup Below(Below({page}))
YieldedBy(pages) == {item.record : item \in UNION {Yields(p, "yield") : p \in pages}}
From == [page \in Pages |-> YieldedBy(Under(page))]

\* The records that the agenda leads to, and those that are where they belong.
Coming ==
  {r \in Catalogue : \E n \in DOMAIN run.agenda :
     \/ run.agenda[n].do = "yield" /\ run.agenda[n].record = r
     \/ run.agenda[n].do = "get" /\ r \in From[run.agenda[n].page]}
Stored == {r \in Catalogue : r \in raw /\ ToSet(Mapped(r)) \subseteq unified}

\* While the site stands still a run works on what the site lists now.
Still == history.fresh \/ history.settled
AgendaOfTheSite ==
  \A n \in DOMAIN run.agenda :
     /\ run.agenda[n].do = "get" => run.agenda[n].page \in Reached
     /\ run.agenda[n].do = "yield" => run.agenda[n].record \in Catalogue
BufferOfTheSite == \A n \in DOMAIN run.buffer : run.buffer[n] \in Catalogue
FlushedDocs ==
  run.due # {} =>
     /\ \A n \in DOMAIN run.buffer : run.buffer[n] \in raw
     /\ \A o \in Ops : o.doc.kind \notin run.due => o.doc \in unified
OfTheSite == Still => AgendaOfTheSite /\ BufferOfTheSite /\ FlushedDocs

\* And it has, or will come by, everything that the site lists.
Covers ==
  history.fresh /\ run.on => Catalogue \subseteq Stored \cup ToSet(run.buffer) \cup Coming

\* After a run that succeeded, everything is there.
Settled == history.settled => Catalogue \subseteq Stored

-----------------------------------------------------------------------------
(* The operators of Sources. *)

\* Among keeps elements of the sequence that are in the set.
LEMMA AmongType ==
  ASSUME NEW T, NEW set, NEW seq \in Seq(T)
  PROVE  Among(seq, set) \in Seq(T \cap set)
<1> DEFINE n == Len(seq)
           V == Seq(T \cap set)
           step == [i \in 1..n |-> [v \in V |-> IF seq[i] \in set THEN Append(v, seq[i]) ELSE v]]
           Keeps(f) == f = [m \in 0..n |->
                             IF m = 0 THEN <<>>
                             ELSE IF seq[m] \in set THEN Append(f[m-1], seq[m]) ELSE f[m-1]]
           kept == CHOOSE f : Keeps(f)
<1>1. n \in Nat /\ <<>> \in V /\ \A i \in 1..n : seq[i] \in T
  BY EmptySeq
<1>2. step \in [1..n -> [V -> V]]
  <2>1. ASSUME NEW i \in 1..n, NEW v \in V
        PROVE  (IF seq[i] \in set THEN Append(v, seq[i]) ELSE v) \in V
    BY <1>1, <2>1, AppendProperties
  <2>2. QED
    BY <2>1
<1>3. \E f : Recursive(n, V, <<>>, step, f)
  <2> DEFINE b == <<>>
  <2>1. n \in Nat /\ b \in V
    BY <1>1
  <2> HIDE DEF V, step, n, b
  <2>2. \E f : Recursive(n, V, b, step, f)
    BY <1>2, <2>1, RecursionExists
  <2>3. QED
    BY <2>2 DEF b
<1>4. PICK f : f \in [0..n -> V] /\ f[0] = <<>> /\ \A i \in 1..n : f[i] = step[i][f[i-1]]
  <2> HIDE DEF V, step, n
  <2>1. QED
    BY <1>3 DEF Recursive
<1>5. Keeps(f)
  <2>1. ASSUME NEW m \in 0..n
        PROVE f[m] = IF m = 0 THEN <<>>
                     ELSE IF seq[m] \in set THEN Append(f[m-1], seq[m]) ELSE f[m-1]
    <3>1. CASE m = 0
      BY <1>4, <3>1
    <3>2. CASE m # 0
      <4>1. m \in 1..n /\ m - 1 \in 0..n
        BY <1>1, <3>2
      <4>2. f[m-1] \in V
        BY <1>4, <4>1
      <4>3. f[m] = step[m][f[m-1]]
        BY <1>4, <4>1
      <4>4. QED
        BY <3>2, <4>1, <4>2, <4>3
    <3>3. QED
      BY <3>1, <3>2
  <2> HIDE DEF V, step
  <2>2. QED
    BY <1>4, <2>1
<1>6. Keeps(kept)
  <2> HIDE DEF Keeps
  <2>1. QED
    BY <1>5
<1>7. /\ kept[0] = <<>>
      /\ \A m \in 1..n :
           kept[m] = IF seq[m] \in set THEN Append(kept[m-1], seq[m]) ELSE kept[m-1]
  <2>1. kept = [m \in 0..n |->
                 IF m = 0 THEN <<>>
                 ELSE IF seq[m] \in set THEN Append(kept[m-1], seq[m]) ELSE kept[m-1]]
    BY <1>6
  <2> HIDE DEF kept
  <2>2. 0 \in 0..n /\ \A m \in 1..n : m \in 0..n /\ m # 0
    BY <1>1
  <2>3. kept[0] = <<>>
    BY <2>1, <2>2
  <2>4. ASSUME NEW m \in 1..n
        PROVE  kept[m] = IF seq[m] \in set THEN Append(kept[m-1], seq[m]) ELSE kept[m-1]
    BY <2>1, <2>2
  <2>5. QED
    BY <2>3, <2>4
<1> HIDE DEF kept
<1> DEFINE Q == {m \in 0..n : kept[m] \in V}
<1>8. 0 \in Q
  <2>1. 0 \in 0..n /\ kept[0] \in V
    BY <1>1, <1>7
  <2>2. QED
    BY <2>1
<1>9. ASSUME NEW m \in 0..n-1, m \in Q PROVE m + 1 \in Q
  <2>1. m + 1 \in 0..n /\ m + 1 # 0 /\ m + 1 - 1 = m /\ m + 1 \in 1..n
    BY <1>1
  <2>2. kept[m+1] = IF seq[m+1] \in set THEN Append(kept[m], seq[m+1]) ELSE kept[m]
    BY <1>7, <2>1
  <2>3. kept[m] \in V
    BY <1>9
  <2>4. kept[m+1] \in V
    BY <1>1, <2>1, <2>2, <2>3, AppendProperties
  <2>5. QED
    BY <2>1, <2>4
<1>10. n \in Q
  <2>1. Q \in SUBSET (0..n) /\ n \in 0..n
    BY <1>1
  <2>2. \A m \in 0..n-1 : m \in Q => m + 1 \in Q
    BY <1>9
  <2> HIDE DEF Q
  <2>3. QED
    BY <1>1, <1>8, <2>1, <2>2, Induction
<1>11. Among(seq, set) = kept[n]
  BY DEF Among, kept
<1>12. QED
  BY <1>10, <1>11

\* What applying operations does: the operations of a batch that have a place and a key in
\* common have the same document.
Batch(ops, n) ==
  /\ \A o \in ops : o.at \in 1..n
  /\ \A o \in ops, p \in ops : o.at = p.at /\ Same(o.doc, p.doc) => o.doc = p.doc

\* Of the operations on a key one is the last.
LEMMA LastOperation ==
  ASSUME NEW n \in Nat, NEW ops, Batch(ops, n), NEW o \in ops
  PROVE  \E p \in ops : /\ Same(p.doc, o.doc)
                        /\ \A q \in ops : Same(q.doc, p.doc) => q.at <= p.at
<1> DEFINE S == {i \in 1..n : \E p \in ops : p.at = i /\ Same(p.doc, o.doc)}
<1>1. S \in SUBSET (1..n) /\ o.at \in S
  BY DEF Batch, Same
<1>2. \E m \in S : \A j \in S : j <= m
  <2>1. S # {}
    BY <1>1
  <2> HIDE DEF S
  <2>2. QED
    BY <1>1, <2>1, LastPosition
<1>3. PICK m \in S : \A j \in S : j <= m
  BY <1>2
<1>4. PICK p \in ops : p.at = m /\ Same(p.doc, o.doc)
  BY <1>3
<1>5. ASSUME NEW q \in ops, Same(q.doc, p.doc) PROVE q.at <= p.at
  <2>1. Same(q.doc, o.doc)
    BY <1>4, <1>5 DEF Same
  <2>2. q.at \in S
    BY <2>1 DEF Batch
  <2> HIDE DEF S
  <2>3. QED
    BY <1>3, <1>4, <2>2
<1>6. QED
  BY <1>4, <1>5

\* A document afterwards was there or is one of the operations'.
LEMMA AppliedFrom ==
  ASSUME NEW coll, NEW ops, NEW d \in Applied(coll, ops)
  PROVE  d \in coll \/ \E o \in ops : d = o.doc
BY DEF Applied

\* A collection that has one document for each key still has.
LEMMA AppliedUnique ==
  ASSUME NEW n \in Nat, NEW coll, NEW ops, Batch(ops, n), Unique(coll)
  PROVE  Unique(Applied(coll, ops))
<1> DEFINE Latest == {o \in ops : \A p \in ops : Same(p.doc, o.doc) => p.at <= o.at}
           Rest == {d \in coll : \A o \in ops : ~Same(d, o.doc)}
<1>1. Applied(coll, ops) = Rest \cup {o.doc : o \in Latest}
  BY DEF Applied
<1>2. ASSUME NEW d \in Rest, NEW e \in Rest, Same(d, e) PROVE d = e
  BY <1>2 DEF Unique
<1>3. ASSUME NEW d \in Rest, NEW o \in Latest PROVE ~Same(d, o.doc) /\ ~Same(o.doc, d)
  BY DEF Same
<1>4. ASSUME NEW o \in Latest, NEW p \in Latest, Same(o.doc, p.doc) PROVE o.doc = p.doc
  <2>1. o.at <= p.at /\ p.at <= o.at
    BY <1>4 DEF Same
  <2>2. o.at \in 1..n /\ p.at \in 1..n /\ o \in ops /\ p \in ops
    BY DEF Batch
  <2>3. o.at = p.at
    BY <2>1, <2>2
  <2>4. QED
    BY <1>4, <2>2, <2>3 DEF Batch
<1> HIDE DEF Latest, Rest
<1>5. QED
  BY <1>1, <1>2, <1>3, <1>4 DEF Unique

\* No key is lost, and those of the operations are there.
LEMMA AppliedKeys ==
  ASSUME NEW n \in Nat, NEW coll, NEW ops, Batch(ops, n)
  PROVE  /\ \A d \in coll : \E e \in Applied(coll, ops) : Same(e, d)
         /\ \A o \in ops : \E e \in Applied(coll, ops) : Same(e, o.doc)
<1>1. ASSUME NEW o \in ops PROVE \E e \in Applied(coll, ops) : Same(e, o.doc)
  <2>1. PICK p \in ops : /\ Same(p.doc, o.doc)
                         /\ \A q \in ops : Same(q.doc, p.doc) => q.at <= p.at
    BY LastOperation
  <2>2. p.doc \in Applied(coll, ops)
    BY <2>1 DEF Applied
  <2>3. QED
    BY <2>1, <2>2
<1>2. ASSUME NEW d \in coll PROVE \E e \in Applied(coll, ops) : Same(e, d)
  <2>1. CASE \E o \in ops : Same(d, o.doc)
    <3>1. PICK o \in ops : Same(d, o.doc)
      BY <2>1
    <3>2. PICK e \in Applied(coll, ops) : Same(e, o.doc)
      BY <1>1
    <3>3. QED
      BY <3>1, <3>2 DEF Same
  <2>2. CASE \A o \in ops : ~Same(d, o.doc)
    BY <2>2 DEF Applied, Same
  <2>3. QED
    BY <2>1, <2>2
<1>3. QED
  BY <1>1, <1>2

\* A document that every operation on its key has is there if it was or if one has it.
LEMMA AppliedExact ==
  ASSUME NEW n \in Nat, NEW coll, NEW ops, Batch(ops, n), NEW d,
         \A o \in ops : Same(o.doc, d) => o.doc = d,
         d \in coll \/ \E o \in ops : o.doc = d
  PROVE  d \in Applied(coll, ops)
<1>1. CASE \E o \in ops : o.doc = d
  <2>1. PICK o \in ops : o.doc = d
    BY <1>1
  <2>2. PICK p \in ops : /\ Same(p.doc, o.doc)
                         /\ \A q \in ops : Same(q.doc, p.doc) => q.at <= p.at
    BY LastOperation
  <2>3. p.doc = d
    BY <2>1, <2>2
  <2>4. QED
    BY <2>2, <2>3 DEF Applied
<1>2. CASE d \in coll /\ ~\E o \in ops : o.doc = d
  <2>1. \A o \in ops : ~Same(d, o.doc)
    BY <1>2 DEF Same
  <2>2. QED
    BY <1>2, <2>1 DEF Applied
<1>3. QED
  BY <1>1, <1>2

\* Operations that have what is there change nothing.
LEMMA AppliedQuiet ==
  ASSUME NEW n \in Nat, NEW coll, NEW ops, Batch(ops, n), Unique(coll),
         \A o \in ops : o.doc \in coll
  PROVE  Applied(coll, ops) = coll
<1>1. Applied(coll, ops) \subseteq coll
  BY AppliedFrom
<1>2. ASSUME NEW d \in coll PROVE d \in Applied(coll, ops)
  <2>1. \A o \in ops : Same(o.doc, d) => o.doc = d
    BY DEF Unique
  <2>2. QED
    BY <2>1, AppliedExact
<1>3. QED
  BY <1>1, <1>2

-----------------------------------------------------------------------------
(* Records and pages. *)

\* The first elements of a sequence are its own.
LEMMA FirstOfType ==
  ASSUME NEW S, NEW seq \in Seq(S), NEW n \in Nat
  PROVE  /\ FirstOf(seq, n) \in Seq(S)
         /\ Len(FirstOf(seq, n)) <= Len(seq)
         /\ \A i \in DOMAIN FirstOf(seq, n) : i \in DOMAIN seq /\ FirstOf(seq, n)[i] = seq[i]
<1> DEFINE m == IF n < Len(seq) THEN n ELSE Len(seq)
<1>1. Len(seq) \in Nat /\ DOMAIN seq = 1..Len(seq) /\ m \in 0..Len(seq)
  BY LenProperties
<1>2. /\ SubSeq(seq, 1, m) \in Seq(S)
      /\ Len(SubSeq(seq, 1, m)) = m
      /\ \A i \in 1..m : SubSeq(seq, 1, m)[i] = seq[i]
  <2>1. 1 \in 1..Len(seq)+1 /\ m \in 1-1..Len(seq)
    BY <1>1
  <2> HIDE DEF m
  <2>2. QED
    BY <1>1, <2>1, SubSeqProperties
<1>3. DOMAIN SubSeq(seq, 1, m) = 1..m
  <2> HIDE DEF m
  <2>1. QED
    BY <1>2, LenProperties
<1>4. FirstOf(seq, n) = SubSeq(seq, 1, m)
  BY DEF FirstOf
<1> HIDE DEF m
<1>5. QED
  BY <1>1, <1>2, <1>3, <1>4

\* The competitions that are selected are pages of competitions.
LEMMA SelectedType ==
  ASSUME SourcesAssumption, config \in Configs, NEW entries \in Seq(Entries(Index))
  PROVE  Selected(entries) \in Seq(Competitions)
<1> DEFINE listed == [i \in DOMAIN entries |-> entries[i].thing]
<1>1. config.wanted \in Seq(Competitions) /\ config.maxCompetitions \in Nat
  BY DEF SourcesAssumption
<1>2. listed \in Seq(Competitions)
  <2>1. DOMAIN entries = 1..Len(entries) /\ Len(entries) \in Nat
    BY LenProperties
  <2>2. ASSUME NEW i \in 1..Len(entries) PROVE entries[i].thing \in Competitions
    <3>1. entries[i] \in Entries(Index)
      BY <2>1, ElementOfSeq
    <3>2. QED
      BY <3>1 DEF Entries, Listable
  <2>3. QED
    BY <2>1, <2>2, IsASeq
<1>3. Among(config.wanted, ToSet(listed)) \in Seq(Competitions)
  <2>1. Among(config.wanted, ToSet(listed)) \in Seq(Competitions \cap ToSet(listed))
    BY <1>1, AmongType
  <2> DEFINE a == Among(config.wanted, ToSet(listed))
             S == Competitions \cap ToSet(listed)
  <2>2. a \in Seq(S) /\ S \subseteq Competitions
    BY <2>1
  <2> HIDE DEF a, S
  <2>3. a \in Seq(Competitions)
    BY <2>2
  <2>4. QED
    BY <2>3 DEF a
<1>4. FirstOf(listed, config.maxCompetitions) \in Seq(Competitions)
  BY <1>1, <1>2, FirstOfType
<1> HIDE DEF listed
<1>5. QED
  BY <1>3, <1>4 DEF Selected, listed

\* The matches within the limit are the first of those that are listed.
LEMMA LimitedType ==
  ASSUME SourcesAssumption, config \in Configs, NEW S, NEW entries \in Seq(S)
  PROVE  /\ Limited(entries) \in Seq(S)
         /\ Len(Limited(entries)) <= Len(entries)
         /\ \A i \in DOMAIN Limited(entries) : i \in DOMAIN entries /\ Limited(entries)[i] = entries[i]
<1>1. config.maxMatches \in Nat /\ Len(entries) \in Nat
  BY LenProperties DEF SourcesAssumption
<1>2. QED
  BY <1>1, FirstOfType DEF Limited

\* The record of an entry is a record.
LEMMA RecordType ==
  ASSUME SourcesAssumption, config \in Configs,
         NEW page \in Pages, NEW entries \in Seq(Entries(page)), NEW i \in DOMAIN entries
  PROVE  /\ Ref(page, i, entries) \in Refs
         /\ Record(page, i, entries) \in Recs
         /\ Record(page, i, entries).thing = entries[i].thing
         /\ Record(page, i, entries).key = Ref(page, i, entries)
         /\ Record(page, i, entries).kind = Entity(page)
         /\ Entity(page) = "events" => Record(page, i, entries).match = <<page>>
<1>1. /\ entries[i].thing \in Things /\ entries[i].label \in Labels /\ entries[i].content \in Contents
      /\ i \in Nat
  <2>1. entries[i] \in Entries(page) /\ i \in Nat
    BY ElementOfSeq, LenProperties
  <2>2. QED
    BY <2>1 DEF Entries, Listable
<1>2. Ref(page, i, entries) \in Refs
  BY <1>1 DEF Ref, Refs
<1>3. /\ Entity(page) \in Entities
      /\ Entity(page) = "events" => source = "statsbomb"
      /\ source = "understat" => Entity(page) = "matches"
  BY DEF Entity, Entities
<1>4. <<page>> \in Refs
  BY DEF Refs
<1> DEFINE ref == Ref(page, i, entries)
           entity == Entity(page)
           match == IF entity = "events" THEN <<page>> ELSE ref
<1>5. Record(page, i, entries) = [kind |-> entity, key |-> ref, thing |-> entries[i].thing,
                               content |-> entries[i].content, match |-> match]
  BY DEF Record
<1>6. match \in Refs
  BY <1>2, <1>4
<1> HIDE DEF ref, entity
<1>7. QED
  BY <1>1, <1>2, <1>3, <1>4, <1>5, <1>6 DEF Recs, ref, entity

\* An item that yields the record of an entry of the page.
Yielding(item, page, entries) ==
  /\ item.do = "yield"
  /\ source = "statsbomb" => page # Index
  /\ \E i \in DOMAIN entries : item.record = Record(page, i, entries)

\* An item that gets a page: a competition, or a match right after its record.
Getting(items, n, page, entries) ==
  /\ items[n].do = "get"
  /\ source = "statsbomb"
  /\ \/ page = Index /\ items[n].page \in Competitions
     \/ /\ page \in Competitions /\ items[n].page \in Matches
        /\ n - 1 \in DOMAIN items
        /\ \E i \in DOMAIN entries : /\ items[n].page = entries[i].thing
                                  /\ items[n-1] = Yield(Record(page, i, entries))

ItemsAre(items, page, entries) ==
  /\ items \in Seq(Agenda)
  /\ \A n \in DOMAIN items : \/ Yielding(items[n], page, entries)
                             \/ Getting(items, n, page, entries)

LEMMA YieldingEntry ==
  ASSUME SourcesAssumption, config \in Configs,
         NEW page \in Pages, NEW entries \in Seq(Entries(page)), NEW i \in DOMAIN entries,
         source = "statsbomb" => page # Index
  PROVE  /\ Yield(Record(page, i, entries)) \in Agenda
         /\ Yielding(Yield(Record(page, i, entries)), page, entries)
<1>1. Record(page, i, entries) \in Recs
  BY RecordType
<1>2. QED
  BY <1>1 DEF Agenda, Yield, Yielding

LEMMA YieldingItems ==
  ASSUME SourcesAssumption, config \in Configs,
         NEW page \in Pages, NEW entries \in Seq(Entries(page)),
         source = "statsbomb" => page # Index,
         NEW n \in Nat, NEW D, D = 1..n, D \subseteq DOMAIN entries
  PROVE  ItemsAre([i \in D |-> Yield(Record(page, i, entries))], page, entries)
<1> DEFINE items == [i \in D |-> Yield(Record(page, i, entries))]
<1>1. ASSUME NEW i \in D PROVE items[i] \in Agenda /\ Yielding(items[i], page, entries)
  <2>1. i \in DOMAIN entries /\ items[i] = Yield(Record(page, i, entries))
    OBVIOUS
  <2> HIDE DEF items
  <2>2. QED
    BY <2>1, YieldingEntry
<1>2. items \in Seq(Agenda)
  <2>1. \A i \in 1..n : Yield(Record(page, i, entries)) \in Agenda
    BY <1>1
  <2>2. [i \in 1..n |-> Yield(Record(page, i, entries))] \in Seq(Agenda)
    BY <2>1, IsASeq
  <2>3. QED
    BY <2>2
<1>3. DOMAIN items = D
  OBVIOUS
<1> HIDE DEF items
<1>4. ItemsAre(items, page, entries)
  BY <1>1, <1>2, <1>3 DEF ItemsAre
<1>5. QED
  BY <1>4 DEF items

\* The events of each match come right after its record.
LEMMA MatchItems ==
  ASSUME SourcesAssumption, config \in Configs, source = "statsbomb",
         NEW page \in Competitions, NEW entries \in Seq(Entries(page)),
         NEW l \in Nat, l <= Len(entries)
  PROVE  ItemsAre([n \in 1..2 * l |->
                     IF n % 2 = 1 THEN Yield(Record(page, (n + 1) \div 2, entries))
                     ELSE Get(entries[n \div 2].thing)], page, entries)
<1> DEFINE items == [n \in 1..2 * l |->
                     IF n % 2 = 1 THEN Yield(Record(page, (n + 1) \div 2, entries))
                     ELSE Get(entries[n \div 2].thing)]
<1>1. page \in Pages /\ page # Index /\ Len(entries) \in Nat /\ DOMAIN entries = 1..Len(entries)
  BY LenProperties DEF SourcesAssumption
<1>2. DOMAIN items = 1..2 * l
  OBVIOUS
<1>3. ASSUME NEW n \in 1..2 * l, n % 2 = 1
      PROVE  items[n] \in Agenda /\ Yielding(items[n], page, entries)
  <2>1. (n + 1) \div 2 \in 1..l
    BY <1>3
  <2>2. (n + 1) \div 2 \in DOMAIN entries
    BY <1>1, <2>1
  <2>3. items[n] = Yield(Record(page, (n + 1) \div 2, entries))
    BY <1>3
  <2> DEFINE i == (n + 1) \div 2
  <2>4. i \in DOMAIN entries /\ items[n] = Yield(Record(page, i, entries))
    BY <2>2, <2>3
  <2> HIDE DEF i, items
  <2>5. QED
    BY <1>1, <2>4, YieldingEntry
<1>4. ASSUME NEW n \in 1..2 * l, n % 2 # 1
      PROVE  items[n] \in Agenda /\ Getting(items, n, page, entries)
  <2> DEFINE i == n \div 2
  <2>1. i \in 1..l /\ n = 2 * i
    BY <1>4
  <2>2. i \in DOMAIN entries
    BY <1>1, <2>1
  <2>3. items[n] = Get(entries[i].thing)
    BY <1>4
  <2> HIDE DEF i
  <2>4. n - 1 \in 1..2 * l /\ (n - 1) % 2 = 1 /\ (n - 1 + 1) \div 2 = i
    BY <2>1
  <2>5. items[n-1] = Yield(Record(page, i, entries))
    BY <2>4
  <2>6. entries[i].thing \in Matches
    <3>1. entries[i] \in Entries(page)
      BY <2>2, ElementOfSeq, <1>1
    <3>2. QED
      BY <1>1, <3>1 DEF Entries, Listable
  <2> HIDE DEF items
  <2>7. items[n].do = "get" /\ items[n].page = entries[i].thing /\ items[n] \in Agenda
    BY <2>3, <2>6 DEF Get, Agenda, Matches
  <2>8. QED
    BY <1>2, <2>2, <2>4, <2>5, <2>6, <2>7 DEF Getting
<1>5. items \in Seq(Agenda)
  <2> DEFINE m == 2 * l
             Item(n) == IF n % 2 = 1 THEN Yield(Record(page, (n + 1) \div 2, entries))
                        ELSE Get(entries[n \div 2].thing)
  <2>1. m \in Nat /\ items = [n \in 1..m |-> Item(n)]
    OBVIOUS
  <2>2. \A n \in 1..m : Item(n) \in Agenda
    <3>1. ASSUME NEW n \in 1..m PROVE Item(n) \in Agenda
      <4>1. items[n] \in Agenda
        BY <1>3, <1>4
      <4>2. items[n] = Item(n)
        OBVIOUS
      <4>3. QED
        BY <4>1, <4>2
    <3>2. QED
      BY <3>1
  <2> HIDE DEF m, Item, items
  <2>3. [n \in 1..m |-> Item(n)] \in Seq(Agenda)
    BY <2>1, <2>2, IsASeq
  <2>4. QED
    BY <2>1, <2>3
<1> HIDE DEF items
<1>6. ItemsAre(items, page, entries)
  BY <1>2, <1>3, <1>4, <1>5 DEF ItemsAre
<1>7. QED
  BY <1>6 DEF items

\* A page puts on the agenda what its entries are recorded as, and pages one level below.
LEMMA ItemsType ==
  ASSUME SourcesAssumption, config \in Configs,
         NEW page \in Pages, NEW entries \in Seq(Entries(page))
  PROVE  ItemsAre(Items(page, entries), page, entries)
<1>0. DOMAIN entries = 1..Len(entries) /\ Len(entries) \in Nat
  BY LenProperties
<1>1. CASE source = "statsbomb" /\ page = Index
  <2> DEFINE sel == Selected(entries)
             items == [i \in DOMAIN sel |-> Get(sel[i])]
  <2>1. Items(page, entries) = items
    BY <1>1 DEF Items
  <2>2. sel \in Seq(Competitions) /\ Competitions \subseteq Pages
    BY <1>1, SelectedType DEF SourcesAssumption
  <2> HIDE DEF sel
  <2>3. DOMAIN sel = 1..Len(sel) /\ Len(sel) \in Nat /\ \A i \in DOMAIN sel : sel[i] \in Competitions
    BY <2>2, LenProperties, ElementOfSeq
  <2>4. \A i \in 1..Len(sel) : Get(sel[i]) \in Agenda
    BY <2>2, <2>3 DEF Agenda
  <2>5. items \in Seq(Agenda)
    BY <2>3, <2>4, IsASeq
  <2>6. ASSUME NEW i \in DOMAIN items PROVE Getting(items, i, page, entries)
    <3>1. items[i].do = "get" /\ items[i].page \in Competitions
      BY <2>3 DEF Get
    <3> HIDE DEF items
    <3>2. QED
      BY <1>1, <3>1 DEF Getting
  <2> HIDE DEF items
  <2>7. QED
    BY <2>1, <2>5, <2>6 DEF ItemsAre
<1>2. CASE source = "statsbomb" /\ page \in Competitions /\ config.includeEvents
  <2> DEFINE l == Len(Limited(entries))
  <2>1. l \in Nat /\ l <= Len(entries) /\ page # Index
    BY <1>2, LimitedType, LenProperties DEF SourcesAssumption
  <2>2. Items(page, entries) =
          [n \in 1..2 * l |-> IF n % 2 = 1 THEN Yield(Record(page, (n + 1) \div 2, entries))
                              ELSE Get(entries[n \div 2].thing)]
    BY <1>2, <2>1 DEF Items
  <2> HIDE DEF l
  <2>3. QED
    BY <1>2, <2>1, <2>2, MatchItems
<1>3. CASE source = "statsbomb" /\ page \in Competitions /\ ~config.includeEvents
  <2> DEFINE D == DOMAIN Limited(entries)
  <2>1. D = 1..Len(Limited(entries)) /\ Len(Limited(entries)) \in Nat /\ D \subseteq DOMAIN entries
        /\ page # Index
    BY <1>3, LimitedType, LenProperties DEF SourcesAssumption
  <2>2. Items(page, entries) = [i \in D |-> Yield(Record(page, i, entries))]
    BY <1>3, <2>1 DEF Items
  <2> HIDE DEF D
  <2>3. ItemsAre([i \in D |-> Yield(Record(page, i, entries))], page, entries)
    BY <2>1, YieldingItems
  <2>4. QED
    BY <2>2, <2>3
<1>4. CASE source # "statsbomb" \/ (page # Index /\ page \notin Competitions)
  <2>1. Items(page, entries) = [i \in DOMAIN entries |-> Yield(Record(page, i, entries))]
    BY <1>4 DEF Items
  <2> DEFINE D == DOMAIN entries
  <2>2. D = 1..Len(entries) /\ D \subseteq DOMAIN entries
    BY <1>0
  <2>3. Items(page, entries) = [i \in D |-> Yield(Record(page, i, entries))]
    BY <2>1
  <2> HIDE DEF D
  <2>4. ItemsAre([i \in D |-> Yield(Record(page, i, entries))], page, entries)
    BY <1>0, <1>4, <2>2, YieldingItems
  <2>5. QED
    BY <2>3, <2>4
<1>5. config.includeEvents \in BOOLEAN
  BY DEF SourcesAssumption
<1>6. QED
  BY <1>1, <1>2, <1>3, <1>4, <1>5

\* What a record maps to: its own document, and with it the team_stats of understat.
LEMMA MappedDocs ==
  ASSUME NEW r \in Recs
  PROVE  /\ \E own \in ToSet(Mapped(r)) : own.kind = r.kind /\ own.key = UnifiedId(r.key)
         /\ \A d \in ToSet(Mapped(r)) :
              /\ d.thing = r.thing /\ d.match = UnifiedId(r.match)
              /\ \/ d.kind = r.kind /\ d.key = UnifiedId(r.key)
                 \/ /\ source = "understat" /\ d.kind = "team_stats"
                    /\ \/ d.key = <<"home", UnifiedId(r.key)>>
                       \/ d.key = <<"away", UnifiedId(r.key)>>
         /\ \A d \in ToSet(Mapped(r)), e \in ToSet(Mapped(r)) : Same(d, e) => d = e
<1> DEFINE Doc(collection, key) ==
             [r EXCEPT !.kind = collection, !.key = key, !.match = UnifiedId(r.match)]
           own == Doc(r.kind, UnifiedId(r.key))
           home == Doc("team_stats", <<"home", UnifiedId(r.key)>>)
           away == Doc("team_stats", <<"away", UnifiedId(r.key)>>)
<1>1. /\ r \in [kind : Entities, key : Refs, thing : Things, content : Contents, match : Refs]
      /\ r.kind # "team_stats"
  BY DEF Recs, Entities
<1>2. ASSUME NEW collection, NEW key
      PROVE  /\ Doc(collection, key).kind = collection /\ Doc(collection, key).key = key
             /\ Doc(collection, key).thing = r.thing
             /\ Doc(collection, key).match = UnifiedId(r.match)
  BY <1>1
<1>3. ToSet(Mapped(r)) = IF source = "understat" THEN {own, home, away} ELSE {own}
  <2>1. Mapped(r) = IF source = "understat" THEN <<own, home, away>> ELSE <<own>>
    BY DEF Mapped
  <2> HIDE DEF own, home, away
  <2>2. QED
    BY <2>1 DEF ToSet
<1>4. /\ own.kind = r.kind /\ own.key = UnifiedId(r.key)
      /\ own.thing = r.thing /\ own.match = UnifiedId(r.match)
  BY <1>2
<1>5. /\ home.kind = "team_stats" /\ home.key = <<"home", UnifiedId(r.key)>>
      /\ home.thing = r.thing /\ home.match = UnifiedId(r.match)
  BY <1>2
<1>6. /\ away.kind = "team_stats" /\ away.key = <<"away", UnifiedId(r.key)>>
      /\ away.thing = r.thing /\ away.match = UnifiedId(r.match)
  BY <1>2
<1> HIDE DEF own, home, away
<1>7. ~Same(own, home) /\ ~Same(own, away) /\ ~Same(home, away)
      /\ ~Same(home, own) /\ ~Same(away, own) /\ ~Same(away, home)
  <2>1. <<"home", UnifiedId(r.key)>> # <<"away", UnifiedId(r.key)>>
    OBVIOUS
  <2>2. QED
    BY <1>1, <1>4, <1>5, <1>6, <2>1 DEF Same
<1>8. QED
  BY <1>3, <1>4, <1>5, <1>6, <1>7

\* What two records map to is under one key only if they are.
LEMMA MappedKeys ==
  ASSUME NEW r \in Recs, NEW s \in Recs,
         NEW d \in ToSet(Mapped(r)), NEW e \in ToSet(Mapped(s)), Same(d, e)
  PROVE  Same(r, s)
<1>1. d.kind = e.kind /\ d.key = e.key
  BY DEF Same
<1>2. /\ r.kind # "team_stats" /\ s.kind # "team_stats"
      /\ source = "understat" => r.kind = s.kind
  BY DEF Recs, Entities
<1>3. \/ d.kind = r.kind /\ d.key = UnifiedId(r.key)
      \/ /\ source = "understat" /\ d.kind = "team_stats"
         /\ \/ d.key = <<"home", UnifiedId(r.key)>>
            \/ d.key = <<"away", UnifiedId(r.key)>>
  BY MappedDocs
<1>4. \/ e.kind = s.kind /\ e.key = UnifiedId(s.key)
      \/ /\ source = "understat" /\ e.kind = "team_stats"
         /\ \/ e.key = <<"home", UnifiedId(s.key)>>
            \/ e.key = <<"away", UnifiedId(s.key)>>
  BY MappedDocs
<1>5. UnifiedId(r.key) = UnifiedId(s.key) /\ r.kind = s.kind
  BY <1>1, <1>2, <1>3, <1>4
<1>6. r.key = s.key
  BY <1>5 DEF UnifiedId
<1>7. QED
  BY <1>5, <1>6 DEF Same

\* The operations of a flush are a batch, and so are a part of them.
LEMMA FlushOps ==
  ASSUME NEW buffer \in Seq(Recs)
  PROVE  /\ Len(buffer) \in Nat
         /\ \A i \in DOMAIN buffer : buffer[i] \in Recs
         /\ \A o \in RawOps(buffer) : o.doc \in ToSet(buffer)
         /\ \A i \in DOMAIN buffer : \E o \in RawOps(buffer) : o.doc = buffer[i]
         /\ \A o \in UnifiedOps(buffer) :
              \E i \in DOMAIN buffer : o.at = i /\ o.doc \in ToSet(Mapped(buffer[i]))
         /\ \A i \in DOMAIN buffer : \A d \in ToSet(Mapped(buffer[i])) :
              \E o \in UnifiedOps(buffer) : o.at = i /\ o.doc = d
         /\ \A ops \in SUBSET RawOps(buffer) : Batch(ops, Len(buffer))
         /\ \A ops \in SUBSET UnifiedOps(buffer) : Batch(ops, Len(buffer))
<1>1. /\ Len(buffer) \in Nat /\ DOMAIN buffer = 1..Len(buffer)
      /\ \A i \in DOMAIN buffer : buffer[i] \in Recs
  BY LenProperties, ElementOfSeq
<1>2. \A o \in RawOps(buffer) : o.at \in DOMAIN buffer /\ o.doc = buffer[o.at]
  BY DEF RawOps
<1>3. ASSUME NEW i \in DOMAIN buffer PROVE \E o \in RawOps(buffer) : o.doc = buffer[i]
  <2>1. [at |-> i, doc |-> buffer[i]] \in RawOps(buffer)
    BY DEF RawOps
  <2>2. QED
    BY <2>1
<1>4. ASSUME NEW o \in UnifiedOps(buffer)
      PROVE  \E i \in DOMAIN buffer : o.at = i /\ o.doc \in ToSet(Mapped(buffer[i]))
  BY DEF UnifiedOps
<1>5. ASSUME NEW i \in DOMAIN buffer, NEW d \in ToSet(Mapped(buffer[i]))
      PROVE  \E o \in UnifiedOps(buffer) : o.at = i /\ o.doc = d
  <2>1. [at |-> i, doc |-> d] \in UnifiedOps(buffer)
    BY DEF UnifiedOps
  <2>2. QED
    BY <2>1
<1>6. ASSUME NEW ops \in SUBSET RawOps(buffer) PROVE Batch(ops, Len(buffer))
  BY <1>1, <1>2 DEF Batch
<1>7. ASSUME NEW ops \in SUBSET UnifiedOps(buffer) PROVE Batch(ops, Len(buffer))
  <2>1. ASSUME NEW o \in ops PROVE o.at \in 1..Len(buffer)
    BY <1>1, <1>4
  <2>2. ASSUME NEW o \in ops, NEW p \in ops, o.at = p.at, Same(o.doc, p.doc)
        PROVE  o.doc = p.doc
    <3>1. PICK i \in DOMAIN buffer : o.at = i /\ o.doc \in ToSet(Mapped(buffer[i]))
      BY <1>4
    <3>2. p.doc \in ToSet(Mapped(buffer[i]))
      BY <1>4, <2>2, <3>1
    <3>3. buffer[i] \in Recs
      BY <1>1
    <3>4. QED
      BY <2>2, <3>1, <3>2, <3>3, MappedDocs
  <2>3. QED
    BY <2>1, <2>2 DEF Batch
<1>8. ASSUME NEW o \in RawOps(buffer) PROVE o.doc \in ToSet(buffer)
  BY <1>2 DEF ToSet
<1>9. QED
  BY <1>1, <1>3, <1>4, <1>5, <1>6, <1>7, <1>8

-----------------------------------------------------------------------------
(* The site. *)

\* What InsertAt makes of a sequence.
LEMMA InsertAtProperties ==
  ASSUME NEW S, NEW seq \in Seq(S), NEW i \in 1..Len(seq)+1, NEW e \in S
  PROVE  /\ InsertAt(seq, i, e) \in Seq(S)
         /\ Len(InsertAt(seq, i, e)) = Len(seq) + 1
         /\ \A j \in 1..Len(seq)+1 :
              InsertAt(seq, i, e)[j] = IF j < i THEN seq[j] ELSE IF j = i THEN e ELSE seq[j-1]
<1> DEFINE a == SubSeq(seq, 1, i-1)
           b == SubSeq(seq, i, Len(seq))
           n == Len(seq)
<1>1. n \in Nat
  BY LenProperties
<1>2. a \in Seq(S) /\ Len(a) = i - 1 /\ \A j \in 1..i-1 : a[j] = seq[j]
  <2> DEFINE k == i - 1
  <2>1. 1 \in 1..n+1 /\ k \in 1-1..n /\ k - 1 + 1 = k
    BY <1>1
  <2>2. \A j \in 1..k-1+1 : 1 + j - 1 = j
    BY <2>1
  <2> HIDE DEF k
  <2>3. SubSeq(seq, 1, k) \in Seq(S) /\ Len(SubSeq(seq, 1, k)) = k
        /\ \A j \in 1..k : SubSeq(seq, 1, k)[j] = seq[j]
    BY <2>1, <2>2, SubSeqProperties
  <2>4. QED
    BY <2>3 DEF k
<1>3. b \in Seq(S) /\ Len(b) = n - i + 1 /\ \A j \in 1..n-i+1 : b[j] = seq[i+j-1]
  <2>1. i \in 1..n+1 /\ n \in i-1..n
    BY <1>1
  <2>2. QED
    BY <2>1, SubSeqProperties
<1>4. <<e>> \in Seq(S) /\ Len(<<e>>) = 1 /\ <<e>>[1] = e
  OBVIOUS
<1> DEFINE c == a \o <<e>>
<1>5. c \in Seq(S) /\ Len(c) = i /\ \A j \in 1..i : c[j] = IF j < i THEN seq[j] ELSE e
  <2> HIDE DEF a
  <2>1. c \in Seq(S) /\ Len(c) = Len(a) + 1
        /\ \A j \in 1..Len(a)+1 : c[j] = IF j <= Len(a) THEN a[j] ELSE <<e>>[j - Len(a)]
    BY <1>2, <1>4, ConcatProperties
  <2> HIDE DEF c
  <2>2. ASSUME NEW j \in 1..i PROVE c[j] = IF j < i THEN seq[j] ELSE e
    <3>1. j \in 1..Len(a)+1 /\ (j < i => j \in 1..i-1) /\ (j <= Len(a) <=> j < i)
      BY <1>1, <1>2
    <3>2. ~(j < i) => j - Len(a) = 1
      BY <1>1, <1>2
    <3>3. QED
      BY <1>2, <1>4, <2>1, <3>1, <3>2
  <2>3. QED
    BY <1>1, <1>2, <2>1, <2>2
<1> DEFINE d == c \o b
<1>6. InsertAt(seq, i, e) = d
  BY DEF InsertAt
<1>7. d \in Seq(S) /\ Len(d) = n + 1
      /\ \A j \in 1..n+1 : d[j] = IF j <= i THEN c[j] ELSE b[j - i]
  <2> HIDE DEF c, b
  <2>1. d \in Seq(S) /\ Len(d) = Len(c) + Len(b)
        /\ \A j \in 1..Len(c)+Len(b) : d[j] = IF j <= Len(c) THEN c[j] ELSE b[j - Len(c)]
    BY <1>3, <1>5, ConcatProperties
  <2>2. Len(c) + Len(b) = n + 1
    BY <1>1, <1>3, <1>5
  <2> HIDE DEF d
  <2>3. QED
    BY <1>5, <2>1, <2>2
<1> HIDE DEF d
<1>8. ASSUME NEW j \in 1..n+1
      PROVE  d[j] = IF j < i THEN seq[j] ELSE IF j = i THEN e ELSE seq[j-1]
  <2> HIDE DEF c, b
  <2>1. CASE j <= i
    <3>1. j \in 1..i
      BY <2>1
    <3>2. QED
      BY <1>5, <1>7, <2>1, <3>1
  <2>2. CASE ~(j <= i)
    <3>1. j - i \in 1..n-i+1 /\ i + (j - i) - 1 = j - 1 /\ ~(j < i) /\ j # i
      BY <1>1, <2>2
    <3>2. b[j-i] = seq[i + (j - i) - 1]
      BY <1>3, <3>1
    <3>3. QED
      BY <1>7, <2>2, <3>1, <3>2
  <2>3. QED
    BY <2>1, <2>2
<1>9. QED
  BY <1>6, <1>7, <1>8

\* A page goes on listing its things, once each, and things that the site did not have.
Tells(page, entries) ==
  /\ entries \in Seq(Entries(page))
  /\ \A i \in DOMAIN entries, j \in DOMAIN entries : entries[i].thing = entries[j].thing => i = j
  /\ \A i \in DOMAIN site[page] : \E j \in DOMAIN entries : entries[j].thing = site[page][i].thing
  /\ \A j \in DOMAIN entries :
       \/ \E i \in DOMAIN site[page] : entries[j].thing = site[page][i].thing
       \/ \A p \in Pages : \A i \in DOMAIN site[p] : site[p][i].thing # entries[j].thing

LEMMA EditTells ==
  ASSUME SiteTyped(site), NEW page \in Pages, NEW entries,
         entries \in Seq(Entries(page)), DOMAIN entries = DOMAIN site[page],
         \A i \in DOMAIN entries : entries[i].thing = site[page][i].thing
  PROVE  Tells(page, entries)
BY DEF Tells, SiteTyped

LEMMA AppearTells ==
  ASSUME SourcesAssumption, SiteTyped(site), NEW page \in Pages,
         NEW i \in 1..Len(site[page]) + 1, NEW entry \in Entries(page),
         \A p \in Pages : \A j \in DOMAIN site[p] : site[p][j].thing # entry.thing
  PROVE  Tells(page, InsertAt(site[page], i, entry))
<1> DEFINE old == site[page]
           new == InsertAt(old, i, entry)
           n == Len(old)
<1>1. old \in Seq(Entries(page)) /\ n \in Nat /\ DOMAIN old = 1..n /\ i \in 1..n+1
  BY LenProperties DEF SiteTyped
<1>2. /\ new \in Seq(Entries(page)) /\ Len(new) = n + 1
      /\ \A j \in 1..n+1 : new[j] = IF j < i THEN old[j] ELSE IF j = i THEN entry ELSE old[j-1]
  <2> DEFINE S == Entries(page)
  <2>1. old \in Seq(S) /\ i \in 1..Len(old)+1 /\ entry \in S
    BY <1>1
  <2> HIDE DEF old, S
  <2>2. /\ InsertAt(old, i, entry) \in Seq(S)
        /\ Len(InsertAt(old, i, entry)) = Len(old) + 1
        /\ \A j \in 1..Len(old)+1 : InsertAt(old, i, entry)[j] =
             IF j < i THEN old[j] ELSE IF j = i THEN entry ELSE old[j-1]
    BY <2>1, InsertAtProperties
  <2>3. QED
    BY <2>2 DEF S
<1>3. DOMAIN new = 1..n+1
  <2> HIDE DEF new
  <2>1. QED
    BY <1>1, <1>2, LenProperties
<1> DEFINE Back(j) == IF j < i THEN j ELSE j - 1
<1>4. ASSUME NEW j \in 1..n+1
      PROVE  IF j = i THEN new[j] = entry ELSE Back(j) \in 1..n /\ new[j] = old[Back(j)]
  <2> HIDE DEF new, old, n
  <2>1. CASE j = i
    BY <1>1, <1>2, <2>1
  <2>2. CASE j # i
    <3>1. Back(j) \in 1..n
      BY <1>1, <2>2
    <3>2. QED
      BY <1>1, <1>2, <2>2, <3>1
  <2>3. QED
    BY <2>1, <2>2
<1>5. \A j \in 1..n : old[j].thing # entry.thing
  BY <1>1
<1>6. \A j \in 1..n, k \in 1..n : old[j].thing = old[k].thing => j = k
  <2>1. \A j \in DOMAIN site[page], k \in DOMAIN site[page] :
          site[page][j].thing = site[page][k].thing => j = k
    BY DEF SiteTyped
  <2>2. QED
    BY <1>1, <2>1
<1>7. ASSUME NEW j \in 1..n+1, NEW k \in 1..n+1, new[j].thing = new[k].thing PROVE j = k
  <2> HIDE DEF new, old, n
  <2>1. CASE j = i \/ k = i
    BY <1>4, <1>5, <1>7, <2>1
  <2>2. CASE j # i /\ k # i
    <3>1. /\ Back(j) \in 1..n /\ new[j] = old[Back(j)]
          /\ Back(k) \in 1..n /\ new[k] = old[Back(k)]
      BY <1>4, <2>2
    <3>2. Back(j) = Back(k)
      <4> HIDE DEF Back
      <4>1. QED
        BY <1>6, <1>7, <3>1
    <3>3. QED
      BY <1>1, <2>2, <3>2
  <2>3. QED
    BY <2>1, <2>2
<1>8. ASSUME NEW j \in 1..n PROVE \E k \in 1..n+1 : new[k].thing = old[j].thing
  <2> DEFINE k == IF j < i THEN j ELSE j + 1
  <2>1. k \in 1..n+1 /\ k # i /\ Back(k) = j
    BY <1>1
  <2> HIDE DEF new, old, n, k
  <2>2. new[k] = old[j]
    BY <1>4, <2>1
  <2>3. QED
    BY <2>1, <2>2
<1>9. ASSUME NEW j \in 1..n+1
      PROVE  \/ \E k \in 1..n : new[j].thing = old[k].thing
             \/ \A p \in Pages : \A k \in DOMAIN site[p] : site[p][k].thing # new[j].thing
  <2> HIDE DEF new, old, n, Back
  <2>1. CASE j = i
    BY <1>4, <2>1
  <2>2. CASE j # i
    <3>1. Back(j) \in 1..n /\ new[j].thing = old[Back(j)].thing
      BY <1>4, <2>2
    <3>2. QED
      BY <3>1
  <2>3. QED
    BY <2>1, <2>2
<1> HIDE DEF new, n
<1>10. QED
  BY <1>1, <1>2, <1>3, <1>7, <1>8, <1>9 DEF Tells, new

\* The site changes.
SiteChanges ==
  \E page \in Pages :
     \/ \E i \in DOMAIN site[page], content \in Contents : Revise(page, i, content)
     \/ \E i \in DOMAIN site[page], label \in Labels : Relabel(page, i, label)
     \/ \E i \in 1..Len(site[page]) + 1, thing \in MayList[page], label \in Labels,
           content \in Contents :
          Appear(page, i, [thing |-> thing, label |-> label, content |-> content])

LEMMA SiteChange ==
  ASSUME SourcesAssumption, SiteTyped(site), SiteChanges
  PROVE  \E page \in Pages : \E entries : Changes(page, entries) /\ Tells(page, entries)
<1>1. PICK page \in Pages :
     \/ \E i \in DOMAIN site[page], content \in Contents : Revise(page, i, content)
     \/ \E i \in DOMAIN site[page], label \in Labels : Relabel(page, i, label)
     \/ \E i \in 1..Len(site[page]) + 1, thing \in MayList[page], label \in Labels,
           content \in Contents :
          Appear(page, i, [thing |-> thing, label |-> label, content |-> content])
  BY DEF SiteChanges
<1> DEFINE n == Len(site[page])
<1>2. /\ site[page] \in Seq(Entries(page)) /\ n \in Nat /\ DOMAIN site[page] = 1..n
      /\ \A k \in 1..n : site[page][k] \in Entries(page)
      /\ site[page] = [k \in 1..n |-> site[page][k]]
  BY LenProperties, ElementOfSeq DEF SiteTyped
<1>3. CASE \E i \in DOMAIN site[page], content \in Contents : Revise(page, i, content)
  <2>1. PICK i \in DOMAIN site[page], content \in Contents : Revise(page, i, content)
    BY <1>3
  <2> DEFINE e == [site[page][i] EXCEPT !.content = content]
             entries == [site[page] EXCEPT ![i].content = content]
  <2>2. e \in Entries(page) /\ e.thing = site[page][i].thing
    BY <1>2 DEF Entries
  <2>3. entries = [site[page] EXCEPT ![i] = e]
    BY <1>2
  <2> HIDE DEF e
  <2>4. \A k \in 1..n : entries[k] = IF k = i THEN e ELSE site[page][k]
    BY <1>2, <2>3
  <2>5. DOMAIN entries = 1..n /\ entries \in Seq(Entries(page))
    BY <1>2, <2>2, <2>3, ExceptSeq
  <2>6. Changes(page, entries)
    BY <2>1 DEF Revise
  <2> HIDE DEF entries, n
  <2>7. \A k \in DOMAIN entries : entries[k].thing = site[page][k].thing
    BY <1>2, <2>2, <2>4, <2>5
  <2>8. Tells(page, entries)
    <3>1. DOMAIN entries = DOMAIN site[page]
      BY <1>2, <2>5
    <3>2. entries \in Seq(Entries(page)) /\ \A k \in DOMAIN entries : entries[k].thing = site[page][k].thing
      BY <2>5, <2>7
    <3>3. QED
      BY <3>1, <3>2, EditTells
  <2>9. QED
    BY <2>6, <2>8
<1>4. CASE \E i \in DOMAIN site[page], label \in Labels : Relabel(page, i, label)
  <2>1. PICK i \in DOMAIN site[page], label \in Labels : Relabel(page, i, label)
    BY <1>4
  <2> DEFINE e == [site[page][i] EXCEPT !.label = label]
             entries == [site[page] EXCEPT ![i].label = label]
  <2>2. e \in Entries(page) /\ e.thing = site[page][i].thing
    BY <1>2 DEF Entries
  <2>3. entries = [site[page] EXCEPT ![i] = e]
    BY <1>2
  <2> HIDE DEF e
  <2>4. \A k \in 1..n : entries[k] = IF k = i THEN e ELSE site[page][k]
    BY <1>2, <2>3
  <2>5. DOMAIN entries = 1..n /\ entries \in Seq(Entries(page))
    BY <1>2, <2>2, <2>3, ExceptSeq
  <2>6. Changes(page, entries)
    BY <2>1 DEF Relabel
  <2> HIDE DEF entries, n
  <2>7. \A k \in DOMAIN entries : entries[k].thing = site[page][k].thing
    BY <1>2, <2>2, <2>4, <2>5
  <2>8. Tells(page, entries)
    <3>1. DOMAIN entries = DOMAIN site[page]
      BY <1>2, <2>5
    <3>2. entries \in Seq(Entries(page)) /\ \A k \in DOMAIN entries : entries[k].thing = site[page][k].thing
      BY <2>5, <2>7
    <3>3. QED
      BY <3>1, <3>2, EditTells
  <2>9. QED
    BY <2>6, <2>8
<1>5. CASE \E i \in 1..Len(site[page]) + 1, thing \in MayList[page], label \in Labels,
              content \in Contents :
             Appear(page, i, [thing |-> thing, label |-> label, content |-> content])
  <2>1. PICK i \in 1..Len(site[page]) + 1, thing \in MayList[page], label \in Labels,
              content \in Contents :
             Appear(page, i, [thing |-> thing, label |-> label, content |-> content])
    BY <1>5
  <2> DEFINE entry == [thing |-> thing, label |-> label, content |-> content]
             entries == InsertAt(site[page], i, entry)
  <2>2. entry \in Entries(page)
    BY DEF SourcesAssumption, Entries
  <2>3. /\ \A p \in Pages : \A j \in DOMAIN site[p] : site[p][j].thing # entry.thing
        /\ Changes(page, entries)
    BY <2>1 DEF Appear
  <2> HIDE DEF entry
  <2>4. Tells(page, entries)
    BY <2>2, <2>3, AppearTells
  <2>5. QED
    BY <2>3, <2>4
<1>6. QED
  BY <1>1, <1>3, <1>4, <1>5

-----------------------------------------------------------------------------
(* Types. *)

LEMMA SameConfig ==
  ASSUME config' = config
  PROVE  Recs' = Recs /\ Agenda' = Agenda /\ source' = source
BY DEF Recs, Agenda, source

\* What a flush writes is typed.
LEMMA FlushTyped ==
  ASSUME RunTyped
  PROVE  /\ run.buffer \in Seq(Recs) /\ Len(run.buffer) \in Nat
         /\ \A o \in RawOps(run.buffer) : o.doc \in Recs
         /\ \A o \in UnifiedOps(run.buffer) : o.doc.kind \in Collections /\ o.doc.thing \in Things
         /\ Bulk \subseteq UnifiedOps(run.buffer)
<1>1. run.buffer \in Seq(Recs)
  BY DEF RunTyped
<1> DEFINE buffer == run.buffer
<1>2. \A i \in DOMAIN buffer : buffer[i] \in Recs
  BY <1>1, FlushOps
<1>3. ASSUME NEW o \in RawOps(buffer) PROVE o.doc \in Recs
  BY <1>1, <1>2, <1>3, FlushOps DEF ToSet
<1>4. ASSUME NEW o \in UnifiedOps(buffer) PROVE o.doc.kind \in Collections /\ o.doc.thing \in Things
  <2>1. PICK i \in DOMAIN buffer : o.doc \in ToSet(Mapped(buffer[i]))
    BY <1>1, <1>4, FlushOps
  <2>2. buffer[i] \in Recs
    BY <1>2
  <2>3. buffer[i].kind \in Entities /\ buffer[i].thing \in Things
    BY <2>2 DEF Recs
  <2>4. QED
    BY <2>1, <2>2, <2>3, MappedDocs DEF Collections
<1>5. Bulk \subseteq UnifiedOps(buffer)
  BY DEF Bulk
<1>6. QED
  BY <1>1, <1>3, <1>4, <1>5, LenProperties

\* Raw and unified collections keep their types when a part of a flush is applied.
LEMMA RawTyped ==
  ASSUME RunTyped, StoreTyped, NEW ops \in SUBSET RawOps(run.buffer)
  PROVE  Applied(raw, ops) \subseteq Recs /\ Unique(Applied(raw, ops))
<1>1. Batch(ops, Len(run.buffer)) /\ Len(run.buffer) \in Nat
  BY FlushTyped, FlushOps
<1>2. Unique(Applied(raw, ops))
  BY <1>1, AppliedUnique DEF StoreTyped
<1>3. Applied(raw, ops) \subseteq Recs
  BY FlushTyped, AppliedFrom DEF StoreTyped
<1>4. QED
  BY <1>2, <1>3

LEMMA UnifiedTyped ==
  ASSUME RunTyped, StoreTyped, NEW ops \in SUBSET Bulk
  PROVE  /\ \A d \in Applied(unified, ops) : d.kind \in Collections /\ d.thing \in Things
         /\ Unique(Applied(unified, ops))
<1>1. ops \in SUBSET UnifiedOps(run.buffer)
  BY FlushTyped
<1>2. Batch(ops, Len(run.buffer)) /\ Len(run.buffer) \in Nat
  BY <1>1, FlushTyped, FlushOps
<1>3. Unique(Applied(unified, ops))
  BY <1>2, AppliedUnique DEF StoreTyped
<1>4. \A d \in Applied(unified, ops) : d.kind \in Collections /\ d.thing \in Things
  BY <1>1, FlushTyped, AppliedFrom DEF StoreTyped
<1>5. QED
  BY <1>3, <1>4

\* What is left of the types when the agenda and the buffer have theirs.
LEMMA RunTypedAfter ==
  ASSUME config' = config, NEW on \in BOOLEAN, NEW agenda \in Seq(Agenda),
         NEW buffer \in Seq(Recs), NEW due \in SUBSET Collections,
         run' = [on |-> on, agenda |-> agenda, buffer |-> buffer, due |-> due],
         Len(buffer) <= BatchSize, ~on => run' = NoRun, buffer = <<>> => due = {}
  PROVE  RunTyped'
<1>1. Recs' = Recs /\ Agenda' = Agenda
  BY SameConfig
<1>2. NoRun' = NoRun /\ Collections' = Collections
  BY DEF NoRun, Collections, Entities
<1>3. QED
  BY <1>1, <1>2 DEF RunTyped

LEMMA NoRunTyped ==
  ASSUME SourcesAssumption, config' = config, run' = NoRun
  PROVE  RunTyped'
<1>1. <<>> \in Seq(Agenda) /\ <<>> \in Seq(Recs) /\ Len(<<>>) = 0 /\ BatchSize \in Nat
  BY EmptySeq DEF SourcesAssumption
<1> DEFINE e == <<>>
<1>2. run' = [on |-> FALSE, agenda |-> e, buffer |-> e, due |-> {}] /\ {} \in SUBSET Collections
  BY DEF NoRun
<1>3. e \in Seq(Agenda) /\ e \in Seq(Recs) /\ Len(e) <= BatchSize
  BY <1>1
<1> HIDE DEF e
<1>4. QED
  BY <1>2, <1>3, RunTypedAfter

LEMMA RunFields ==
  ASSUME RunTyped
  PROVE  /\ run = [on |-> run.on, agenda |-> run.agenda, buffer |-> run.buffer, due |-> run.due]
         /\ run.on \in BOOLEAN /\ run.agenda \in Seq(Agenda) /\ run.buffer \in Seq(Recs)
         /\ run.due \in SUBSET Collections /\ Len(run.buffer) <= BatchSize
         /\ (run.buffer = <<>> => run.due = {})
         /\ (~run.on => run = NoRun)
BY DEF RunTyped

LEMMA StartTyped ==
  ASSUME SourcesAssumption, Typed, Start
  PROVE  Typed'
<1>1. config.roots \in Seq(Pages)
  BY DEF SourcesAssumption, Typed
<1> DEFINE roots == config.roots
           agenda == [i \in DOMAIN roots |-> Get(roots[i])]
<1>2. agenda \in Seq(Agenda)
  <2> HIDE DEF roots
  <2>1. DOMAIN roots = 1..Len(roots) /\ Len(roots) \in Nat /\ \A i \in DOMAIN roots : roots[i] \in Pages
    BY <1>1, LenProperties, ElementOfSeq DEF roots
  <2>2. \A i \in 1..Len(roots) : Get(roots[i]) \in Agenda
    BY <2>1 DEF Agenda
  <2>3. [i \in 1..Len(roots) |-> Get(roots[i])] \in Seq(Agenda)
    BY <2>1, <2>2, IsASeq
  <2>4. QED
    BY <2>1, <2>3
<1> DEFINE e == <<>>
<1>3. run' = [on |-> TRUE, agenda |-> agenda, buffer |-> e, due |-> {}]
  BY DEF Start, NoRun
<1>4. e \in Seq(Recs) /\ Len(e) = 0 /\ BatchSize \in Nat
  BY EmptySeq DEF SourcesAssumption
<1>5. RunTyped'
  <2> HIDE DEF agenda, e
  <2>1. config' = config /\ {} \in SUBSET Collections /\ Len(e) <= BatchSize
    BY <1>4 DEF Start
  <2>2. QED
    BY <1>2, <1>3, <1>4, <2>1, RunTypedAfter
<1>6. history' \in Histories
  <2>1. history \in Histories
    BY DEF Typed
  <2>2. history' = [history EXCEPT !.started = history.started + 1, !.fresh = TRUE]
    BY DEF Start
  <2>3. history.started + 1 \in Nat
    BY <2>1 DEF Histories
  <2> DEFINE n == history.started + 1
  <2> HIDE DEF n
  <2>4. n \in Nat /\ history' = [history EXCEPT !.started = n, !.fresh = TRUE]
    BY <2>2, <2>3 DEF n
  <2>5. QED
    BY <2>1, <2>4 DEF Histories
<1>7. StoreTyped' /\ SiteTyped(site)' /\ config' \in Configs /\ ended' = ended
  <2>1. Recs' = Recs
    BY SameConfig DEF Start
  <2>2. QED
    BY <2>1 DEF Start, Typed, StoreTyped, SiteTyped, Unique, Collections, Entities
<1>8. QED
  BY <1>5, <1>6, <1>7 DEF Typed, Histories

\* A step that leaves the stores alone keeps their types.
LEMMA StoreTypedSame ==
  ASSUME StoreTyped, config' = config, UNCHANGED <<raw, unified>>
  PROVE  StoreTyped'
<1>1. Recs' = Recs
  BY SameConfig
<1>2. QED
  BY <1>1 DEF StoreTyped, Unique, Collections, Entities, Same

LEMMA GetPageTyped ==
  ASSUME SourcesAssumption, Typed, GetPage
  PROVE  Typed'
<1> DEFINE page == Head(run.agenda).page
           items == Items(page, site[page])
           agenda == items \o Tail(run.agenda)
<1>1. /\ run.agenda \in Seq(Agenda) /\ run.agenda # <<>>
      /\ Head(run.agenda).do = "get"
      /\ run' = [run EXCEPT !.agenda = agenda]
  BY RunFields DEF GetPage, Resumed, Typed
<1>2. Head(run.agenda) \in Agenda /\ Tail(run.agenda) \in Seq(Agenda)
  BY <1>1, HeadTailProperties
<1>3. page \in Pages
  BY <1>1, <1>2 DEF Agenda, Get, Yield
<1>4. items \in Seq(Agenda)
  <2>1. site[page] \in Seq(Entries(page)) /\ config \in Configs
    BY <1>3 DEF Typed, SiteTyped
  <2> HIDE DEF page
  <2>2. QED
    BY <1>3, <2>1, ItemsType DEF ItemsAre
<1>5. agenda \in Seq(Agenda)
  <2> HIDE DEF items
  <2>1. QED
    BY <1>2, <1>4, ConcatProperties
<1>6. RunTyped'
  <2> HIDE DEF agenda
  <2>1. run' = [on |-> run.on, agenda |-> agenda, buffer |-> run.buffer, due |-> run.due]
    BY <1>1, RunFields DEF Typed
  <2>2. run.on = TRUE /\ config' = config
    BY DEF GetPage, Resumed
  <2>3. QED
    BY <1>5, <2>1, <2>2, RunFields, RunTypedAfter DEF Typed
<1>7. StoreTyped'
  BY StoreTypedSame DEF GetPage, Typed
<1>8. SiteTyped(site)' /\ config' \in Configs /\ ended' = ended /\ history' = history
  BY DEF GetPage, Typed, SiteTyped
<1>9. QED
  BY <1>6, <1>7, <1>8 DEF Typed, Histories

LEMMA SkipPageTyped ==
  ASSUME SourcesAssumption, Typed, SkipPage
  PROVE  Typed'
<1> DEFINE agenda == Tail(run.agenda)
<1>1. /\ run.agenda \in Seq(Agenda) /\ run.agenda # <<>>
      /\ run' = [run EXCEPT !.agenda = agenda]
  BY RunFields DEF SkipPage, Resumed, Typed
<1>2. agenda \in Seq(Agenda)
  BY <1>1, HeadTailProperties
<1>3. RunTyped'
  <2> HIDE DEF agenda
  <2>1. run' = [on |-> run.on, agenda |-> agenda, buffer |-> run.buffer, due |-> run.due]
    BY <1>1, RunFields DEF Typed
  <2>2. run.on = TRUE /\ config' = config
    BY DEF SkipPage, Resumed
  <2>3. QED
    BY <1>2, <2>1, <2>2, RunFields, RunTypedAfter DEF Typed
<1>4. StoreTyped'
  BY StoreTypedSame DEF SkipPage, Typed
<1>5. history' \in Histories
  <2>1. history \in Histories /\ history' = [history EXCEPT !.fresh = FALSE]
    BY DEF Typed, SkipPage
  <2>2. QED
    BY <2>1 DEF Histories
<1>6. SiteTyped(site)' /\ config' \in Configs /\ ended' = ended
  BY DEF SkipPage, Typed, SiteTyped
<1>7. QED
  BY <1>3, <1>4, <1>5, <1>6 DEF Typed, Histories

LEMMA YieldRecordTyped ==
  ASSUME SourcesAssumption, Typed, YieldRecord
  PROVE  Typed'
<1> DEFINE agenda == Tail(run.agenda)
           record == Head(run.agenda).record
           buffer == Append(run.buffer, record)
<1>1. /\ run.agenda \in Seq(Agenda) /\ run.agenda # <<>> /\ Head(run.agenda).do = "yield"
      /\ run.buffer \in Seq(Recs) /\ Len(run.buffer) < BatchSize /\ run.due = {}
      /\ run' = [run EXCEPT !.agenda = agenda, !.buffer = buffer]
  BY RunFields DEF YieldRecord, Resumed, Typed
<1>2. agenda \in Seq(Agenda) /\ Head(run.agenda) \in Agenda
  BY <1>1, HeadTailProperties
<1>3. record \in Recs
  BY <1>1, <1>2 DEF Agenda, Get, Yield
<1>4. buffer \in Seq(Recs) /\ Len(buffer) <= BatchSize
  <2> HIDE DEF record
  <2>1. buffer \in Seq(Recs) /\ Len(buffer) = Len(run.buffer) + 1 /\ Len(run.buffer) \in Nat
    BY <1>1, <1>3, AppendProperties, LenProperties
  <2>2. QED
    BY <1>1, <2>1 DEF SourcesAssumption
<1>5. RunTyped'
  <2> HIDE DEF agenda, buffer
  <2>1. run' = [on |-> run.on, agenda |-> agenda, buffer |-> buffer, due |-> run.due]
    BY <1>1, RunFields DEF Typed
  <2>2. run.on = TRUE /\ config' = config
    BY DEF YieldRecord, Resumed
  <2>3. QED
    <3>1. run.due \in SUBSET Collections /\ run.due = {}
      BY <1>1, RunFields DEF Typed
    <3>2. QED
      BY <1>2, <1>4, <2>1, <2>2, <3>1, RunTypedAfter
<1>6. StoreTyped'
  BY StoreTypedSame DEF YieldRecord, Typed
<1>7. SiteTyped(site)' /\ config' \in Configs /\ ended' = ended /\ history' = history
  BY DEF YieldRecord, Typed, SiteTyped
<1>8. QED
  BY <1>5, <1>6, <1>7 DEF Typed, Histories

LEMMA StoreRawTyped ==
  ASSUME SourcesAssumption, Typed, StoreRaw
  PROVE  Typed'
<1> DEFINE due == {o.doc.kind : o \in UnifiedOps(run.buffer)}
<1>1. /\ run' = [run EXCEPT !.due = due] /\ raw' = Applied(raw, RawOps(run.buffer))
      /\ run.buffer # <<>> /\ run.on /\ config' = config /\ unified' = unified
  BY DEF StoreRaw, FlushDue
<1>2. due \in SUBSET Collections
  BY FlushTyped DEF Typed
<1>3. RunTyped'
  <2> HIDE DEF due
  <2>1. run' = [on |-> run.on, agenda |-> run.agenda, buffer |-> run.buffer, due |-> due]
    BY <1>1, RunFields DEF Typed
  <2>2. QED
    BY <1>1, <1>2, <2>1, RunFields, RunTypedAfter DEF Typed
<1>4. StoreTyped'
  <2>1. raw' \subseteq Recs /\ Unique(raw')
    BY <1>1, RawTyped DEF Typed
  <2>2. Recs' = Recs
    BY <1>1, SameConfig
  <2>3. QED
    BY <1>1, <2>1, <2>2 DEF Typed, StoreTyped, Unique, Collections, Entities, Same
<1>5. SiteTyped(site)' /\ config' \in Configs /\ ended' = ended /\ history' = history
  BY DEF StoreRaw, Typed, SiteTyped
<1>6. QED
  BY <1>3, <1>4, <1>5 DEF Typed, Histories

LEMMA UnifyTyped ==
  ASSUME SourcesAssumption, Typed, Unify
  PROVE  Typed'
<1> DEFINE due == run.due \ {o.doc.kind : o \in Bulk}
           e == <<>>
           buffer == IF due = {} THEN e ELSE run.buffer
<1>1. /\ run' = [run EXCEPT !.due = due, !.buffer = buffer]
      /\ unified' = Applied(unified, Bulk)
      /\ run.on /\ run.due # {} /\ config' = config /\ raw' = raw
  BY DEF Unify
<1>2. e \in Seq(Recs) /\ Len(e) = 0 /\ BatchSize \in Nat
  BY EmptySeq DEF SourcesAssumption
<1>3. RunTyped'
  <2> HIDE DEF due, e
  <2>1. due \in SUBSET Collections
    BY RunFields DEF Typed, due
  <2>2. buffer \in Seq(Recs) /\ Len(buffer) <= BatchSize
    BY <1>2, RunFields DEF Typed
  <2>3. buffer = <<>> => due = {}
    BY <1>1, RunFields DEF Typed
  <2> HIDE DEF buffer
  <2>4. run' = [on |-> run.on, agenda |-> run.agenda, buffer |-> buffer, due |-> due]
    BY <1>1, RunFields DEF Typed
  <2>5. run.on \in BOOLEAN /\ run.agenda \in Seq(Agenda)
    BY RunFields DEF Typed
  <2>6. QED
    BY <1>1, <2>1, <2>2, <2>3, <2>4, <2>5, RunTypedAfter
<1>4. StoreTyped'
  <2>1. (\A d \in unified' : d.kind \in Collections /\ d.thing \in Things) /\ Unique(unified')
    BY <1>1, UnifiedTyped DEF Typed
  <2>2. Recs' = Recs
    BY <1>1, SameConfig
  <2>3. QED
    BY <1>1, <2>1, <2>2 DEF Typed, StoreTyped, Unique, Collections, Entities, Same
<1>5. SiteTyped(site)' /\ config' \in Configs /\ ended' = ended /\ history' = history
  BY DEF Unify, Typed, SiteTyped
<1>6. QED
  BY <1>3, <1>4, <1>5 DEF Typed, Histories

LEMMA FinishTyped ==
  ASSUME SourcesAssumption, Typed, Finish
  PROVE  Typed'
<1>1. RunTyped' /\ StoreTyped'
  BY NoRunTyped, StoreTypedSame DEF Finish, Typed
<1>2. history' \in Histories
  <2>1. /\ history \in Histories
        /\ history' = [history EXCEPT !.settled = history.settled \/ history.fresh]
    BY DEF Typed, Finish
  <2>2. QED
    BY <2>1 DEF Histories
<1>3. SiteTyped(site)' /\ config' \in Configs /\ ended' = "success"
  BY DEF Finish, Typed, SiteTyped
<1>4. QED
  BY <1>1, <1>2, <1>3 DEF Typed, Histories

LEMMA StopTyped ==
  ASSUME SourcesAssumption, Typed, Stop
  PROVE  Typed'
<1>1. RunTyped'
  BY NoRunTyped DEF Stop
<1>2. StoreTyped'
  <2>1. PICK part \in SUBSET Bulk : unified' = Applied(unified, part)
    BY DEF Stop
  <2>2. PICK some \in SUBSET {o \in RawOps(run.buffer) : FlushDue} : raw' = Applied(raw, some)
    BY DEF Stop
  <2>3. some \in SUBSET RawOps(run.buffer)
    OBVIOUS
  <2>4. raw' \subseteq Recs /\ Unique(raw')
    BY <2>2, <2>3, RawTyped DEF Typed
  <2>5. (\A d \in unified' : d.kind \in Collections /\ d.thing \in Things) /\ Unique(unified')
    BY <2>1, UnifiedTyped DEF Typed
  <2>6. Recs' = Recs
    BY SameConfig DEF Stop
  <2>7. QED
    BY <2>4, <2>5, <2>6 DEF StoreTyped, Unique, Collections, Entities, Same
<1>3. history' \in Histories
  <2>1. /\ history \in Histories
        /\ history' = [history EXCEPT !.torn = history.torn \/ run.due # {}]
    BY DEF Typed, Stop
  <2>2. QED
    BY <2>1 DEF Histories
<1>4. SiteTyped(site)' /\ config' \in Configs /\ ended' = "failure"
  BY DEF Stop, Typed, SiteTyped
<1>5. QED
  BY <1>1, <1>2, <1>3, <1>4 DEF Typed, Histories

LEMMA SiteChangesTyped ==
  ASSUME SourcesAssumption, Typed, SiteChanges
  PROVE  Typed'
<1>1. PICK page \in Pages : \E entries : Changes(page, entries) /\ Tells(page, entries)
  BY SiteChange DEF Typed
<1>2. PICK entries : Changes(page, entries) /\ Tells(page, entries)
  BY <1>1
<1>3. /\ site' = [site EXCEPT ![page] = entries]
      /\ history' = [history EXCEPT !.changed = history.changed + 1, !.fresh = FALSE,
                       !.settled = FALSE,
                       !.moved = history.moved \/ Moves(site[page], entries)]
      /\ UNCHANGED <<config, run, raw, unified, ended>>
  BY <1>2 DEF Changes
<1>4. SiteTyped(site')
  <2>1. SiteTyped(site) /\ Tells(page, entries)
    BY <1>2 DEF Typed
  <2>2. DOMAIN site' = Pages /\ \A p \in Pages : site'[p] = IF p = page THEN entries ELSE site[p]
    BY <1>3, <2>1 DEF SiteTyped
  <2>3. \A p \in Pages : site'[p] \in Seq(Entries(p))
    BY <2>1, <2>2 DEF SiteTyped, Tells
  <2>4. ASSUME NEW p \in Pages, NEW q \in Pages, NEW i \in DOMAIN site'[p],
               NEW j \in DOMAIN site'[q], site'[p][i].thing = site'[q][j].thing
        PROVE  p = q /\ i = j
    <3>1. CASE p = page /\ q = page
      BY <2>1, <2>2, <2>4, <3>1 DEF Tells
    <3>2. CASE p # page /\ q # page
      BY <2>1, <2>2, <2>4, <3>2 DEF SiteTyped
    <3>0. ASSUME NEW u \in Pages, u # page, NEW k \in DOMAIN site[u], NEW l \in DOMAIN entries
          PROVE  site[u][k].thing # entries[l].thing
      <4>1. \A h \in DOMAIN site[page] : site[u][k].thing # site[page][h].thing
        BY <2>1, <3>0 DEF SiteTyped
      <4>2. QED
        BY <2>1, <4>1 DEF Tells
    <3>3. CASE p = page /\ q # page
      BY <2>2, <2>4, <3>0, <3>3
    <3>4. CASE p # page /\ q = page
      BY <2>2, <2>4, <3>0, <3>4
    <3>5. QED
      BY <3>1, <3>2, <3>3, <3>4
  <2>5. QED
    BY <2>2, <2>3, <2>4 DEF SiteTyped
<1>5. history' \in Histories
  <2> DEFINE n == history.changed + 1
             m == history.moved \/ Moves(site[page], entries)
  <2>1. history \in Histories /\ m \in BOOLEAN
    BY DEF Typed
  <2>2. n \in Nat
    BY <2>1 DEF Histories
  <2>3. history' = [history EXCEPT !.changed = n, !.fresh = FALSE, !.settled = FALSE, !.moved = m]
    BY <1>3
  <2> HIDE DEF n, m
  <2>4. QED
    BY <2>1, <2>2, <2>3 DEF Histories
<1>6. RunTyped'
  <2>1. Recs' = Recs /\ Agenda' = Agenda
    BY <1>3, SameConfig
  <2>2. QED
    BY <1>3, <2>1 DEF Typed, RunTyped, Collections, Entities, NoRun
<1>7. StoreTyped'
  BY <1>3, StoreTypedSame DEF Typed
<1>8. QED
  BY <1>3, <1>4, <1>5, <1>6, <1>7 DEF Typed, Histories, SiteTyped

LEMMA InitTyped ==
  ASSUME SourcesAssumption, Init
  PROVE  Typed
<1>1. config \in Configs /\ site = config.site /\ run = NoRun /\ raw = {} /\ unified = {}
      /\ ended = "never"
      /\ history = [started |-> 0, changed |-> 0, fresh |-> FALSE, settled |-> FALSE,
                    moved |-> FALSE, torn |-> FALSE]
  BY DEF Init
<1>2. SiteTyped(site)
  BY <1>1 DEF SourcesAssumption, SiteTyped
<1>3. RunTyped
  <2> DEFINE e == <<>>
  <2>1. e \in Seq(Agenda) /\ e \in Seq(Recs) /\ Len(e) <= BatchSize
    BY EmptySeq DEF SourcesAssumption
  <2>2. run = [on |-> FALSE, agenda |-> e, buffer |-> e, due |-> {}]
    BY <1>1 DEF NoRun
  <2>3. e = <<>>
    OBVIOUS
  <2> HIDE DEF e
  <2>4. QED
    BY <1>1, <2>1, <2>2, <2>3 DEF RunTyped
<1>4. StoreTyped
  BY <1>1 DEF StoreTyped, Unique
<1>5. history \in Histories
  BY <1>1 DEF Histories
<1>6. QED
  BY <1>1, <1>2, <1>3, <1>4, <1>5 DEF Typed

LEMMA StutterTyped ==
  ASSUME Typed, UNCHANGED vars
  PROVE  Typed'
<1>1. /\ config' = config /\ site' = site /\ run' = run /\ raw' = raw /\ unified' = unified
      /\ ended' = ended /\ history' = history
  BY DEF vars
<1>2. Recs' = Recs /\ Agenda' = Agenda
  BY <1>1, SameConfig
<1>3. RunTyped'
  BY <1>1, <1>2 DEF Typed, RunTyped, Collections, Entities, NoRun
<1>4. StoreTyped'
  BY <1>1, StoreTypedSame DEF Typed
<1>5. QED
  BY <1>1, <1>3, <1>4 DEF Typed, SiteTyped, Histories

LEMMA NextTyped ==
  ASSUME SourcesAssumption, Typed, [Next]_vars
  PROVE  Typed'
<1>1. CASE Start \/ GetPage \/ SkipPage \/ YieldRecord
  BY <1>1, StartTyped, GetPageTyped, SkipPageTyped, YieldRecordTyped
<1>2. CASE StoreRaw \/ Unify \/ Finish \/ Stop
  BY <1>2, StoreRawTyped, UnifyTyped, FinishTyped, StopTyped
<1>3. CASE SiteChanges
  BY <1>3, SiteChangesTyped
<1>4. CASE UNCHANGED vars
  BY <1>4, StutterTyped
<1>5. QED
  BY <1>1, <1>2, <1>3, <1>4 DEF Next, SiteChanges

LEMMA TypedTypes ==
  ASSUME Typed
  PROVE  TypeOK
<1>1. /\ run.on \in BOOLEAN /\ run.agenda \in Seq(Agenda) /\ Len(run.buffer) <= BatchSize
      /\ run.due \subseteq Collections
  BY RunFields DEF Typed
<1>2. ASSUME NEW i \in DOMAIN run.agenda PROVE run.agenda[i].do \in {"get", "yield"}
  <2>1. run.agenda[i] \in Agenda
    BY <1>1, ElementOfSeq, LenProperties
  <2>2. QED
    BY <2>1 DEF Agenda, Get, Yield
<1>3. \A r \in raw : r.kind \in Entities /\ r.thing \in Things /\ r.content \in Contents
  BY DEF Typed, StoreTyped, Recs
<1>4. QED
  BY <1>1, <1>2, <1>3 DEF TypeOK, Typed, StoreTyped, Unique, Collections

\* A collection keeps one document for each key, a buffer its bound: what a bulk write of
\* upserts does to a collection, in part or in whole, in every order of its operations.
THEOREM SourcesTypes == Spec => []TypeOK
<1>1. Init => Typed
  BY InitTyped, SourcesAssumption
<1>2. Typed /\ [Next]_vars => Typed'
  BY NextTyped, SourcesAssumption
<1>3. Typed => TypeOK
  BY TypedTypes
<1>4. QED
  BY <1>1, <1>2, <1>3, PTL DEF Spec

-----------------------------------------------------------------------------
(* How the agenda and the buffer move. *)

\* The agenda without its head.
LEMMA TailItems ==
  ASSUME NEW S, NEW seq \in Seq(S), seq # <<>>
  PROVE  /\ 1 \in DOMAIN seq /\ Head(seq) = seq[1] /\ Len(seq) \in Nat
         /\ Len(Tail(seq)) = Len(seq) - 1
         /\ \A n \in DOMAIN Tail(seq) : n \in Nat \ {0} /\ n + 1 \in DOMAIN seq
                                        /\ Tail(seq)[n] = seq[n+1]
         /\ \A m \in DOMAIN seq : m # 1 => m - 1 \in DOMAIN Tail(seq) /\ Tail(seq)[m-1] = seq[m]
<1> DEFINE t == Tail(seq)
           n == Len(seq)
<1>1. t \in Seq(S) /\ Len(t) = n - 1 /\ \A i \in 1..Len(t) : t[i] = seq[i+1]
  BY HeadTailProperties
<1>2. n \in Nat \ {0} /\ DOMAIN seq = 1..n /\ Head(seq) = seq[1]
  BY LenProperties, EmptySeq
<1>3. DOMAIN t = 1..n-1
  <2> HIDE DEF t
  <2>1. QED
    BY <1>1, LenProperties
<1> HIDE DEF t, n
<1>4. QED
  BY <1>1, <1>2, <1>3 DEF t, n

\* A page has been got: what it lists takes its place on the agenda.
Replaced(page, items) ==
  /\ site[page] \in Seq(Entries(page)) /\ Len(items) \in Nat
  /\ 1 \in DOMAIN run.agenda /\ run.agenda[1].do = "get" /\ run.agenda[1].page = page
  /\ items = Items(page, site[page])
  /\ ItemsAre(items, page, site[page])
  /\ DOMAIN items = 1..Len(items)
  /\ \A n \in DOMAIN run'.agenda :
       \/ n \in DOMAIN items /\ run'.agenda[n] = items[n]
       \/ \E m \in DOMAIN run.agenda : /\ m # 1 /\ n = Len(items) + m - 1
                                       /\ run'.agenda[n] = run.agenda[m]
  /\ \A n \in DOMAIN items : n \in DOMAIN run'.agenda /\ run'.agenda[n] = items[n]
  /\ \A m \in DOMAIN run.agenda : m # 1 =>
       Len(items) + m - 1 \in DOMAIN run'.agenda /\ run'.agenda[Len(items)+m-1] = run.agenda[m]
  /\ run'.buffer = run.buffer /\ run'.due = run.due /\ run'.on = run.on
  /\ run.due = {} /\ run.on

LEMMA Got ==
  ASSUME SourcesAssumption, Typed, GetPage
  PROVE  \E page \in Pages : \E items : Replaced(page, items)
<1> DEFINE page == Head(run.agenda).page
           items == Items(page, site[page])
           l == Len(items)
           tail == Tail(run.agenda)
           agenda == items \o tail
<1>1. /\ run.agenda \in Seq(Agenda) /\ run.agenda # <<>>
      /\ Head(run.agenda).do = "get"
      /\ run' = [run EXCEPT !.agenda = agenda]
      /\ run.due = {} /\ run.on
  BY RunFields DEF GetPage, Resumed, Typed
<1>2. Head(run.agenda) \in Agenda /\ tail \in Seq(Agenda)
  BY <1>1, HeadTailProperties
<1>3. page \in Pages
  BY <1>1, <1>2 DEF Agenda, Get, Yield
<1>4. site[page] \in Seq(Entries(page)) /\ ItemsAre(items, page, site[page])
  <2>1. site[page] \in Seq(Entries(page)) /\ config \in Configs
    BY <1>3 DEF Typed, SiteTyped
  <2> HIDE DEF page
  <2>2. QED
    BY <1>3, <2>1, ItemsType
<1>5. items \in Seq(Agenda)
  BY <1>4 DEF ItemsAre
<1> DEFINE k == Len(run.agenda)
<1>6. /\ 1 \in DOMAIN run.agenda /\ Head(run.agenda) = run.agenda[1] /\ k \in Nat
      /\ Len(tail) = k - 1
      /\ DOMAIN run.agenda = 1..k
      /\ \A m \in DOMAIN run.agenda : m # 1 => m - 1 \in DOMAIN tail /\ tail[m-1] = run.agenda[m]
  BY <1>1, TailItems, LenProperties
<1>7. l \in Nat /\ DOMAIN items = 1..l
  <2> HIDE DEF items
  <2>1. QED
    BY <1>5, LenProperties
<1>8. /\ agenda \in Seq(Agenda) /\ Len(agenda) = l + (k - 1)
      /\ \A n \in 1..l + (k - 1) : agenda[n] = IF n <= l THEN items[n] ELSE tail[n - l]
  <2> HIDE DEF items, tail, k
  <2>1. /\ agenda \in Seq(Agenda) /\ Len(agenda) = Len(items) + Len(tail)
        /\ \A n \in 1..Len(items) + Len(tail) :
             agenda[n] = IF n <= Len(items) THEN items[n] ELSE tail[n - Len(items)]
    BY <1>2, <1>5, ConcatProperties
  <2> HIDE DEF agenda
  <2>2. Len(tail) = k - 1
    BY <1>6
  <2>3. QED
    BY <2>1, <2>2
<1>9. DOMAIN agenda = 1..l + (k - 1)
  <2> HIDE DEF agenda, l, k
  <2>1. QED
    BY <1>8, LenProperties
<1>10. /\ run'.agenda = agenda /\ run'.buffer = run.buffer /\ run'.due = run.due
       /\ run'.on = run.on
  <2> HIDE DEF agenda
  <2>1. QED
    BY <1>1, RunFields DEF Typed
<1> HIDE DEF agenda, tail, k, l
<1>11. ASSUME NEW m \in DOMAIN run.agenda, m # 1
       PROVE  l + m - 1 \in DOMAIN agenda /\ agenda[l+m-1] = run.agenda[m]
  <2>1. m \in 1..k /\ m # 1
    BY <1>6, <1>11
  <2>2. l + m - 1 \in 1..l + (k - 1) /\ ~(l + m - 1 <= l) /\ (l + m - 1) - l = m - 1
    <3>1. k \in Nat /\ l \in Nat /\ m \in Nat /\ 1 < m /\ m <= k
      BY <1>6, <1>7, <2>1
    <3> HIDE DEF k, l
    <3>2. QED
      BY <3>1
  <2>3. agenda[l+m-1] = tail[m-1]
    BY <1>8, <2>2
  <2>4. QED
    BY <1>6, <1>9, <1>11, <2>2, <2>3
<1>12. ASSUME NEW n \in DOMAIN items PROVE n \in DOMAIN agenda /\ agenda[n] = items[n]
  <2>1. n \in 1..l /\ n <= l /\ n \in 1..l + (k - 1)
    BY <1>6, <1>7
  <2>2. QED
    BY <1>8, <1>9, <2>1
<1>13. ASSUME NEW n \in DOMAIN agenda
       PROVE  \/ n \in DOMAIN items /\ agenda[n] = items[n]
              \/ \E m \in DOMAIN run.agenda : m # 1 /\ n = l + m - 1 /\ agenda[n] = run.agenda[m]
  <2>1. CASE n <= l
    <3>1. n \in 1..l
      BY <1>7, <1>9, <2>1
    <3>2. QED
      BY <1>7, <1>12, <3>1
  <2>2. CASE ~(n <= l)
    <3> DEFINE m == n - l + 1
    <3>1. m \in 1..k /\ m # 1 /\ n = l + m - 1
      BY <1>6, <1>7, <1>9, <2>2
    <3> HIDE DEF m
    <3>2. agenda[n] = run.agenda[m]
      BY <1>6, <1>11, <3>1
    <3>3. QED
      BY <1>6, <3>1, <3>2
  <2>3. QED
    BY <2>1, <2>2
<1>14. items = Items(page, site[page])
  BY DEF items
<1> HIDE DEF items, page
<1>15. run.agenda[1].do = "get" /\ run.agenda[1].page = page
  BY <1>1, <1>6 DEF page
<1>16. Replaced(page, items)
  <2>1. \A n \in DOMAIN run'.agenda :
          \/ n \in DOMAIN items /\ run'.agenda[n] = items[n]
          \/ \E m \in DOMAIN run.agenda : /\ m # 1 /\ n = Len(items) + m - 1
                                          /\ run'.agenda[n] = run.agenda[m]
    BY <1>10, <1>13 DEF l
  <2>2. \A n \in DOMAIN items : n \in DOMAIN run'.agenda /\ run'.agenda[n] = items[n]
    BY <1>10, <1>12
  <2>3. \A m \in DOMAIN run.agenda : m # 1 =>
          /\ Len(items) + m - 1 \in DOMAIN run'.agenda
          /\ run'.agenda[Len(items)+m-1] = run.agenda[m]
    BY <1>10, <1>11 DEF l
  <2>4. Len(items) \in Nat /\ DOMAIN items = 1..Len(items)
    BY <1>7 DEF l
  <2>5. 1 \in DOMAIN run.agenda /\ run.due = {} /\ run.on
    BY <1>1, <1>6
  <2>6. QED
    BY <1>4, <1>10, <1>14, <1>15, <2>1, <2>2, <2>3, <2>4, <2>5 DEF Replaced
<1>17. QED
  BY <1>3, <1>16

\* The agenda goes on without its first item.
Advanced ==
  /\ 1 \in DOMAIN run.agenda /\ run.agenda[1] = Head(run.agenda)
  /\ \A n \in DOMAIN run'.agenda :
       n \in Nat \ {0} /\ n + 1 \in DOMAIN run.agenda /\ run'.agenda[n] = run.agenda[n+1]
  /\ \A m \in DOMAIN run.agenda : m # 1 =>
       m - 1 \in DOMAIN run'.agenda /\ run'.agenda[m-1] = run.agenda[m]

LEMMA Skipped ==
  ASSUME Typed, SkipPage
  PROVE  /\ Advanced /\ run.agenda[1].do = "get"
         /\ run'.buffer = run.buffer /\ run'.due = run.due /\ run'.on = run.on /\ run.due = {}
<1>1. /\ run.agenda \in Seq(Agenda) /\ run.agenda # <<>> /\ Head(run.agenda).do = "get"
      /\ run' = [run EXCEPT !.agenda = Tail(run.agenda)] /\ run.due = {}
  BY RunFields DEF SkipPage, Resumed, Typed
<1>2. /\ run'.agenda = Tail(run.agenda) /\ run'.buffer = run.buffer /\ run'.due = run.due
      /\ run'.on = run.on
  BY <1>1, RunFields DEF Typed
<1>3. QED
  BY <1>1, <1>2, TailItems DEF Advanced

\* A record has gone from the head of the agenda to the end of the buffer.
Moved(record) ==
  /\ Advanced /\ run.agenda[1].do = "yield" /\ run.agenda[1].record = record
  /\ run.due = {} /\ run'.due = {} /\ run'.on = run.on
  /\ \A n \in DOMAIN run.buffer : n \in DOMAIN run'.buffer /\ run'.buffer[n] = run.buffer[n]
  /\ \A n \in DOMAIN run'.buffer :
       (n \in DOMAIN run.buffer /\ run'.buffer[n] = run.buffer[n]) \/ run'.buffer[n] = record
  /\ \E n \in DOMAIN run'.buffer : run'.buffer[n] = record

LEMMA Yielded ==
  ASSUME Typed, YieldRecord
  PROVE  \E record \in Recs : Moved(record)
<1> DEFINE record == Head(run.agenda).record
           buffer == Append(run.buffer, record)
           l == Len(run.buffer)
<1>1. /\ run.agenda \in Seq(Agenda) /\ run.agenda # <<>> /\ Head(run.agenda).do = "yield"
      /\ run.buffer \in Seq(Recs) /\ run.due = {}
      /\ run' = [run EXCEPT !.agenda = Tail(run.agenda), !.buffer = buffer]
  BY RunFields DEF YieldRecord, Resumed, Typed
<1>2. Head(run.agenda) \in Agenda
  BY <1>1, HeadTailProperties
<1>3. record \in Recs
  BY <1>1, <1>2 DEF Agenda, Get, Yield
<1> HIDE DEF record
<1>4. /\ buffer \in Seq(Recs) /\ Len(buffer) = l + 1 /\ l \in Nat /\ DOMAIN run.buffer = 1..l
      /\ \A i \in 1..l : buffer[i] = run.buffer[i]
      /\ buffer[l+1] = record
  BY <1>1, <1>3, AppendProperties, LenProperties
<1> HIDE DEF buffer, l
<1>5. DOMAIN buffer = 1..l+1
  BY <1>4, LenProperties
<1>6. /\ run'.agenda = Tail(run.agenda) /\ run'.buffer = buffer /\ run'.due = run.due
      /\ run'.on = run.on
  BY <1>1, RunFields DEF Typed
<1>7. Advanced
  BY <1>1, <1>6, TailItems DEF Advanced
<1>8. run.agenda[1].do = "yield" /\ run.agenda[1].record = record
  BY <1>1, <1>7 DEF Advanced, record
<1>9. /\ \A n \in DOMAIN run.buffer : n \in DOMAIN buffer /\ buffer[n] = run.buffer[n]
      /\ \A n \in DOMAIN buffer :
           (n \in DOMAIN run.buffer /\ buffer[n] = run.buffer[n]) \/ buffer[n] = record
      /\ \E n \in DOMAIN buffer : buffer[n] = record
  BY <1>4, <1>5
<1>10. Moved(record)
  BY <1>1, <1>6, <1>7, <1>8, <1>9 DEF Moved
<1>11. QED
  BY <1>3, <1>10

LEMMA StoredRaw ==
  ASSUME Typed, StoreRaw
  PROVE  /\ run'.agenda = run.agenda /\ run'.buffer = run.buffer /\ run.due = {} /\ run.on
         /\ run'.on = run.on /\ run'.due = {o.doc.kind : o \in UnifiedOps(run.buffer)}
         /\ raw' = Applied(raw, RawOps(run.buffer)) /\ unified' = unified
         /\ history' = history
BY RunFields DEF StoreRaw, FlushDue, Typed

LEMMA Unified ==
  ASSUME Typed, Unify
  PROVE  /\ run'.agenda = run.agenda /\ run.due # {} /\ run.on /\ run'.on = run.on
         /\ run'.due = run.due \ {o.doc.kind : o \in Bulk}
         /\ run'.buffer = IF run'.due = {} THEN <<>> ELSE run.buffer
         /\ unified' = Applied(unified, Bulk) /\ raw' = raw /\ history' = history
BY RunFields DEF Unify, Typed

LEMMA OffNow ==
  ASSUME run' = NoRun
  PROVE  run'.agenda = <<>> /\ run'.buffer = <<>> /\ run'.due = {} /\ run'.on = FALSE
BY DEF NoRun

LEMMA Started ==
  ASSUME Typed, Start
  PROVE  /\ run'.buffer = <<>> /\ run'.due = {} /\ run'.on
         /\ run'.agenda = [i \in DOMAIN config.roots |-> Get(config.roots[i])]
         /\ run = NoRun
BY RunFields DEF Start, NoRun, Typed

-----------------------------------------------------------------------------
(* One record for each thing. *)

\* The refs of the site are one for each thing.
LEMMA PlacedOnce ==
  ASSUME Typed, NEW t, NEW a, NEW b, <<t, a>> \in Placed, <<t, b>> \in Placed
  PROVE  a = b
<1>1. PICK p \in Pages : \E i \in DOMAIN site[p] : t = site[p][i].thing /\ a = Ref(p, i, site[p])
  BY DEF Placed
<1>2. PICK i \in DOMAIN site[p] : t = site[p][i].thing /\ a = Ref(p, i, site[p])
  BY <1>1
<1>3. PICK q \in Pages : \E j \in DOMAIN site[q] : t = site[q][j].thing /\ b = Ref(q, j, site[q])
  BY DEF Placed
<1>4. PICK j \in DOMAIN site[q] : t = site[q][j].thing /\ b = Ref(q, j, site[q])
  BY <1>3
<1>5. \A u \in Pages, v \in Pages : \A k \in DOMAIN site[u], l \in DOMAIN site[v] :
        site[u][k].thing = site[v][l].thing => u = v /\ k = l
  BY DEF Typed, SiteTyped
<1>6. p = q /\ i = j
  <2>1. site[p][i].thing = site[q][j].thing
    BY <1>2, <1>4
  <2>2. QED
    BY <1>5, <2>1
<1>7. QED
  BY <1>2, <1>4, <1>6

LEMMA PlacedSame ==
  ASSUME config' = config, site' = site
  PROVE  Placed' = Placed
BY DEF Placed, Ref, source, Refs

\* A record of an entry is placed.
LEMMA RecordPlaced ==
  ASSUME SourcesAssumption, Typed, NEW p \in Pages, NEW i \in DOMAIN site[p]
  PROVE  <<Record(p, i, site[p]).thing, Record(p, i, site[p]).key>> \in Placed
<1> DEFINE entries == site[p]
<1>1. entries \in Seq(Entries(p)) /\ config \in Configs
  BY DEF Typed, SiteTyped
<1>2. entries[i].thing \in Things
  <2>1. entries[i] \in Entries(p)
    BY <1>1, ElementOfSeq, LenProperties
  <2>2. QED
    BY <2>1 DEF Entries, Listable
<1>3. /\ Ref(p, i, entries) \in Refs
      /\ Record(p, i, entries).thing = entries[i].thing
      /\ Record(p, i, entries).key = Ref(p, i, entries)
  BY <1>1, RecordType
<1>4. QED
  BY <1>2, <1>3 DEF Placed

\* While nothing moves, a change of the site keeps the refs of its things.
LEMMA PlacedStays ==
  ASSUME SourcesAssumption, Typed, NEW page \in Pages, NEW entries,
         Changes(page, entries), Tells(page, entries), ~Moves(site[page], entries)
  PROVE  Placed \subseteq Placed'
<1>1. /\ site' = [site EXCEPT ![page] = entries] /\ config' = config
  BY DEF Changes
<1>2. \A p \in Pages : site'[p] = IF p = page THEN entries ELSE site[p]
  BY <1>1 DEF Typed, SiteTyped
<1>3. ASSUME NEW x \in Placed PROVE x \in Placed'
  <2>1. x \in Things \X Refs
    BY DEF Placed
  <2>2. PICK p \in Pages : \E i \in DOMAIN site[p] : x = <<site[p][i].thing, Ref(p, i, site[p])>>
    BY DEF Placed
  <2>3. PICK i \in DOMAIN site[p] : x = <<site[p][i].thing, Ref(p, i, site[p])>>
    BY <2>2
  <2>4. \E j \in DOMAIN site'[p] : x = <<site'[p][j].thing, Ref(p, j, site'[p])>>
    <3>1. CASE p # page
      BY <1>2, <2>3, <3>1
    <3>2. CASE p = page
      <4>1. PICK j \in DOMAIN entries : entries[j].thing = site[page][i].thing
        BY <2>3, <3>2 DEF Tells
      <4>2. /\ source = "openfootball" => entries[j].label = site[page][i].label
            /\ source = "fbref" => i = j
        BY <3>2, <4>1 DEF Moves
      <4>3. Ref(page, j, entries) = Ref(page, i, site[page])
        BY <4>1, <4>2 DEF Ref
      <4>4. QED
        BY <1>2, <2>3, <3>2, <4>1, <4>3
    <3>3. QED
      BY <3>1, <3>2
  <2>5. x \in {y \in Things \X Refs : \E q \in Pages : \E j \in DOMAIN site'[q] :
                 y = <<site'[q][j].thing, Ref(q, j, site'[q])>>}
    BY <2>1, <2>4
  <2>6. QED
    BY <1>1, <2>5 DEF Placed, Ref, source, Refs
<1>4. QED
  BY <1>3

\* What a flush writes is placed.
LEMMA FlushInPlace ==
  ASSUME Typed, AgendaInPlace, BufferInPlace, RawInPlace, UnifiedInPlace
  PROVE  /\ \A ops \in SUBSET RawOps(run.buffer) :
              \A r \in Applied(raw, ops) : <<r.thing, r.key>> \in Placed
         /\ \A ops \in SUBSET Bulk :
              \A d \in Applied(unified, ops) : d.kind # "team_stats" =>
                 \E ref \in Refs : <<d.thing, ref>> \in Placed /\ d.key = UnifiedId(ref)
<1> DEFINE buffer == run.buffer
<1>0. buffer \in Seq(Recs) /\ \A n \in DOMAIN buffer : buffer[n] \in Recs
  BY FlushTyped, FlushOps DEF Typed
<1>1. ASSUME NEW ops \in SUBSET RawOps(buffer), NEW r \in Applied(raw, ops)
      PROVE  <<r.thing, r.key>> \in Placed
  <2>1. CASE r \in raw
    BY <2>1 DEF RawInPlace
  <2>2. CASE \E o \in ops : r = o.doc
    <3>1. r \in ToSet(buffer)
      BY <1>0, <2>2, FlushOps
    <3>2. QED
      BY <3>1 DEF BufferInPlace, ToSet
  <2>3. QED
    BY <2>1, <2>2, AppliedFrom
<1>2. ASSUME NEW ops \in SUBSET Bulk, NEW d \in Applied(unified, ops), d.kind # "team_stats"
      PROVE  \E ref \in Refs : <<d.thing, ref>> \in Placed /\ d.key = UnifiedId(ref)
  <2>1. CASE d \in unified
    BY <1>2, <2>1 DEF UnifiedInPlace
  <2>2. CASE \E o \in ops : d = o.doc
    <3>1. d \in {o.doc : o \in UnifiedOps(buffer)}
      BY <2>2, FlushTyped DEF Typed
    <3>2. PICK n \in DOMAIN buffer : d \in ToSet(Mapped(buffer[n]))
      BY <1>0, <3>1, FlushOps
    <3>3. buffer[n] \in Recs
      BY <1>0
    <3>4. d.thing = buffer[n].thing /\ d.key = UnifiedId(buffer[n].key)
      BY <1>2, <3>2, <3>3, MappedDocs
    <3>5. buffer[n].key \in Refs
      BY <3>3 DEF Recs
    <3>6. <<buffer[n].thing, buffer[n].key>> \in Placed
      BY DEF BufferInPlace
    <3>7. QED
      BY <3>4, <3>5, <3>6
  <2>3. QED
    BY <2>1, <2>2, AppliedFrom
<1>3. QED
  BY <1>1, <1>2

\* The parts that a step leaves alone stay in place, while the site and config do.
LEMMA UnifiedStaysInPlace ==
  ASSUME config' = config, Placed \subseteq Placed', UnifiedInPlace, unified' = unified
  PROVE  UnifiedInPlace'
BY DEF UnifiedInPlace, UnifiedId, source, Refs

LEMMA StoresStayInPlace ==
  ASSUME config' = config, Placed \subseteq Placed', RawInPlace, UnifiedInPlace,
         raw' = raw, unified' = unified
  PROVE  RawInPlace' /\ UnifiedInPlace'
BY UnifiedStaysInPlace DEF RawInPlace

LEMMA UnifiedNowInPlace ==
  ASSUME config' = config, site' = site,
         \A d \in unified' : d.kind # "team_stats" =>
            \E ref \in Refs : <<d.thing, ref>> \in Placed /\ d.key = UnifiedId(ref)
  PROVE  UnifiedInPlace'
<1>1. Placed' = Placed
  BY PlacedSame
<1>2. QED
  BY <1>1 DEF UnifiedInPlace, UnifiedId, source, Refs

LEMMA AdvancedInPlace ==
  ASSUME Advanced, AgendaInPlace, Placed' = Placed
  PROVE  AgendaInPlace'
<1>1. ASSUME NEW n \in DOMAIN run'.agenda, run'.agenda[n].do = "yield"
      PROVE  <<run'.agenda[n].record.thing, run'.agenda[n].record.key>> \in Placed
  <2>1. n + 1 \in DOMAIN run.agenda /\ run'.agenda[n] = run.agenda[n+1]
    BY DEF Advanced
  <2>2. QED
    BY <1>1, <2>1 DEF AgendaInPlace
<1>2. QED
  BY <1>1 DEF AgendaInPlace

LEMMA InPlaceStep ==
  ASSUME SourcesAssumption, Typed, InPlace, [Next]_vars
  PROVE  InPlace'
<1> SUFFICES ASSUME ~history'.moved
             PROVE  AgendaInPlace' /\ BufferInPlace' /\ RawInPlace' /\ UnifiedInPlace'
  BY DEF InPlace
<1>0. history \in Histories
  BY DEF Typed
<1>1. CASE Start
  <2>1. config' = config /\ site' = site /\ raw' = raw /\ unified' = unified
        /\ history'.moved = history.moved
    BY <1>0, <1>1 DEF Start, Histories
  <2>2. Placed' = Placed
    BY <2>1, PlacedSame
  <2>3. AgendaInPlace' /\ BufferInPlace'
    BY <1>1, Started DEF AgendaInPlace, BufferInPlace, Get
  <2>4. QED
    BY <2>1, <2>2, <2>3, StoresStayInPlace DEF InPlace
<1>2. CASE GetPage
  <2>1. config' = config /\ site' = site /\ raw' = raw /\ unified' = unified
        /\ history' = history
    BY <1>2 DEF GetPage
  <2>2. Placed' = Placed
    BY <2>1, PlacedSame
  <2>3. AgendaInPlace /\ BufferInPlace /\ RawInPlace /\ UnifiedInPlace
    BY <2>1 DEF InPlace
  <2>4. PICK page \in Pages : \E items : Replaced(page, items)
    BY <1>2, Got
  <2>5. PICK items : Replaced(page, items)
    BY <2>4
  <2>6. ASSUME NEW n \in DOMAIN items, items[n].do = "yield"
        PROVE  <<items[n].record.thing, items[n].record.key>> \in Placed
    <3>1. Yielding(items[n], page, site[page])
      BY <2>5, <2>6 DEF Replaced, ItemsAre, Getting
    <3>2. PICK i \in DOMAIN site[page] : items[n].record = Record(page, i, site[page])
      BY <3>1 DEF Yielding
    <3>3. QED
      BY <3>2, RecordPlaced
  <2>7. ASSUME NEW n \in DOMAIN run'.agenda, run'.agenda[n].do = "yield"
        PROVE  <<run'.agenda[n].record.thing, run'.agenda[n].record.key>> \in Placed
    <3>1. CASE n \in DOMAIN items /\ run'.agenda[n] = items[n]
      BY <2>6, <2>7, <3>1
    <3>2. CASE \E m \in DOMAIN run.agenda : run'.agenda[n] = run.agenda[m]
      BY <2>3, <2>7, <3>2 DEF AgendaInPlace
    <3>3. QED
      BY <2>5, <3>1, <3>2 DEF Replaced
  <2>8. BufferInPlace'
    BY <2>2, <2>3, <2>5 DEF BufferInPlace, Replaced
  <2>9. AgendaInPlace'
    BY <2>2, <2>7 DEF AgendaInPlace
  <2>10. QED
    BY <2>1, <2>2, <2>3, <2>8, <2>9, StoresStayInPlace
<1>3. CASE SkipPage
  <2>1. config' = config /\ site' = site /\ raw' = raw /\ unified' = unified
        /\ history'.moved = history.moved
    BY <1>0, <1>3 DEF SkipPage, Histories
  <2>2. Placed' = Placed
    BY <2>1, PlacedSame
  <2>3. AgendaInPlace' /\ BufferInPlace'
    BY <1>3, <2>1, <2>2, Skipped, AdvancedInPlace DEF BufferInPlace, InPlace
  <2>4. QED
    BY <2>1, <2>2, <2>3, StoresStayInPlace DEF InPlace
<1>4. CASE YieldRecord
  <2>1. config' = config /\ site' = site /\ raw' = raw /\ unified' = unified
        /\ history' = history
    BY <1>4 DEF YieldRecord
  <2>2. Placed' = Placed
    BY <2>1, PlacedSame
  <2>3. PICK record \in Recs : Moved(record)
    BY <1>4, Yielded
  <2>4. AgendaInPlace'
    BY <2>1, <2>2, <2>3, AdvancedInPlace DEF InPlace, Moved
  <2>5. <<record.thing, record.key>> \in Placed
    BY <2>1, <2>3 DEF AgendaInPlace, InPlace, Advanced, Moved
  <2>6. BufferInPlace'
    BY <2>1, <2>2, <2>3, <2>5 DEF BufferInPlace, InPlace, Moved
  <2>7. QED
    BY <2>1, <2>2, <2>4, <2>6, StoresStayInPlace DEF InPlace
<1>5. CASE StoreRaw
  <2>1. config' = config /\ site' = site
    BY <1>5 DEF StoreRaw
  <2>2. Placed' = Placed
    BY <2>1, PlacedSame
  <2>3. AgendaInPlace /\ BufferInPlace /\ RawInPlace /\ UnifiedInPlace
    BY <1>5, StoredRaw DEF InPlace
  <2>4. RawInPlace'
    <3>1. \A r \in Applied(raw, RawOps(run.buffer)) : <<r.thing, r.key>> \in Placed
      BY <2>3, FlushInPlace
    <3>2. raw' = Applied(raw, RawOps(run.buffer))
      BY <1>5 DEF StoreRaw
    <3>3. QED
      BY <2>2, <3>1, <3>2 DEF RawInPlace
  <2>5. AgendaInPlace' /\ BufferInPlace'
    BY <1>5, <2>2, <2>3, StoredRaw DEF AgendaInPlace, BufferInPlace
  <2>6. UnifiedInPlace'
    BY <1>5, <2>1, <2>2, <2>3, StoredRaw, UnifiedStaysInPlace
  <2>7. QED
    BY <2>4, <2>5, <2>6
<1>6. CASE Unify
  <2>1. config' = config /\ site' = site
    BY <1>6 DEF Unify
  <2>2. Placed' = Placed
    BY <2>1, PlacedSame
  <2>3. AgendaInPlace /\ BufferInPlace /\ RawInPlace /\ UnifiedInPlace
    BY <1>6, Unified DEF InPlace
  <2>4. AgendaInPlace' /\ RawInPlace'
    BY <1>6, <2>2, <2>3, Unified DEF AgendaInPlace, RawInPlace
  <2>5. BufferInPlace'
    <3>1. run'.buffer = <<>> \/ run'.buffer = run.buffer
      BY <1>6, Unified
    <3>2. CASE run'.buffer = <<>>
      BY <3>2 DEF BufferInPlace
    <3>3. CASE run'.buffer = run.buffer
      BY <2>2, <2>3, <3>3 DEF BufferInPlace
    <3>4. QED
      BY <3>1, <3>2, <3>3
  <2>6. UnifiedInPlace'
    BY <1>6, <2>1, <2>3, Unified, FlushInPlace, UnifiedNowInPlace
  <2>7. QED
    BY <2>4, <2>5, <2>6
<1>7. CASE Finish
  <2>1. config' = config /\ site' = site /\ raw' = raw /\ unified' = unified
        /\ history'.moved = history.moved /\ run' = NoRun
    BY <1>0, <1>7 DEF Finish, Histories
  <2>2. Placed' = Placed
    BY <2>1, PlacedSame
  <2>3. AgendaInPlace' /\ BufferInPlace'
    BY <2>1, OffNow DEF AgendaInPlace, BufferInPlace
  <2>4. QED
    BY <2>1, <2>2, <2>3, StoresStayInPlace DEF InPlace
<1>8. CASE Stop
  <2>1. config' = config /\ site' = site /\ run' = NoRun /\ history'.moved = history.moved
    BY <1>0, <1>8 DEF Stop, Histories
  <2>2. Placed' = Placed
    BY <2>1, PlacedSame
  <2>3. AgendaInPlace /\ BufferInPlace /\ RawInPlace /\ UnifiedInPlace
    BY <2>1 DEF InPlace
  <2>4. AgendaInPlace' /\ BufferInPlace'
    BY <2>1, OffNow DEF AgendaInPlace, BufferInPlace
  <2>5. PICK part \in SUBSET Bulk : unified' = Applied(unified, part)
    BY <1>8 DEF Stop
  <2>6. PICK some \in SUBSET {o \in RawOps(run.buffer) : FlushDue} : raw' = Applied(raw, some)
    BY <1>8 DEF Stop
  <2>7. some \in SUBSET RawOps(run.buffer)
    OBVIOUS
  <2>8. RawInPlace'
    BY <2>2, <2>3, <2>6, <2>7, FlushInPlace DEF RawInPlace
  <2>9. UnifiedInPlace'
    BY <2>1, <2>3, <2>5, FlushInPlace, UnifiedNowInPlace
  <2>10. QED
    BY <2>4, <2>8, <2>9
<1>9. CASE SiteChanges
  <2>1. PICK page \in Pages : \E entries : Changes(page, entries) /\ Tells(page, entries)
    BY <1>9, SiteChange DEF Typed
  <2>2. PICK entries : Changes(page, entries) /\ Tells(page, entries)
    BY <2>1
  <2>3. config' = config /\ run' = run /\ raw' = raw /\ unified' = unified
        /\ history'.moved = (history.moved \/ Moves(site[page], entries))
    BY <1>0, <2>2 DEF Changes, Histories
  <2>4. Placed \subseteq Placed'
    BY <2>2, <2>3, PlacedStays
  <2>5. AgendaInPlace' /\ BufferInPlace'
    BY <2>3, <2>4 DEF AgendaInPlace, BufferInPlace, InPlace
  <2>6. QED
    BY <2>3, <2>4, <2>5, StoresStayInPlace DEF InPlace
<1>10. CASE UNCHANGED vars
  <2>1. config' = config /\ run' = run /\ raw' = raw /\ unified' = unified
        /\ history' = history /\ site' = site
    BY <1>10 DEF vars
  <2>2. Placed' = Placed
    BY <2>1, PlacedSame
  <2>3. QED
    BY <2>1, <2>2, StoresStayInPlace DEF AgendaInPlace, BufferInPlace, InPlace
<1>11. QED
  BY <1>1, <1>2, <1>3, <1>4, <1>5, <1>6, <1>7, <1>8, <1>9, <1>10 DEF Next, SiteChanges

LEMMA InPlaceOnce ==
  ASSUME Typed, InPlace
  PROVE  OneRecordPerThing
<1> SUFFICES ASSUME ~history.moved
             PROVE  /\ \A r \in raw, s \in raw : r.thing = s.thing => r.key = s.key
                    /\ \A d \in unified, e \in unified :
                         d.thing = e.thing /\ d.kind = e.kind /\ d.kind # "team_stats"
                           => d.key = e.key
  BY DEF OneRecordPerThing
<1>1. RawInPlace /\ UnifiedInPlace
  BY DEF InPlace
<1>2. ASSUME NEW r \in raw, NEW s \in raw, r.thing = s.thing PROVE r.key = s.key
  <2>1. <<r.thing, r.key>> \in Placed /\ <<r.thing, s.key>> \in Placed
    BY <1>1, <1>2 DEF RawInPlace
  <2>2. QED
    BY <2>1, PlacedOnce
<1>3. ASSUME NEW d \in unified, NEW e \in unified, d.thing = e.thing, d.kind = e.kind,
             d.kind # "team_stats"
      PROVE  d.key = e.key
  <2>1. PICK a \in Refs : <<d.thing, a>> \in Placed /\ d.key = UnifiedId(a)
    BY <1>1, <1>3 DEF UnifiedInPlace
  <2>2. PICK b \in Refs : <<e.thing, b>> \in Placed /\ e.key = UnifiedId(b)
    BY <1>1, <1>3 DEF UnifiedInPlace
  <2>3. a = b
    BY <1>3, <2>1, <2>2, PlacedOnce
  <2>4. QED
    BY <2>1, <2>2, <2>3
<1>4. QED
  BY <1>2, <1>3

\* However often a thing is fetched and revised, and wherever a run stops, it has one raw
\* record and one document in each collection that is keyed by it.
THEOREM SourcesOneRecord == Spec => []OneRecordPerThing
<1>1. Init => Typed /\ InPlace
  <2>1. SUFFICES ASSUME Init PROVE InPlace
    BY InitTyped, SourcesAssumption
  <2>2. run = NoRun /\ raw = {} /\ unified = {}
    BY <2>1 DEF Init
  <2>3. QED
    BY <2>2 DEF InPlace, AgendaInPlace, BufferInPlace, RawInPlace, UnifiedInPlace, NoRun
<1>2. Typed /\ InPlace /\ [Next]_vars => (Typed /\ InPlace)'
  BY NextTyped, InPlaceStep, SourcesAssumption
<1>3. Typed /\ InPlace => OneRecordPerThing
  BY InPlaceOnce
<1>4. QED
  BY <1>1, <1>2, <1>3, PTL DEF Spec

-----------------------------------------------------------------------------
(* A match comes before its events. *)

\* A record's own document is the first that it maps to.
LEMMA MappedFirst ==
  ASSUME NEW r \in Recs
  PROVE  /\ DOMAIN Mapped(r) \subseteq 1..3 /\ 1 \in DOMAIN Mapped(r)
         /\ Mapped(r)[1].kind = r.kind
<1> DEFINE Doc(collection, key) ==
             [r EXCEPT !.kind = collection, !.key = key, !.match = UnifiedId(r.match)]
           own == Doc(r.kind, UnifiedId(r.key))
           home == Doc("team_stats", <<"home", UnifiedId(r.key)>>)
           away == Doc("team_stats", <<"away", UnifiedId(r.key)>>)
<1>1. r \in [kind : Entities, key : Refs, thing : Things, content : Contents, match : Refs]
  BY DEF Recs
<1>2. own.kind = r.kind
  BY <1>1
<1>3. Mapped(r) = IF source = "understat" THEN <<own, home, away>> ELSE <<own>>
  BY DEF Mapped
<1> HIDE DEF own, home, away
<1>4. CASE source = "understat"
  BY <1>2, <1>3, <1>4
<1>5. CASE source # "understat"
  BY <1>2, <1>3, <1>5
<1>6. QED
  BY <1>4, <1>5

LEMMA OpsFrom ==
  ASSUME Typed
  PROVE  /\ run.buffer \in Seq(Recs)
         /\ \A n \in DOMAIN run.buffer : run.buffer[n] \in Recs
         /\ \A o \in Ops : \E n \in DOMAIN run.buffer : o.doc \in ToSet(Mapped(run.buffer[n]))
         /\ \A n \in DOMAIN run.buffer : \A d \in ToSet(Mapped(run.buffer[n])) :
              \E o \in Ops : o.doc = d
         /\ Bulk \subseteq Ops
         /\ \A o \in Bulk : o.doc.kind \in run.due
         /\ \A part \in SUBSET Bulk : Batch(part, Len(run.buffer))
         /\ Batch(RawOps(run.buffer), Len(run.buffer))
         /\ \A part \in SUBSET RawOps(run.buffer) : Batch(part, Len(run.buffer))
         /\ Len(run.buffer) \in Nat
<1> DEFINE buffer == run.buffer
<1>1. buffer \in Seq(Recs) /\ Bulk \subseteq Ops /\ \A o \in Bulk : o.doc.kind \in run.due
  BY FlushTyped DEF Typed, Ops, Bulk
<1> HIDE DEF buffer
<1>2. /\ Len(buffer) \in Nat
      /\ \A i \in DOMAIN buffer : buffer[i] \in Recs
      /\ \A o \in UnifiedOps(buffer) :
           \E i \in DOMAIN buffer : o.at = i /\ o.doc \in ToSet(Mapped(buffer[i]))
      /\ \A i \in DOMAIN buffer : \A d \in ToSet(Mapped(buffer[i])) :
           \E o \in UnifiedOps(buffer) : o.at = i /\ o.doc = d
      /\ \A ops \in SUBSET RawOps(buffer) : Batch(ops, Len(buffer))
      /\ \A ops \in SUBSET UnifiedOps(buffer) : Batch(ops, Len(buffer))
  BY <1>1, FlushOps
<1>3. Ops = UnifiedOps(buffer)
  BY DEF Ops, buffer
<1>4. \A part \in SUBSET Bulk : Batch(part, Len(buffer))
  BY <1>1, <1>2, <1>3
<1>5. QED
  <2>1. Ops \subseteq UnifiedOps(buffer) /\ UnifiedOps(buffer) \subseteq Ops
    BY <1>3
  <2> HIDE DEF buffer
  <2>2. \A o \in Ops : \E n \in DOMAIN buffer : o.doc \in ToSet(Mapped(buffer[n]))
    BY <1>2, <2>1
  <2>3. \A n \in DOMAIN buffer : \A d \in ToSet(Mapped(buffer[n])) : \E o \in Ops : o.doc = d
    BY <1>2, <2>1
  <2>4. RawOps(buffer) \in SUBSET RawOps(buffer)
    OBVIOUS
  <2>5. Batch(RawOps(buffer), Len(buffer))
    BY <1>2, <2>4
  <2>6. QED
    BY <1>1, <1>2, <1>4, <2>2, <2>3, <2>5 DEF buffer

\* The bulk write that is under way has all the operations on its collection.
LEMMA BulkWhole ==
  ASSUME NEW o \in Ops, NEW p \in Bulk, o.doc.kind = p.doc.kind
  PROVE  o \in Bulk
BY DEF Bulk, Ops

\* team_stats are written after the matches.
LEMMA TeamStatsLast ==
  ASSUME Typed, NEW o \in Bulk, o.doc.kind = "team_stats"
  PROVE  "matches" \notin run.due
<1> SUFFICES ASSUME "matches" \in run.due PROVE FALSE
  OBVIOUS
<1>1. Before(run.buffer, "team_stats", "matches")
  BY DEF Bulk
<1>2. PICK i \in DOMAIN run.buffer : \E j \in DOMAIN Mapped(run.buffer[i]) :
        /\ Mapped(run.buffer[i])[j].kind = "team_stats"
        /\ \A k \in 1..i : \A l \in DOMAIN Mapped(run.buffer[k]) :
             Mapped(run.buffer[k])[l].kind = "matches" => k = i /\ l > j
  BY <1>1 DEF Before
<1>3. PICK j \in DOMAIN Mapped(run.buffer[i]) :
        /\ Mapped(run.buffer[i])[j].kind = "team_stats"
        /\ \A k \in 1..i : \A l \in DOMAIN Mapped(run.buffer[k]) :
             Mapped(run.buffer[k])[l].kind = "matches" => k = i /\ l > j
  BY <1>2
<1> DEFINE r == run.buffer[i]
<1>4. r \in Recs /\ i \in 1..i
  <2>1. i \in 1..Len(run.buffer) /\ Len(run.buffer) \in Nat
    BY OpsFrom, LenProperties
  <2>2. QED
    BY <2>1, OpsFrom
<1>5. Mapped(r)[j] \in ToSet(Mapped(r)) /\ r.kind # "team_stats"
  BY <1>4 DEF ToSet, Recs, Entities
<1> HIDE DEF r
<1>6. source = "understat"
  BY <1>3, <1>4, <1>5, MappedDocs DEF r
<1>7. r.kind = "matches"
  BY <1>4, <1>6 DEF Recs
<1>8. 1 \in DOMAIN Mapped(r) /\ Mapped(r)[1].kind = "matches" /\ j \in 1..3
  BY <1>4, <1>7, MappedFirst DEF r
<1>9. 1 > j
  BY <1>3, <1>4, <1>8 DEF r
<1>10. QED
  BY <1>8, <1>9

\* Operations keep the matches that are there.
LEMMA StillMatched ==
  ASSUME NEW n \in Nat, NEW ops, Batch(ops, n), NEW coll, NEW d, HasMatch(d, coll)
  PROVE  HasMatch(d, Applied(coll, ops))
<1>1. PICK m \in coll : m.kind = "matches" /\ m.key = d.match
  BY DEF HasMatch
<1>2. PICK e \in Applied(coll, ops) : Same(e, m)
  BY AppliedKeys
<1>3. QED
  BY <1>1, <1>2 DEF HasMatch, Same

\* The raw matches stay.
LEMMA RawMatchesStay ==
  ASSUME Typed, NEW ops \in SUBSET RawOps(run.buffer), raw' = Applied(raw, ops)
  PROVE  MatchesInRaw \subseteq MatchesInRaw'
<1>1. ASSUME NEW ref \in MatchesInRaw PROVE ref \in MatchesInRaw'
  <2>1. PICK r \in raw : r.kind = "matches" /\ r.key = ref
    BY DEF MatchesInRaw
  <2>2. Batch(ops, Len(run.buffer)) /\ Len(run.buffer) \in Nat
    BY OpsFrom
  <2>3. PICK e \in raw' : Same(e, r)
    BY <2>2, AppliedKeys
  <2>4. ref \in Refs
    BY DEF MatchesInRaw
  <2>5. QED
    BY <2>1, <2>3, <2>4 DEF MatchesInRaw, Same, Refs
<1>2. QED
  BY <1>1

LEMMA UnifiedMatchesStay ==
  ASSUME Typed, config' = config, NEW ops \in SUBSET Bulk, unified' = Applied(unified, ops)
  PROVE  MatchesInUnified \subseteq MatchesInUnified'
<1>1. ASSUME NEW ref \in MatchesInUnified PROVE ref \in MatchesInUnified'
  <2>1. PICK d \in unified : d.kind = "matches" /\ d.key = UnifiedId(ref)
    BY DEF MatchesInUnified
  <2>2. Batch(ops, Len(run.buffer)) /\ Len(run.buffer) \in Nat
    BY OpsFrom
  <2>3. PICK e \in unified' : Same(e, d)
    BY <2>2, AppliedKeys
  <2>4. ref \in Refs
    BY DEF MatchesInUnified
  <2>5. QED
    BY <2>1, <2>3, <2>4 DEF MatchesInUnified, Same, Refs, UnifiedId, source
<1>2. QED
  BY <1>1

\* A bulk write leaves the collections that have been written with all their keys.
LEMMA WrittenKeys ==
  ASSUME Typed, FlushedKeys, Unify
  PROVE  \A o \in Ops : o.doc.kind \notin run'.due => \E d \in unified' : Same(d, o.doc)
<1>1. /\ unified' = Applied(unified, Bulk) /\ run.due # {}
      /\ run'.due = run.due \ {o.doc.kind : o \in Bulk}
  BY Unified
<1>2. Batch(Bulk, Len(run.buffer)) /\ Len(run.buffer) \in Nat
  BY OpsFrom
<1>3. ASSUME NEW o \in Ops, o.doc.kind \notin run'.due
      PROVE  \E d \in unified' : Same(d, o.doc)
  <2>1. CASE o.doc.kind \notin run.due
    <3>1. PICK d \in unified : Same(d, o.doc)
      BY <1>1, <2>1 DEF FlushedKeys
    <3>2. PICK e \in unified' : Same(e, d)
      BY <1>1, <1>2, AppliedKeys
    <3>3. QED
      BY <3>1, <3>2 DEF Same
  <2>2. CASE \E p \in Bulk : o.doc.kind = p.doc.kind
    <3>1. o \in Bulk
      BY <2>2, BulkWhole
    <3>2. QED
      BY <1>1, <1>2, <3>1, AppliedKeys
  <2>3. QED
    BY <1>1, <1>3, <2>1, <2>2
<1>4. QED
  BY <1>3

\* The stores without a write, the config and the buffer as they were.
LEMMA KeptSame ==
  ASSUME config' = config, raw' = raw, unified' = unified
  PROVE  MatchesInRaw' = MatchesInRaw /\ MatchesInUnified' = MatchesInUnified
BY DEF MatchesInRaw, MatchesInUnified, UnifiedId, source, Refs

LEMMA BufferedSame ==
  ASSUME config' = config, run'.buffer = run.buffer
  PROVE  MatchesInBuffer' = MatchesInBuffer /\ Ops' = Ops
BY DEF MatchesInBuffer, Refs, Ops, UnifiedOps, Mapped, UnifiedId, source

LEMMA StoresMatched ==
  ASSUME config' = config, raw' = raw, unified' = unified, TeamStatsMatched, EventsStored
  PROVE  TeamStatsMatched' /\ EventsStored'
<1>1. TeamStatsMatched'
  BY DEF TeamStatsMatched, HasMatch
<1>2. MatchesInRaw' = MatchesInRaw
  BY KeptSame
<1>3. EventsStored'
  BY <1>2 DEF EventsStored, UnifiedId, source
<1>4. QED
  BY <1>1, <1>3

\* No flush is under way, before or after.
LEMMA JoinedSame ==
  ASSUME unified' = unified, run.due = {}, run'.due = {}, history'.torn = history.torn,
         EventsMatched
  PROVE  EventsMatched' /\ FlushedKeys'
<1>1. Pending = {} /\ Pending' = {}
  BY DEF Pending
<1>2. EventsMatched'
  BY <1>1 DEF EventsMatched, HasMatch
<1>3. QED
  BY <1>2 DEF FlushedKeys

\* The rest of the agenda stays behind the matches that it needs.
LEMMA AdvancedMatched ==
  ASSUME Typed, config' = config, Advanced, AgendaMatched, Kept \subseteq Kept',
         \A ref \in Refs : (/\ run.agenda[1].do = "yield"
                            /\ run.agenda[1].record.kind = "matches"
                            /\ run.agenda[1].record.key = ref) => ref \in Kept'
  PROVE  AgendaMatched'
<1>1. ASSUME NEW n \in DOMAIN run'.agenda, NEW ref \in Refers(source, run'.agenda[n])
      PROVE  ref \in Kept' \/ Ahead(ref, run'.agenda, n)
  <2>1. n \in Nat \ {0} /\ n + 1 \in DOMAIN run.agenda /\ run'.agenda[n] = run.agenda[n+1]
    BY DEF Advanced
  <2>2. ref \in Refs
    BY DEF Refers
  <2>3. ref \in Kept \/ Ahead(ref, run.agenda, n + 1)
    BY <2>1 DEF AgendaMatched
  <2>4. CASE Ahead(ref, run.agenda, n + 1)
    <3>0. PICK m \in 1..(n+1)-1 : /\ run.agenda[m].do = "yield"
                                  /\ run.agenda[m].record.kind = "matches"
                                  /\ run.agenda[m].record.key = ref
      BY <2>4 DEF Ahead
    <3>1. /\ m \in 1..n /\ run.agenda[m].do = "yield"
          /\ run.agenda[m].record.kind = "matches" /\ run.agenda[m].record.key = ref
      BY <2>1, <3>0
    <3>2. CASE m = 1
      BY <2>2, <3>1, <3>2
    <3>3. CASE m # 1
      <4>1. m \in DOMAIN run.agenda /\ m - 1 \in 1..n-1
        <5>1. DOMAIN run.agenda = 1..Len(run.agenda) /\ Len(run.agenda) \in Nat
          BY RunFields, LenProperties DEF Typed
        <5>2. n + 1 \in 1..Len(run.agenda)
          BY <2>1, <5>1
        <5>3. m - 1 \in 1..n-1 /\ m \in 1..Len(run.agenda)
          BY <2>1, <3>3, <5>1, <5>2
        <5>4. QED
          BY <5>1, <5>3
      <4>2. run'.agenda[m-1] = run.agenda[m]
        BY <3>3, <4>1 DEF Advanced
      <4>3. QED
        BY <3>1, <4>1, <4>2 DEF Ahead
    <3>4. QED
      BY <3>2, <3>3
  <2>5. QED
    BY <2>3, <2>4
<1>2. QED
  BY <1>1 DEF AgendaMatched, source, Refers, Refs, Matches

LEMMA StartMatched ==
  ASSUME SourcesAssumption, Typed, MatchFirst, Start
  PROVE  MatchFirst'
<1>1. /\ config' = config /\ raw' = raw /\ unified' = unified
      /\ history'.torn = history.torn /\ run.due = {}
  BY Started DEF Start, Typed, Histories, NoRun
<1>2. /\ run'.buffer = <<>> /\ run'.due = {}
      /\ run'.agenda = [i \in DOMAIN config.roots |-> Get(config.roots[i])]
  BY Started
<1>3. AgendaMatched'
  <2>1. ASSUME NEW n \in DOMAIN run'.agenda PROVE Refers(source, run'.agenda[n]) = {}
    <3>1. run'.agenda[n].do = "get" /\ run'.agenda[n].page = config.roots[n]
          /\ n \in DOMAIN config.roots
      BY <1>2 DEF Get
    <3>2. source = "statsbomb" => config.roots = <<Index>>
      BY DEF SourcesAssumption, Typed, source
    <3>3. source = "statsbomb" => run'.agenda[n].page = Index
      BY <3>1, <3>2
    <3>4. QED
      BY <3>1, <3>3 DEF Refers, Matches
  <2>2. source' = source
    BY <1>1 DEF source
  <2>3. ASSUME NEW n \in DOMAIN run'.agenda PROVE Refers(source', run'.agenda[n]) = {}
    BY <2>1, <2>2
  <2>4. QED
    BY <2>3 DEF AgendaMatched
<1>4. BufferMatched'
  BY <1>2 DEF BufferMatched
<1>5. QED
  BY <1>1, <1>2, <1>3, <1>4, StoresMatched, JoinedSame DEF MatchFirst

\* What a page puts on the agenda is behind the match it needs.
LEMMA ItemMatched ==
  ASSUME SourcesAssumption, Typed, AgendaMatched,
         NEW page \in Pages, NEW items, Replaced(page, items),
         NEW n \in DOMAIN items, NEW ref \in Refers(source, items[n])
  PROVE  ref \in Kept \/ Ahead(ref, run'.agenda, n)
<1> DEFINE entries == site[page]
<1>1. /\ entries \in Seq(Entries(page)) /\ config \in Configs
      /\ ref \in Refs /\ DOMAIN items = 1..Len(items) /\ Len(items) \in Nat
      /\ 1 \in DOMAIN run.agenda /\ run.agenda[1].do = "get" /\ run.agenda[1].page = page
      /\ Yielding(items[n], page, entries) \/ Getting(items, n, page, entries)
  BY DEF Replaced, ItemsAre, Refers, Typed
<1>2. CASE Yielding(items[n], page, entries)
  <2>1. PICK i \in DOMAIN entries : items[n].record = Record(page, i, entries)
    BY <1>2 DEF Yielding
  <2>2. /\ items[n].do = "yield" /\ items[n].record.kind = "events"
        /\ ref = items[n].record.match
    BY <1>2 DEF Refers, Yielding
  <2>3. Entity(page) = "events" /\ ref = <<page>>
    <3>1. items[n].record.kind = Entity(page)
      BY <1>1, <2>1, RecordType
    <3>2. Entity(page) = "events" => Record(page, i, entries).match = <<page>>
      BY <1>1, RecordType
    <3>3. QED
      BY <2>1, <2>2, <3>1, <3>2
  <2>4. source = "statsbomb" /\ page \in Matches
    BY <1>2, <2>3 DEF Entity, Yielding, Matches
  <2>5. ref \in Refers(source, run.agenda[1])
    BY <1>1, <2>3, <2>4 DEF Refers
  <2>6. ref \in Kept \/ Ahead(ref, run.agenda, 1)
    BY <1>1, <2>5 DEF AgendaMatched
  <2>7. ~Ahead(ref, run.agenda, 1)
    BY DEF Ahead
  <2>8. QED
    BY <2>6, <2>7
<1>3. CASE Getting(items, n, page, entries)
  <2>1. items[n].page \in Matches /\ ref = <<items[n].page>> /\ items[n].do = "get"
    BY <1>3 DEF Refers, Getting
  <2>2. items[n].page \notin Competitions
    BY <2>1 DEF Matches
  <2>3. source = "statsbomb" /\ page \in Competitions /\ n - 1 \in DOMAIN items
    BY <1>3, <2>2 DEF Getting
  <2>4. PICK i \in DOMAIN entries : /\ items[n].page = entries[i].thing
                                 /\ items[n-1] = Yield(Record(page, i, entries))
    BY <1>3, <2>2 DEF Getting
  <2>5. Record(page, i, entries).kind = "matches" /\ Record(page, i, entries).key = ref
    <3>1. Record(page, i, entries).kind = Entity(page)
          /\ Record(page, i, entries).key = Ref(page, i, entries)
      BY <1>1, RecordType
    <3>2. QED
      BY <2>1, <2>3, <2>4, <3>1 DEF Entity, Ref
  <2>6. items[n-1].do = "yield" /\ items[n-1].record = Record(page, i, entries)
    BY <2>4 DEF Yield
  <2>7. n - 1 \in 1..n-1 /\ run'.agenda[n-1] = items[n-1]
    BY <1>1, <2>3 DEF Replaced
  <2>8. QED
    BY <2>5, <2>6, <2>7 DEF Ahead
<1>4. QED
  BY <1>1, <1>2, <1>3

LEMMA GetPageMatched ==
  ASSUME SourcesAssumption, Typed, MatchFirst, GetPage
  PROVE  MatchFirst'
<1>1. config' = config /\ raw' = raw /\ unified' = unified /\ history' = history
  BY DEF GetPage
<1>2. PICK page \in Pages : \E items : Replaced(page, items)
  BY Got
<1>3. PICK items : Replaced(page, items)
  BY <1>2
<1>4. run'.buffer = run.buffer /\ run'.due = {} /\ run.due = {}
  BY <1>3 DEF Replaced
<1>5. Kept' = Kept /\ source' = source
  BY <1>1, <1>4, KeptSame, BufferedSame DEF Kept, source
<1> DEFINE l == Len(items)
<1>6. ASSUME NEW n \in DOMAIN run'.agenda, NEW ref \in Refers(source, run'.agenda[n])
      PROVE  ref \in Kept \/ Ahead(ref, run'.agenda, n)
  <2>1. CASE n \in DOMAIN items /\ run'.agenda[n] = items[n]
    BY <1>3, <2>1, ItemMatched DEF MatchFirst
  <2>2. ASSUME NEW m \in DOMAIN run.agenda, m # 1, n = l + m - 1, run'.agenda[n] = run.agenda[m]
        PROVE  ref \in Kept \/ Ahead(ref, run'.agenda, n)
    <3>1. ref \in Kept \/ Ahead(ref, run.agenda, m)
      BY <2>2 DEF MatchFirst, AgendaMatched
    <3>2. CASE Ahead(ref, run.agenda, m)
      <4>1. PICK k \in 1..m-1 : /\ run.agenda[k].do = "yield"
                                /\ run.agenda[k].record.kind = "matches"
                                /\ run.agenda[k].record.key = ref
        BY <3>2 DEF Ahead
      <4>2. DOMAIN run.agenda = 1..Len(run.agenda) /\ Len(run.agenda) \in Nat
        BY RunFields, LenProperties DEF Typed
      <4>3. k \in DOMAIN run.agenda /\ k # 1 /\ l \in Nat
        BY <1>3, <4>1, <4>2 DEF Replaced
      <4>4. run'.agenda[l+k-1] = run.agenda[k]
        BY <1>3, <4>3 DEF Replaced
      <4>5. l + k - 1 \in 1..n-1
        BY <2>2, <4>1, <4>2, <4>3
      <4>6. QED
        BY <4>1, <4>4, <4>5 DEF Ahead
    <3>3. QED
      BY <3>1, <3>2
  <2>3. QED
    BY <1>3, <2>1, <2>2 DEF Replaced
<1>7. AgendaMatched'
  BY <1>5, <1>6 DEF AgendaMatched, source, Refers, Refs, Matches
<1>8. BufferMatched'
  BY <1>4, <1>5 DEF BufferMatched, MatchFirst
<1>9. QED
  BY <1>1, <1>4, <1>7, <1>8, StoresMatched, JoinedSame DEF MatchFirst

LEMMA SkipPageMatched ==
  ASSUME SourcesAssumption, Typed, MatchFirst, SkipPage
  PROVE  MatchFirst'
<1>1. config' = config /\ raw' = raw /\ unified' = unified /\ history'.torn = history.torn
  BY DEF SkipPage, Typed, Histories
<1>2. /\ Advanced /\ run.agenda[1].do = "get" /\ run'.buffer = run.buffer
      /\ run'.due = {} /\ run.due = {}
  BY Skipped
<1>3. Kept' = Kept
  BY <1>1, <1>2, KeptSame, BufferedSame DEF Kept
<1>4. AgendaMatched'
  <2>1. \A ref \in Refs : (/\ run.agenda[1].do = "yield"
                           /\ run.agenda[1].record.kind = "matches"
                           /\ run.agenda[1].record.key = ref) => ref \in Kept'
    BY <1>2
  <2>2. AgendaMatched /\ Kept \subseteq Kept'
    BY <1>3 DEF MatchFirst
  <2>3. QED
    BY <1>1, <1>2, <2>1, <2>2, AdvancedMatched
<1>5. BufferMatched'
  BY <1>2, <1>3 DEF BufferMatched, MatchFirst
<1>6. QED
  BY <1>1, <1>2, <1>4, <1>5, StoresMatched, JoinedSame DEF MatchFirst

LEMMA YieldRecordMatched ==
  ASSUME SourcesAssumption, Typed, MatchFirst, YieldRecord
  PROVE  MatchFirst'
<1>1. config' = config /\ raw' = raw /\ unified' = unified /\ history' = history
  BY DEF YieldRecord
<1>2. PICK record \in Recs : Moved(record)
  BY Yielded
<1>3. Kept \subseteq Kept'
  <2>1. MatchesInBuffer \subseteq MatchesInBuffer'
    BY <1>2 DEF MatchesInBuffer, Refs, Moved
  <2>2. QED
    BY <1>1, <2>1, KeptSame DEF Kept
<1>4. record.kind = "matches" => record.key \in Kept'
  <2>1. record.key \in Refs
    BY DEF Recs
  <2>2. QED
    BY <1>2, <2>1 DEF Kept, MatchesInBuffer, Refs, Moved
<1>5. AgendaMatched'
  <2>1. \A ref \in Refs : (/\ run.agenda[1].do = "yield"
                           /\ run.agenda[1].record.kind = "matches"
                           /\ run.agenda[1].record.key = ref) => ref \in Kept'
    BY <1>2, <1>4 DEF Moved
  <2>2. AgendaMatched /\ Advanced
    BY <1>2 DEF MatchFirst, Moved
  <2>3. QED
    BY <1>1, <1>3, <2>1, <2>2, AdvancedMatched
<1>6. record.kind = "events" => record.match \in Kept
  <2>1. SUFFICES ASSUME record.kind = "events" PROVE record.match \in Kept
    OBVIOUS
  <2>2. record.match \in Refers(source, run.agenda[1]) /\ 1 \in DOMAIN run.agenda
    BY <1>2, <2>1 DEF Refers, Recs, Moved, Advanced
  <2>3. ~Ahead(record.match, run.agenda, 1)
    BY DEF Ahead
  <2>4. QED
    BY <2>2, <2>3 DEF AgendaMatched, MatchFirst
<1>7. BufferMatched'
  <2>1. ASSUME NEW n \in DOMAIN run'.buffer, run'.buffer[n].kind = "events"
        PROVE  run'.buffer[n].match \in Kept'
    <3>1. CASE n \in DOMAIN run.buffer /\ run'.buffer[n] = run.buffer[n]
      BY <1>3, <2>1, <3>1 DEF BufferMatched, MatchFirst
    <3>2. CASE run'.buffer[n] = record
      BY <1>3, <1>6, <2>1, <3>2
    <3>3. QED
      BY <1>2, <3>1, <3>2 DEF Moved
  <2>2. QED
    BY <2>1 DEF BufferMatched
<1>8. run.due = {} /\ run'.due = {}
  BY <1>2 DEF Moved
<1>9. QED
  BY <1>1, <1>5, <1>7, <1>8, StoresMatched, JoinedSame DEF MatchFirst

LEMMA StoreRawMatched ==
  ASSUME SourcesAssumption, Typed, MatchFirst, StoreRaw
  PROVE  MatchFirst'
<1>1. /\ config' = config /\ unified' = unified /\ history' = history
      /\ run'.agenda = run.agenda /\ run'.buffer = run.buffer /\ run.due = {}
      /\ raw' = Applied(raw, RawOps(run.buffer))
      /\ run'.due = {o.doc.kind : o \in Ops}
  BY StoredRaw DEF StoreRaw, Ops
<1>2. MatchesInBuffer' = MatchesInBuffer /\ Ops' = Ops
  BY <1>1, BufferedSame
<1>3. MatchesInRaw \subseteq MatchesInRaw'
  BY <1>1, RawMatchesStay
<1>4. MatchesInUnified' = MatchesInUnified
  BY <1>1 DEF MatchesInUnified, UnifiedId, source, Refs
<1>5. Kept \subseteq Kept'
  BY <1>2, <1>3, <1>4 DEF Kept
<1>6. AgendaMatched'
  <2>1. ASSUME NEW n \in DOMAIN run'.agenda, NEW ref \in Refers(source, run'.agenda[n])
        PROVE  ref \in Kept' \/ Ahead(ref, run'.agenda, n)
    BY <1>1, <1>5 DEF AgendaMatched, MatchFirst
  <2>2. source' = source
    BY <1>1 DEF source
  <2>3. \A n \in DOMAIN run'.agenda : \A ref \in Refers(source', run'.agenda[n]) :
          ref \in Kept' \/ Ahead(ref, run'.agenda, n)
    BY <2>1, <2>2
  <2>4. QED
    BY <2>3 DEF AgendaMatched
<1>7. BufferMatched'
  BY <1>1, <1>5 DEF BufferMatched, MatchFirst
<1>8. FlushedKeys'
  <2>1. ASSUME NEW n \in DOMAIN run'.buffer PROVE \E r \in raw' : Same(r, run'.buffer[n])
    <3>0. run.buffer \in Seq(Recs) /\ n \in DOMAIN run.buffer
      BY <1>1, OpsFrom
    <3>1. PICK o \in RawOps(run.buffer) : o.doc = run.buffer[n]
      BY <3>0, FlushOps
    <3>2. PICK e \in raw' : Same(e, o.doc)
      BY <1>1, OpsFrom, AppliedKeys
    <3>3. QED
      BY <1>1, <3>1, <3>2
  <2>2. \A o \in Ops' : o.doc.kind \in run'.due
    BY <1>1, <1>2
  <2>3. QED
    BY <2>1, <2>2 DEF FlushedKeys
<1>9. TeamStatsMatched'
  BY <1>1 DEF TeamStatsMatched, HasMatch, MatchFirst
<1>10. EventsStored'
  BY <1>1, <1>3 DEF EventsStored, UnifiedId, source, MatchFirst
<1>11. EventsMatched'
  <2>1. unified \cup Pending = unified
    BY <1>1 DEF Pending
  <2>2. \A d \in unified : HasMatch(d, unified) => HasMatch(d, unified \cup Pending')
    BY DEF HasMatch
  <2>3. ASSUME ~history.torn, NEW d \in unified, d.kind = "events"
        PROVE  HasMatch(d, unified \cup Pending')
    <3>1. HasMatch(d, unified)
      <4>1. EventsMatched
        BY DEF MatchFirst
      <4>2. HasMatch(d, unified \cup Pending)
        BY <2>3, <4>1 DEF EventsMatched
      <4>3. QED
        BY <2>1, <4>2
    <3>2. QED
      BY <2>2, <3>1
  <2>4. QED
    BY <1>1, <2>3 DEF EventsMatched, HasMatch
<1>12. QED
  BY <1>6, <1>7, <1>8, <1>9, <1>10, <1>11 DEF MatchFirst

\* Whatever part of a bulk write is applied, team_stats have their match.
LEMMA TeamStatsPart ==
  ASSUME Typed, FlushedKeys, TeamStatsMatched, NEW part \in SUBSET Bulk,
         NEW d \in Applied(unified, part), d.kind = "team_stats"
  PROVE  HasMatch(d, Applied(unified, part))
<1>0. Batch(part, Len(run.buffer)) /\ Len(run.buffer) \in Nat
  BY OpsFrom
<1>1. CASE d \in unified
  <2>1. HasMatch(d, unified)
    BY <1>1 DEF TeamStatsMatched
  <2>2. QED
    BY <1>0, <2>1, StillMatched
<1>2. CASE \E o \in part : d = o.doc
  <2>1. PICK o \in part : d = o.doc
    BY <1>2
  <2>2. o \in Bulk /\ o \in Ops /\ o.doc.kind \in run.due /\ "matches" \notin run.due
    BY <2>1, OpsFrom, TeamStatsLast
  <2>3. PICK n \in DOMAIN run.buffer : d \in ToSet(Mapped(run.buffer[n]))
    BY <2>1, <2>2, OpsFrom
  <2> DEFINE r == run.buffer[n]
  <2>4. r \in Recs /\ d \in ToSet(Mapped(r))
    BY <2>3, OpsFrom
  <2>5. PICK own \in ToSet(Mapped(r)) : own.kind = r.kind /\ own.key = UnifiedId(r.key)
    BY <2>4, MappedDocs
  <2>6. PICK p \in Ops : p.doc = own
    BY <2>5, OpsFrom
  <2> HIDE DEF r
  <2>7. r.kind = "matches" /\ r.match = r.key
    <3>1. r.kind # "team_stats"
      BY <2>4 DEF Recs, Entities
    <3>2. source = "understat"
      BY <2>4, <3>1, MappedDocs
    <3>3. QED
      BY <2>4, <3>2 DEF Recs
  <2>8. d.match = own.key /\ own.kind = "matches"
    BY <2>4, <2>5, <2>7, MappedDocs
  <2>9. PICK e \in unified : Same(e, own)
    BY <2>2, <2>6, <2>8 DEF FlushedKeys
  <2>10. HasMatch(d, unified)
    BY <2>8, <2>9 DEF HasMatch, Same
  <2>11. QED
    BY <1>0, <2>10, StillMatched
<1>3. QED
  BY <1>1, <1>2, AppliedFrom

\* The match of an event that is written is in raw, and in unified or about to be.
LEMMA EventPart ==
  ASSUME Typed, BufferMatched, FlushedKeys, NEW o \in Bulk, o.doc.kind = "events"
  PROVE  /\ \E ref \in MatchesInRaw : o.doc.match = UnifiedId(ref)
         /\ HasMatch(o.doc, unified \cup Pending)
<1>1. o \in Ops /\ o.doc.kind \in run.due
  BY OpsFrom
<1>2. PICK n \in DOMAIN run.buffer : o.doc \in ToSet(Mapped(run.buffer[n]))
  BY <1>1, OpsFrom
<1> DEFINE r == run.buffer[n]
           ref == r.match
<1>3. r \in Recs /\ o.doc \in ToSet(Mapped(r))
  BY <1>2, OpsFrom
<1>4. r.kind = "events" /\ o.doc.match = UnifiedId(ref)
  BY <1>3, MappedDocs
<1>5. ref \in Kept
  BY <1>4 DEF BufferMatched
<1> HIDE DEF r, ref
<1>6. ASSUME ref \in MatchesInBuffer
      PROVE  ref \in MatchesInRaw /\ HasMatch(o.doc, unified \cup Pending)
  <2>1. PICK m \in DOMAIN run.buffer : run.buffer[m].kind = "matches" /\ run.buffer[m].key = ref
    BY <1>6 DEF MatchesInBuffer
  <2>2. PICK s \in raw : Same(s, run.buffer[m])
    BY <1>1 DEF FlushedKeys
  <2>3. ref \in MatchesInRaw
    BY <1>6, <2>1, <2>2 DEF MatchesInRaw, MatchesInBuffer, Same
  <2>4. run.buffer[m] \in Recs
    BY OpsFrom
  <2>5. PICK own \in ToSet(Mapped(run.buffer[m])) : own.kind = "matches" /\ own.key = UnifiedId(ref)
    BY <2>1, <2>4, MappedDocs
  <2>6. PICK p \in Ops : p.doc = own
    BY <2>5, OpsFrom
  <2>7. CASE "matches" \in run.due
    <3>1. own \in Pending
      BY <2>5, <2>6, <2>7 DEF Pending
    <3>2. own.kind = "matches" /\ own.key = o.doc.match
      BY <1>4, <2>5
    <3>3. QED
      BY <2>3, <3>1, <3>2 DEF HasMatch
  <2>8. CASE "matches" \notin run.due
    <3>1. PICK e \in unified : Same(e, own)
      BY <1>1, <2>5, <2>6, <2>8 DEF FlushedKeys
    <3>2. e.kind = "matches" /\ e.key = o.doc.match
      BY <1>4, <2>5, <3>1 DEF Same
    <3>3. QED
      BY <2>3, <3>1, <3>2 DEF HasMatch
  <2>9. QED
    BY <2>3, <2>7, <2>8
<1>7. ASSUME ref \in MatchesInRaw, ref \in MatchesInUnified
      PROVE  HasMatch(o.doc, unified \cup Pending)
  BY <1>4, <1>7 DEF MatchesInUnified, HasMatch
<1>8. QED
  BY <1>4, <1>5, <1>6, <1>7 DEF Kept

LEMMA EventsStoredPart ==
  ASSUME Typed, BufferMatched, FlushedKeys, EventsStored, NEW part \in SUBSET Bulk,
         NEW d \in Applied(unified, part), d.kind = "events"
  PROVE  \E ref \in MatchesInRaw : d.match = UnifiedId(ref)
<1>1. CASE d \in unified
  BY <1>1 DEF EventsStored
<1>2. CASE \E o \in part : d = o.doc
  BY <1>2, EventPart
<1>3. QED
  BY <1>1, <1>2, AppliedFrom

\* A flush that ends leaves its matches in the stores.
LEMMA KeptAfterUnify ==
  ASSUME Typed, FlushedKeys, Unify
  PROVE  Kept \subseteq Kept'
<1>1. /\ config' = config /\ raw' = raw /\ unified' = Applied(unified, Bulk) /\ run.due # {}
      /\ run'.buffer = IF run'.due = {} THEN <<>> ELSE run.buffer
  BY Unified DEF Unify
<1>2. MatchesInRaw' = MatchesInRaw
  BY <1>1 DEF MatchesInRaw, Refs
<1>3. MatchesInUnified \subseteq MatchesInUnified'
  BY <1>1, UnifiedMatchesStay
<1>4. CASE run'.due # {}
  <2>1. MatchesInBuffer' = MatchesInBuffer
    BY <1>1, <1>4, BufferedSame
  <2>2. QED
    BY <1>2, <1>3, <2>1 DEF Kept
<1>5. CASE run'.due = {}
  <2>1. ASSUME NEW ref \in MatchesInBuffer
        PROVE  ref \in MatchesInRaw /\ ref \in MatchesInUnified'
    <3>1. PICK m \in DOMAIN run.buffer :
             run.buffer[m].kind = "matches" /\ run.buffer[m].key = ref
      BY DEF MatchesInBuffer
    <3>2. ref \in Refs
      BY DEF MatchesInBuffer
    <3>3. PICK s \in raw : Same(s, run.buffer[m])
      BY <1>1 DEF FlushedKeys
    <3>4. ref \in MatchesInRaw
      BY <3>1, <3>2, <3>3 DEF MatchesInRaw, Same
    <3>5. run.buffer[m] \in Recs
      BY OpsFrom
    <3>6. PICK own \in ToSet(Mapped(run.buffer[m])) :
             own.kind = "matches" /\ own.key = UnifiedId(ref)
      BY <3>1, <3>5, MappedDocs
    <3>7. PICK p \in Ops : p.doc = own
      BY <3>6, OpsFrom
    <3>8. PICK e \in unified' : Same(e, own)
      BY <1>5, <3>7, WrittenKeys
    <3>9. e.kind = "matches" /\ e.key = UnifiedId(ref)
      BY <3>6, <3>8 DEF Same
    <3>10. ref \in MatchesInUnified'
      BY <1>1, <3>2, <3>9 DEF MatchesInUnified, UnifiedId, source, Refs
    <3>11. QED
      BY <3>4, <3>10
  <2>2. QED
    BY <1>2, <1>3, <2>1 DEF Kept
<1>6. QED
  BY <1>4, <1>5

LEMMA UnifyMatched ==
  ASSUME SourcesAssumption, Typed, MatchFirst, Unify
  PROVE  MatchFirst'
<1>0. AgendaMatched /\ BufferMatched /\ FlushedKeys /\ TeamStatsMatched /\ EventsStored
      /\ EventsMatched
  BY DEF MatchFirst
<1>1. /\ config' = config /\ raw' = raw /\ history' = history /\ run'.agenda = run.agenda
      /\ unified' = Applied(unified, Bulk) /\ run.due # {}
      /\ run'.buffer = IF run'.due = {} THEN <<>> ELSE run.buffer
  BY Unified DEF Unify
<1>2. Kept \subseteq Kept' /\ source' = source
  BY <1>0, <1>1, KeptAfterUnify DEF source
<1>3. run'.due # {} => Ops' = Ops
  BY <1>1, BufferedSame
<1>4. AgendaMatched'
  <2>1. ASSUME NEW n \in DOMAIN run'.agenda, NEW ref \in Refers(source, run'.agenda[n])
        PROVE  ref \in Kept' \/ Ahead(ref, run'.agenda, n)
    BY <1>0, <1>1, <1>2 DEF AgendaMatched
  <2>2. \A n \in DOMAIN run'.agenda : \A ref \in Refers(source', run'.agenda[n]) :
          ref \in Kept' \/ Ahead(ref, run'.agenda, n)
    BY <1>2, <2>1
  <2>3. QED
    BY <2>2 DEF AgendaMatched
<1>5. BufferMatched'
  <2>1. CASE run'.due = {}
    <3>1. run'.buffer = <<>>
      BY <1>1, <2>1
    <3>2. QED
      BY <3>1 DEF BufferMatched
  <2>2. CASE run'.due # {}
    BY <1>0, <1>1, <1>2, <2>2 DEF BufferMatched
  <2>3. QED
    BY <2>1, <2>2
<1>6. \A o \in Ops : o.doc.kind \notin run'.due => \E d \in unified' : Same(d, o.doc)
  BY <1>0, WrittenKeys
<1>7. FlushedKeys'
  <2>1. SUFFICES ASSUME run'.due # {} PROVE FlushedKeys'
    BY DEF FlushedKeys
  <2>2. Ops' = Ops /\ run'.buffer = run.buffer
    BY <1>1, <1>3, <2>1
  <2>3. \A o \in Ops' : o.doc.kind \notin run'.due => \E d \in unified' : Same(d, o.doc)
    BY <1>6, <2>2
  <2>4. \A n \in DOMAIN run'.buffer : \E r \in raw' : Same(r, run'.buffer[n])
    BY <1>0, <1>1, <2>2 DEF FlushedKeys
  <2>5. QED
    BY <2>3, <2>4 DEF FlushedKeys
<1>8. TeamStatsMatched'
  <2>1. \A d \in unified' : d.kind = "team_stats" => HasMatch(d, unified')
    BY <1>0, <1>1, TeamStatsPart
  <2>2. QED
    BY <2>1 DEF TeamStatsMatched, HasMatch
<1>9. EventsStored'
  <2>1. \A d \in unified' : d.kind = "events" => \E ref \in MatchesInRaw : d.match = UnifiedId(ref)
    BY <1>0, <1>1, EventsStoredPart
  <2>2. MatchesInRaw' = MatchesInRaw
    BY <1>1 DEF MatchesInRaw, Refs
  <2>3. QED
    BY <1>2, <2>1, <2>2 DEF EventsStored, UnifiedId
<1>10. EventsMatched'
  <2>1. ASSUME ~history.torn, NEW d \in unified', d.kind = "events"
        PROVE  HasMatch(d, unified' \cup Pending')
    <3>1. HasMatch(d, unified \cup Pending)
      <4>0. \A e \in unified : e.kind = "events" => HasMatch(e, unified \cup Pending)
        BY <1>0, <2>1 DEF EventsMatched
      <4>1. CASE d \in unified
        BY <2>1, <4>0, <4>1
      <4>2. CASE \E o \in Bulk : d = o.doc
        <5>1. PICK o \in Bulk : d = o.doc
          BY <4>2
        <5>2. HasMatch(o.doc, unified \cup Pending)
          BY <1>0, <2>1, <5>1, EventPart
        <5>3. QED
          BY <5>1, <5>2
      <4>3. QED
        BY <1>1, <4>1, <4>2, AppliedFrom
    <3>2. PICK m \in unified \cup Pending : m.kind = "matches" /\ m.key = d.match
      BY <3>1 DEF HasMatch
    <3>3. CASE m \in unified
      <4>1. PICK e \in unified' : Same(e, m)
        BY <1>1, <3>3, OpsFrom, AppliedKeys
      <4>2. QED
        BY <3>2, <4>1 DEF HasMatch, Same
    <3>4. CASE m \in Pending
      <4>1. PICK o \in Ops : o.doc = m
        BY <3>4 DEF Pending
      <4>2. CASE "matches" \in run'.due
        <5>1. Ops' = Ops
          BY <1>3, <4>2
        <5>2. m \in Pending'
          BY <3>2, <4>1, <4>2, <5>1 DEF Pending
        <5>3. QED
          BY <3>2, <5>2 DEF HasMatch
      <4>3. CASE "matches" \notin run'.due
        <5>1. PICK e \in unified' : Same(e, m)
          BY <1>6, <3>2, <4>1, <4>3
        <5>2. QED
          BY <3>2, <5>1 DEF HasMatch, Same
      <4>4. QED
        BY <4>2, <4>3
    <3>5. QED
      BY <3>3, <3>4
  <2>2. QED
    BY <1>1, <2>1 DEF EventsMatched, HasMatch
<1>11. QED
  BY <1>4, <1>5, <1>7, <1>8, <1>9, <1>10 DEF MatchFirst

\* Without a run there is neither agenda nor buffer.
LEMMA OffMatched ==
  ASSUME run' = NoRun
  PROVE  AgendaMatched' /\ BufferMatched' /\ FlushedKeys'
BY OffNow DEF AgendaMatched, BufferMatched, FlushedKeys

LEMMA FinishMatched ==
  ASSUME SourcesAssumption, Typed, MatchFirst, Finish
  PROVE  MatchFirst'
<1>1. /\ config' = config /\ raw' = raw /\ unified' = unified /\ run' = NoRun
      /\ history'.torn = history.torn /\ run.due = {}
  BY RunFields DEF Finish, Typed, Histories
<1>2. run'.due = {}
  BY <1>1, OffNow
<1>3. QED
  BY <1>1, <1>2, OffMatched, StoresMatched, JoinedSame DEF MatchFirst

LEMMA StopMatched ==
  ASSUME SourcesAssumption, Typed, MatchFirst, Stop
  PROVE  MatchFirst'
<1>0. BufferMatched /\ FlushedKeys /\ TeamStatsMatched /\ EventsStored /\ EventsMatched
  BY DEF MatchFirst
<1>1. /\ config' = config /\ run' = NoRun
      /\ history'.torn = (history.torn \/ run.due # {})
  BY DEF Stop, Typed, Histories
<1>2. PICK part \in SUBSET Bulk : unified' = Applied(unified, part)
  BY DEF Stop
<1>3. PICK some \in SUBSET {o \in RawOps(run.buffer) : FlushDue} : raw' = Applied(raw, some)
  BY DEF Stop
<1>4. TeamStatsMatched'
  <2>1. \A d \in unified' : d.kind = "team_stats" => HasMatch(d, unified')
    BY <1>0, <1>2, TeamStatsPart
  <2>2. QED
    BY <2>1 DEF TeamStatsMatched, HasMatch
<1>5. EventsStored'
  <2>1. \A d \in unified' : d.kind = "events" => \E ref \in MatchesInRaw : d.match = UnifiedId(ref)
    BY <1>0, <1>2, EventsStoredPart
  <2>2. some \in SUBSET RawOps(run.buffer)
    OBVIOUS
  <2>3. MatchesInRaw \subseteq MatchesInRaw'
    BY <1>3, <2>2, RawMatchesStay
  <2>4. source' = source
    BY <1>1 DEF source
  <2>5. QED
    BY <2>1, <2>3, <2>4 DEF EventsStored, UnifiedId
<1>6. EventsMatched'
  <2>1. SUFFICES ASSUME ~history.torn, run.due = {} PROVE EventsMatched'
    BY <1>1 DEF EventsMatched
  <2>2. Bulk = {} /\ Pending = {}
    BY <2>1 DEF Bulk, Pending
  <2>3. unified' = unified
    BY <1>2, <2>2 DEF Applied
  <2>4. \A d \in unified : d.kind = "events" => HasMatch(d, unified)
    <3>1. \A d \in unified : d.kind = "events" => HasMatch(d, unified \cup Pending)
      BY <1>0, <2>1 DEF EventsMatched
    <3>2. unified \cup Pending = unified
      BY <2>2
    <3>3. QED
      BY <3>1, <3>2 DEF HasMatch
  <2>5. QED
    BY <2>3, <2>4 DEF EventsMatched, HasMatch
<1>7. QED
  BY <1>1, <1>4, <1>5, <1>6, OffMatched DEF MatchFirst

\* The site may change: nothing here speaks of it.
LEMMA SiteChangesMatched ==
  ASSUME MatchFirst, config' = config, run' = run, raw' = raw, unified' = unified,
         history'.torn = history.torn
  PROVE  MatchFirst'
<1>1. Kept' = Kept /\ Ops' = Ops /\ source' = source
  BY KeptSame, BufferedSame DEF Kept, source
<1>2. Pending' = Pending
  BY <1>1 DEF Pending
<1>3. AgendaMatched'
  <2>1. \A n \in DOMAIN run'.agenda : \A ref \in Refers(source', run'.agenda[n]) :
          ref \in Kept' \/ Ahead(ref, run'.agenda, n)
    BY <1>1 DEF AgendaMatched, MatchFirst
  <2>2. QED
    BY <2>1 DEF AgendaMatched
<1>4. BufferMatched' /\ FlushedKeys'
  BY <1>1 DEF BufferMatched, FlushedKeys, MatchFirst
<1>5. EventsMatched'
  BY <1>2 DEF EventsMatched, HasMatch, MatchFirst
<1>6. QED
  BY <1>3, <1>4, <1>5, StoresMatched DEF MatchFirst

LEMMA MatchFirstStep ==
  ASSUME SourcesAssumption, Typed, MatchFirst, [Next]_vars
  PROVE  MatchFirst'
<1>1. CASE Start \/ GetPage \/ SkipPage \/ YieldRecord
  BY <1>1, StartMatched, GetPageMatched, SkipPageMatched, YieldRecordMatched
<1>2. CASE StoreRaw \/ Unify \/ Finish \/ Stop
  BY <1>2, StoreRawMatched, UnifyMatched, FinishMatched, StopMatched
<1>3. CASE SiteChanges
  <2>1. config' = config /\ run' = run /\ raw' = raw /\ unified' = unified
        /\ history'.torn = history.torn
    BY <1>3, SiteChange DEF Typed, Histories, Changes
  <2>2. QED
    BY <2>1, SiteChangesMatched
<1>4. CASE UNCHANGED vars
  BY <1>4, SiteChangesMatched DEF vars
<1>5. QED
  BY <1>1, <1>2, <1>3, <1>4 DEF Next, SiteChanges

LEMMA InitMatched ==
  ASSUME Init
  PROVE  MatchFirst
<1>1. run = NoRun /\ raw = {} /\ unified = {}
  BY DEF Init
<1>2. QED
  BY <1>1 DEF MatchFirst, AgendaMatched, BufferMatched, FlushedKeys, TeamStatsMatched,
              EventsStored, EventsMatched, NoRun

LEMMA MatchFirstThere ==
  ASSUME MatchFirst
  PROVE  MatchIsThere /\ EventsJoin
<1>1. TeamStatsMatched /\ EventsStored /\ EventsMatched
  BY DEF MatchFirst
<1>2. MatchIsThere
  <2>1. ASSUME NEW d \in unified, d.kind = "events"
        PROVE  \E r \in raw : r.kind = "matches" /\ UnifiedId(r.key) = d.match
    <3>1. PICK ref \in MatchesInRaw : d.match = UnifiedId(ref)
      BY <1>1, <2>1 DEF EventsStored
    <3>2. PICK r \in raw : r.kind = "matches" /\ r.key = ref
      BY DEF MatchesInRaw
    <3>3. QED
      BY <3>1, <3>2
  <2>2. QED
    BY <1>1, <2>1 DEF MatchIsThere, DocsOf, TeamStatsMatched
<1>3. EventsJoin
  <2>1. SUFFICES ASSUME ~history.torn, NEW d \in unified, d.kind = "events"
                 PROVE  HasMatch(d, unified \cup Pending)
    BY DEF EventsJoin, DocsOf, Pending, Ops
  <2>2. QED
    BY <1>1, <2>1 DEF EventsMatched
<1>4. QED
  BY <1>2, <1>3

\* No run, wherever it stops, leaves team_stats without their match, or an event whose
\* match was never stored: the order of the agenda, of the buffer and of a flush.
THEOREM SourcesMatchIsThere == Spec => []MatchIsThere
<1>1. Init => Typed /\ MatchFirst
  BY InitTyped, InitMatched, SourcesAssumption
<1>2. Typed /\ MatchFirst /\ [Next]_vars => (Typed /\ MatchFirst)'
  BY NextTyped, MatchFirstStep, SourcesAssumption
<1>3. Typed /\ MatchFirst => MatchIsThere
  BY MatchFirstThere
<1>4. QED
  BY <1>1, <1>2, <1>3, PTL DEF Spec

\* As long as no run has stopped within a flush, an event joins with its match, but for
\* the one that the flush under way is about to write.
THEOREM SourcesEventsJoin == Spec => []EventsJoin
<1>1. Init => Typed /\ MatchFirst
  BY InitTyped, InitMatched, SourcesAssumption
<1>2. Typed /\ MatchFirst /\ [Next]_vars => (Typed /\ MatchFirst)'
  BY NextTyped, MatchFirstStep, SourcesAssumption
<1>3. Typed /\ MatchFirst => EventsJoin
  BY MatchFirstThere
<1>4. QED
  BY <1>1, <1>2, <1>3, PTL DEF Spec

-----------------------------------------------------------------------------
(* What the site lists. *)

\* While config and site stand still, so does what is defined by them.
LEMMA SiteSame ==
  ASSUME config' = config, site' = site
  PROVE  Catalogue' = Catalogue /\ Reached' = Reached /\ From' = From
BY DEF Catalogue, Reached, From, Under, YieldedBy, Below, Yields, Items, Record, Ref, Entity, Selected, Limited,
       source

\* Where the items of a page come from and lead to.
LEMMA PageItems ==
  ASSUME SourcesAssumption, Typed, NEW page \in Pages
  PROVE  /\ \A item \in Yields(page, "yield") :
              \E i \in DOMAIN site[page] : item.record = Record(page, i, site[page])
         /\ \A item \in Yields(page, "get") :
              /\ source = "statsbomb"
              /\ \/ page = Index /\ item.page \in Competitions
                 \/ page \in Competitions /\ item.page \in Matches
<1> DEFINE items == Items(page, site[page])
<1>1. site[page] \in Seq(Entries(page)) /\ config \in Configs
  BY DEF Typed, SiteTyped
<1>2. ItemsAre(items, page, site[page])
  BY <1>1, ItemsType
<1> HIDE DEF items
<1>3. \A n \in DOMAIN items : \/ Yielding(items[n], page, site[page])
                              \/ Getting(items, n, page, site[page])
  BY <1>2 DEF ItemsAre
<1>4. ASSUME NEW item \in ToSet(items) PROVE \E n \in DOMAIN items : item = items[n]
  BY DEF ToSet
<1>5. ASSUME NEW item \in Yields(page, "yield")
      PROVE  \E i \in DOMAIN site[page] : item.record = Record(page, i, site[page])
  <2>1. item \in ToSet(items) /\ item.do = "yield"
    BY DEF Yields, items
  <2>2. PICK n \in DOMAIN items : item = items[n]
    BY <1>4, <2>1
  <2>3. Yielding(item, page, site[page])
    BY <1>3, <2>1, <2>2 DEF Getting
  <2>4. QED
    BY <2>3 DEF Yielding
<1>6. ASSUME NEW item \in Yields(page, "get")
      PROVE  /\ source = "statsbomb"
             /\ \/ page = Index /\ item.page \in Competitions
                \/ page \in Competitions /\ item.page \in Matches
  <2>1. item \in ToSet(items) /\ item.do = "get"
    BY DEF Yields, items
  <2>2. PICK n \in DOMAIN items : item = items[n]
    BY <1>4, <2>1
  <2>3. Getting(items, n, page, site[page])
    BY <1>3, <2>1, <2>2 DEF Yielding
  <2>4. QED
    BY <2>2, <2>3 DEF Getting
<1>7. QED
  BY <1>5, <1>6

\* A page that can be reached leads to pages that can: there are three levels.
LEMMA ReachedPages ==
  ASSUME SourcesAssumption, Typed
  PROVE  /\ Reached \subseteq Pages
         /\ \A page \in Reached : \A item \in Yields(page, "get") : item.page \in Reached
<1> DEFINE roots == ToSet(config.roots)
           second == Below(roots)
           third == Below(second)
<1>1. roots \subseteq Pages
  <2> DEFINE r == config.roots
  <2>1. r \in Seq(Pages)
    BY DEF Typed, SourcesAssumption
  <2> HIDE DEF r
  <2>2. ToSet(r) \subseteq Pages
    BY <2>1, ElementOfSeq, LenProperties DEF ToSet
  <2>3. QED
    BY <2>2 DEF r
<1>2. source = "statsbomb" => roots = {Index}
  BY DEF Typed, SourcesAssumption, ToSet, source
<1>3. Reached = roots \cup second \cup third
  BY DEF Reached
<1>4. \A pages : \A q \in Below(pages) : \E p \in pages : \E item \in Yields(p, "get") : q = item.page
  BY DEF Below
<1>5. \A pages : \A p \in pages : \A item \in Yields(p, "get") : item.page \in Below(pages)
  BY DEF Below
<1>6. Index \in Pages /\ Index \notin Competitions /\ Competitions \subseteq Pages
      /\ Matches = Pages \ (Competitions \cup {Index})
  BY DEF SourcesAssumption, Matches
<1> HIDE DEF roots, second, third
<1>7. second \subseteq Competitions
  <2>1. ASSUME NEW q \in second PROVE q \in Competitions
    <3>1. PICK p \in roots : \E item \in Yields(p, "get") : q = item.page
      BY <1>4, <2>1 DEF second
    <3>2. PICK item \in Yields(p, "get") : q = item.page
      BY <3>1
    <3>3. source = "statsbomb" /\ (p = Index => item.page \in Competitions)
      BY <1>1, <1>6, PageItems
    <3>4. QED
      BY <1>2, <3>2, <3>3
  <2>2. QED
    BY <2>1
<1>8. third \subseteq Matches
  <2>1. ASSUME NEW q \in third PROVE q \in Matches
    <3>1. PICK p \in second : \E item \in Yields(p, "get") : q = item.page
      BY <1>4, <2>1 DEF third
    <3>2. PICK item \in Yields(p, "get") : q = item.page
      BY <3>1
    <3>3. p \in Competitions /\ p \in Pages
      BY <1>6, <1>7
    <3>4. QED
      BY <1>6, <3>2, <3>3, PageItems
  <2>2. QED
    BY <2>1
<1>9. Reached \subseteq Pages
  BY <1>1, <1>3, <1>6, <1>7, <1>8
<1>10. ASSUME NEW page \in Reached, NEW item \in Yields(page, "get")
       PROVE  item.page \in Reached
  <2>1. CASE page \in roots
    <3>1. item.page \in second
      BY <1>5, <2>1 DEF second
    <3>2. QED
      BY <1>3, <3>1
  <2>2. CASE page \in second
    <3>1. item.page \in third
      BY <1>5, <2>2 DEF third
    <3>2. QED
      BY <1>3, <3>1
  <2>3. CASE page \in third
    <3>1. page \in Pages /\ page \notin Competitions /\ page # Index
      BY <1>6, <1>8, <2>3
    <3>2. QED
      BY <3>1, PageItems
  <2>4. QED
    BY <1>3, <2>1, <2>2, <2>3
<1>11. QED
  BY <1>9, <1>10

\* What a page that can be reached yields is in the catalogue.
LEMMA YieldsListed ==
  ASSUME NEW page \in Reached, NEW item \in Yields(page, "yield")
  PROVE  item.record \in Catalogue
<1> DEFINE roots == ToSet(config.roots)
           reached == roots \cup Below(roots) \cup Below(Below(roots))
<1>1. page \in reached
  BY DEF Reached
<1>2. Catalogue = {i.record : i \in UNION {Yields(p, "yield") : p \in reached}}
  BY DEF Catalogue
<1> HIDE DEF reached
<1>3. QED
  BY <1>1, <1>2

\* A record of the catalogue is that of an entry of the site.
LEMMA ListedEntry ==
  ASSUME SourcesAssumption, Typed, NEW r \in Catalogue
  PROVE  /\ r \in Recs
         /\ \E p \in Pages : \E i \in DOMAIN site[p] : r = Record(p, i, site[p])
<1> DEFINE roots == ToSet(config.roots)
           reached == roots \cup Below(roots) \cup Below(Below(roots))
<1>1. reached = Reached
  BY DEF Reached
<1>2. Catalogue = {i.record : i \in UNION {Yields(p, "yield") : p \in reached}}
  BY DEF Catalogue
<1> HIDE DEF reached
<1>3. PICK p \in Reached : \E item \in Yields(p, "yield") : r = item.record
  BY <1>1, <1>2
<1>4. PICK item \in Yields(p, "yield") : r = item.record
  BY <1>3
<1>5. p \in Pages
  BY ReachedPages
<1>6. PICK i \in DOMAIN site[p] : r = Record(p, i, site[p])
  BY <1>4, <1>5, PageItems
<1>7. site[p] \in Seq(Entries(p)) /\ config \in Configs
  BY <1>5 DEF Typed, SiteTyped
<1>8. r \in Recs
  BY <1>5, <1>6, <1>7, RecordType
<1>9. QED
  BY <1>5, <1>6, <1>8

\* Things are listed once, and a ref names its thing: a key has one record.
LEMMA ListedOnce ==
  ASSUME SourcesAssumption, Typed, NEW r \in Catalogue, NEW s \in Catalogue, Same(r, s)
  PROVE  r = s
<1>1. PICK p \in Pages : \E i \in DOMAIN site[p] : r = Record(p, i, site[p])
  BY ListedEntry
<1>2. PICK i \in DOMAIN site[p] : r = Record(p, i, site[p])
  BY <1>1
<1>3. PICK q \in Pages : \E j \in DOMAIN site[q] : s = Record(q, j, site[q])
  BY ListedEntry
<1>4. PICK j \in DOMAIN site[q] : s = Record(q, j, site[q])
  BY <1>3
<1>5. r.key = Ref(p, i, site[p]) /\ s.key = Ref(q, j, site[q])
  <2>1. /\ site[p] \in Seq(Entries(p)) /\ site[q] \in Seq(Entries(q)) /\ config \in Configs
    BY DEF Typed, SiteTyped
  <2>2. QED
    BY <1>2, <1>4, <2>1, RecordType
<1>6. site[p][i].thing = site[q][j].thing
  <2>1. Ref(p, i, site[p]) = Ref(q, j, site[q])
    BY <1>5 DEF Same
  <2>2. QED
    BY <2>1 DEF Ref
<1>7. \A u \in Pages, v \in Pages : \A k \in DOMAIN site[u], l \in DOMAIN site[v] :
        site[u][k].thing = site[v][l].thing => u = v /\ k = l
  BY DEF Typed, SiteTyped
<1>8. p = q /\ i = j
  BY <1>6, <1>7
<1>9. QED
  BY <1>2, <1>4, <1>8

\* And so has a key of what the records map to.
LEMMA MappedOnce ==
  ASSUME SourcesAssumption, Typed, NEW r \in Catalogue, NEW s \in Catalogue,
         NEW d \in ToSet(Mapped(r)), NEW e \in ToSet(Mapped(s)), Same(d, e)
  PROVE  d = e
<1>1. r \in Recs /\ s \in Recs
  BY ListedEntry
<1>2. Same(r, s)
  BY <1>1, MappedKeys
<1>3. r = s
  BY <1>2, ListedOnce
<1>4. QED
  BY <1>1, <1>3, MappedDocs

LEMMA YieldedByPages ==
  ASSUME NEW pages, NEW r
  PROVE  r \in YieldedBy(pages) <=>
           \E p \in pages : \E item \in Yields(p, "yield") : r = item.record
BY DEF YieldedBy

\* What a page leads to it yields, or a page that it lists leads to it.
LEMMA FromParts ==
  ASSUME SourcesAssumption, Typed, NEW page \in Pages, NEW r \in From[page]
  PROVE  \/ \E item \in Yields(page, "yield") : r = item.record
         \/ \E item \in Yields(page, "get") : item.page \in Pages /\ r \in From[item.page]
<1>1. \A p \in Pages : From[p] = YieldedBy(Under(p))
  BY DEF From
<1>2. \A p : p \in Under(p)
  BY DEF Under
<1>3. \A pages : \A q \in Below(pages) : \E p \in pages : \E item \in Yields(p, "get") : q = item.page
  BY DEF Below
<1>4. \A pages : \A p \in pages : \A item \in Yields(p, "get") : item.page \in Below(pages)
  BY DEF Below
<1>5. \A item \in Yields(page, "get") : item.page \in Pages
  BY PageItems DEF Matches, SourcesAssumption
<1>6. PICK q \in Under(page) : \E item \in Yields(q, "yield") : r = item.record
  BY <1>1, YieldedByPages
<1>7. CASE q = page
  BY <1>6, <1>7
<1>8. CASE q \in Below({page})
  <2>1. PICK item \in Yields(page, "get") : q = item.page
    BY <1>3, <1>8
  <2>2. r \in YieldedBy(Under(q))
    BY <1>2, <1>6, YieldedByPages
  <2>3. QED
    BY <1>1, <1>5, <2>1, <2>2
<1>9. CASE q \in Below(Below({page}))
  <2>1. PICK p \in Below({page}) : \E item \in Yields(p, "get") : q = item.page
    BY <1>3, <1>9
  <2>2. PICK item \in Yields(page, "get") : p = item.page
    BY <1>3, <2>1
  <2>3. q \in Under(p)
    BY <1>4, <2>1 DEF Under
  <2>4. r \in YieldedBy(Under(p))
    BY <1>6, <2>3, YieldedByPages
  <2>5. QED
    BY <1>1, <1>5, <2>2, <2>4
<1>10. QED
  BY <1>6, <1>7, <1>8, <1>9 DEF Under

\* The configured pages lead to the whole catalogue.
LEMMA RootsLead ==
  ASSUME SourcesAssumption, Typed, NEW r \in Catalogue
  PROVE  \E i \in DOMAIN config.roots : config.roots[i] \in Pages /\ r \in From[config.roots[i]]
<1> DEFINE roots == ToSet(config.roots)
           reached == roots \cup Below(roots) \cup Below(Below(roots))
<1>1. \A p \in Pages : From[p] = YieldedBy(Under(p))
  BY DEF From
<1>3. \A pages : \A q \in Below(pages) : \E p \in pages : \E item \in Yields(p, "get") : q = item.page
  BY DEF Below
<1>4. \A pages : \A p \in pages : \A item \in Yields(p, "get") : item.page \in Below(pages)
  BY DEF Below
<1>5. \A p \in roots : p \in Pages /\ \E i \in DOMAIN config.roots : p = config.roots[i]
  <2>1. \A p \in roots : p \in Reached
    BY DEF Reached
  <2>2. \A p \in roots : \E i \in DOMAIN config.roots : p = config.roots[i]
    BY DEF ToSet
  <2> HIDE DEF roots
  <2>3. QED
    BY <2>1, <2>2, ReachedPages
<1>6. Catalogue = YieldedBy(reached)
  BY DEF Catalogue, YieldedBy
<1>7. PICK q \in reached : \E item \in Yields(q, "yield") : r = item.record
  <2> HIDE DEF reached
  <2>1. QED
    BY <1>6, YieldedByPages
<1>8. \E p \in roots : q \in Under(p)
  <2> HIDE DEF roots
  <2>1. CASE q \in roots
    BY <2>1 DEF Under
  <2>2. CASE q \in Below(roots)
    <3>1. PICK p \in roots : \E item \in Yields(p, "get") : q = item.page
      BY <1>3, <2>2
    <3>2. QED
      BY <1>4, <3>1 DEF Under
  <2>3. CASE q \in Below(Below(roots))
    <3>1. PICK m \in Below(roots) : \E item \in Yields(m, "get") : q = item.page
      BY <1>3, <2>3
    <3>2. PICK p \in roots : \E item \in Yields(p, "get") : m = item.page
      BY <1>3, <3>1
    <3>3. m \in Below({p})
      BY <1>4, <3>2
    <3>4. q \in Below(Below({p}))
      BY <1>4, <3>1, <3>3
    <3>5. QED
      BY <3>4 DEF Under
  <2>4. QED
    BY <1>7, <2>1, <2>2, <2>3
<1>9. PICK p \in roots : q \in Under(p)
  BY <1>8
<1>10. r \in From[p] /\ p \in Pages
  <2>1. r \in YieldedBy(Under(p))
    BY <1>7, <1>9, YieldedByPages
  <2> HIDE DEF roots
  <2>2. QED
    BY <1>1, <1>5, <1>9, <2>1
<1> HIDE DEF roots
<1>11. PICK i \in DOMAIN config.roots : p = config.roots[i]
  BY <1>5
<1>12. QED
  BY <1>10, <1>11

-----------------------------------------------------------------------------
(* A run that succeeds has covered the site, and further runs change nothing. *)

\* A flush of what the site lists keeps what is there of it, and adds what it has.
LEMMA FlushKeeps ==
  ASSUME SourcesAssumption, Typed, BufferOfTheSite
  PROVE  /\ \A part \in SUBSET RawOps(run.buffer) : \A r \in Catalogue :
              r \in raw \/ (\E o \in part : o.doc = r) => r \in Applied(raw, part)
         /\ \A part \in SUBSET Bulk : \A r \in Catalogue : \A d \in ToSet(Mapped(r)) :
              d \in unified \/ (\E o \in part : o.doc = d) => d \in Applied(unified, part)
<1> DEFINE n == Len(run.buffer)
<1>1. n \in Nat
  BY OpsFrom
<1>2. ASSUME NEW part \in SUBSET RawOps(run.buffer), NEW r \in Catalogue,
             r \in raw \/ \E o \in part : o.doc = r
      PROVE  r \in Applied(raw, part)
  <2>1. Batch(part, n)
    BY OpsFrom
  <2>2. ASSUME NEW o \in part, Same(o.doc, r) PROVE o.doc = r
    <3>1. o.doc \in ToSet(run.buffer)
      BY OpsFrom, FlushOps
    <3>2. o.doc \in Catalogue
      BY <3>1 DEF BufferOfTheSite, ToSet
    <3>3. QED
      BY <2>2, <3>2, ListedOnce
  <2> HIDE DEF n
  <2>3. QED
    BY <1>1, <1>2, <2>1, <2>2, AppliedExact
<1>3. ASSUME NEW part \in SUBSET Bulk, NEW r \in Catalogue, NEW d \in ToSet(Mapped(r)),
             d \in unified \/ \E o \in part : o.doc = d
      PROVE  d \in Applied(unified, part)
  <2>1. Batch(part, n)
    BY OpsFrom
  <2>2. ASSUME NEW o \in part, Same(o.doc, d) PROVE o.doc = d
    <3>1. PICK i \in DOMAIN run.buffer : o.doc \in ToSet(Mapped(run.buffer[i]))
      BY OpsFrom
    <3>2. run.buffer[i] \in Catalogue
      BY DEF BufferOfTheSite
    <3>3. QED
      BY <2>2, <3>1, <3>2, MappedOnce
  <2> HIDE DEF n
  <2>3. QED
    BY <1>1, <1>3, <2>1, <2>2, AppliedExact
<1>4. QED
  BY <1>2, <1>3

\* What is stored stays there when its documents do.
LEMMA StoredStays ==
  ASSUME config' = config, site' = site, NEW some \in SUBSET Catalogue,
         \A r \in some : r \in raw' /\ \A d \in ToSet(Mapped(r)) : d \in unified'
  PROVE  some \subseteq Stored'
<1>1. Catalogue' = Catalogue
  BY SiteSame
<1>2. ASSUME NEW r \in some PROVE ToSet(Mapped(r)') \subseteq unified'
  <2>1. Mapped(r)' = Mapped(r)
    BY DEF Mapped, UnifiedId, source
  <2>2. QED
    BY <2>1
<1>3. QED
  BY <1>1, <1>2 DEF Stored

SiteCovered == OfTheSite /\ Covers /\ Settled

\* The stores stand still, and with them what is stored.
LEMMA StoredSame ==
  ASSUME config' = config, site' = site, raw' = raw, unified' = unified
  PROVE  Stored \subseteq Stored'
BY StoredStays DEF Stored

LEMMA StartCovers ==
  ASSUME SourcesAssumption, Typed, SiteCovered, Start
  PROVE  SiteCovered'
<1>1. /\ config' = config /\ site' = site /\ raw' = raw /\ unified' = unified
      /\ history'.settled = history.settled
  BY DEF Start, Typed, Histories
<1>2. /\ run'.buffer = <<>> /\ run'.due = {}
      /\ run'.agenda = [i \in DOMAIN config.roots |-> Get(config.roots[i])]
  BY Started
<1>3. Catalogue' = Catalogue /\ Reached' = Reached /\ From' = From /\ Stored \subseteq Stored'
  BY <1>1, SiteSame, StoredSame
<1>4. \A n \in DOMAIN run'.agenda : /\ n \in DOMAIN config.roots
                                    /\ run'.agenda[n].do = "get"
                                    /\ run'.agenda[n].page = config.roots[n]
  BY <1>2 DEF Get
<1>5. AgendaOfTheSite'
  <2>1. \A n \in DOMAIN config.roots : config.roots[n] \in Reached
    BY DEF Reached, ToSet
  <2>2. QED
    BY <1>3, <1>4, <2>1 DEF AgendaOfTheSite
<1>6. BufferOfTheSite' /\ FlushedDocs'
  BY <1>2 DEF BufferOfTheSite, FlushedDocs
<1>7. \A r \in Catalogue : r \in Coming'
  <2>1. ASSUME NEW r \in Catalogue PROVE r \in Coming'
    <3>1. PICK i \in DOMAIN config.roots : r \in From[config.roots[i]]
      BY RootsLead
    <3>2. i \in DOMAIN run'.agenda
      BY <1>2, <3>1
    <3>3. run'.agenda[i].do = "get" /\ r \in From'[run'.agenda[i].page]
      BY <1>3, <1>4, <3>1, <3>2
    <3>4. QED
      BY <1>3, <3>2, <3>3 DEF Coming
  <2>2. QED
    BY <2>1
<1>8. Settled'
  BY <1>1, <1>3 DEF SiteCovered, Settled
<1>9. QED
  BY <1>3, <1>5, <1>6, <1>7, <1>8 DEF SiteCovered, OfTheSite, Covers

LEMMA GetPageCovers ==
  ASSUME SourcesAssumption, Typed, SiteCovered, GetPage
  PROVE  SiteCovered'
<1>1. /\ config' = config /\ site' = site /\ raw' = raw /\ unified' = unified
      /\ history' = history
  BY DEF GetPage
<1>2. Catalogue' = Catalogue /\ Reached' = Reached /\ From' = From /\ Stored \subseteq Stored'
  BY <1>1, SiteSame, StoredSame
<1>3. PICK page \in Pages : \E items : Replaced(page, items)
  BY Got
<1>4. PICK items : Replaced(page, items)
  BY <1>3
<1>5. run'.buffer = run.buffer /\ run'.due = {} /\ run'.on = run.on
  BY <1>4 DEF Replaced
<1>6. \A n \in DOMAIN items : items[n] \in Yields(page, items[n].do)
  BY <1>4 DEF Replaced, Yields, ToSet
<1>7. \A n \in DOMAIN items : items[n].do \in {"get", "yield"}
  BY <1>4 DEF Replaced, ItemsAre, Yielding, Getting
<1>8. ASSUME Still PROVE AgendaOfTheSite' /\ BufferOfTheSite' /\ FlushedDocs'
  <2>1. AgendaOfTheSite /\ BufferOfTheSite
    BY <1>8 DEF SiteCovered, OfTheSite
  <2>2. page \in Reached
    BY <1>4, <2>1 DEF Replaced, AgendaOfTheSite
  <2>3. ASSUME NEW n \in DOMAIN run'.agenda
        PROVE  /\ run'.agenda[n].do = "get" => run'.agenda[n].page \in Reached
               /\ run'.agenda[n].do = "yield" => run'.agenda[n].record \in Catalogue
    <3>1. CASE n \in DOMAIN items /\ run'.agenda[n] = items[n]
      <4>1. items[n] \in Yields(page, items[n].do)
        BY <1>6, <3>1
      <4>2. QED
        BY <2>2, <3>1, <4>1, ReachedPages, YieldsListed
    <3>2. CASE \E m \in DOMAIN run.agenda : run'.agenda[n] = run.agenda[m]
      BY <2>1, <3>2 DEF AgendaOfTheSite
    <3>3. QED
      BY <1>4, <3>1, <3>2 DEF Replaced
  <2>4. QED
    BY <1>2, <1>5, <2>1, <2>3 DEF AgendaOfTheSite, BufferOfTheSite, FlushedDocs
<1>9. Coming \subseteq Coming'
  <2>1. ASSUME NEW r \in Coming
        PROVE  \E n \in DOMAIN run'.agenda :
                 \/ run'.agenda[n].do = "yield" /\ run'.agenda[n].record = r
                 \/ run'.agenda[n].do = "get" /\ r \in From[run'.agenda[n].page]
    <3>1. PICK n \in DOMAIN run.agenda :
            \/ run.agenda[n].do = "yield" /\ run.agenda[n].record = r
            \/ run.agenda[n].do = "get" /\ r \in From[run.agenda[n].page]
      BY DEF Coming
    <3>2. CASE n # 1
      <4>1. \E m \in DOMAIN run'.agenda : run'.agenda[m] = run.agenda[n]
        BY <1>4, <3>2 DEF Replaced
      <4>2. QED
        BY <3>1, <4>1
    <3>3. CASE n = 1
      <4>1. run.agenda[1].do = "get" /\ run.agenda[1].page = page
        BY <1>4 DEF Replaced
      <4>2. r \in From[page]
        BY <3>1, <3>3, <4>1
      <4>3. ASSUME NEW do, NEW item \in Yields(page, do)
            PROVE  item.do = do /\ \E m \in DOMAIN run'.agenda : run'.agenda[m] = item
        <5>1. item \in ToSet(items) /\ item.do = do
          BY <1>4 DEF Replaced, Yields
        <5>2. PICK m \in DOMAIN items : item = items[m]
          BY <5>1 DEF ToSet
        <5>3. QED
          BY <1>4, <5>1, <5>2 DEF Replaced
      <4>4. CASE \E item \in Yields(page, "yield") : r = item.record
        BY <4>3, <4>4
      <4>5. CASE \E item \in Yields(page, "get") : r \in From[item.page]
        BY <4>3, <4>5
      <4>6. QED
        BY <4>2, <4>4, <4>5, FromParts
    <3>4. QED
      BY <3>2, <3>3
  <2>2. Coming \subseteq Catalogue
    BY DEF Coming
  <2>3. QED
    BY <1>2, <2>1, <2>2 DEF Coming
<1>10. Still' = Still
  BY <1>1 DEF Still
<1>11. OfTheSite'
  BY <1>8, <1>10 DEF OfTheSite
<1>12. Covers'
  BY <1>1, <1>2, <1>5, <1>9 DEF SiteCovered, Covers
<1>13. Settled'
  BY <1>1, <1>2 DEF SiteCovered, Settled
<1>14. QED
  BY <1>11, <1>12, <1>13 DEF SiteCovered

LEMMA SkipPageCovers ==
  ASSUME SourcesAssumption, Typed, SiteCovered, SkipPage
  PROVE  SiteCovered'
<1>1. /\ config' = config /\ site' = site /\ raw' = raw /\ unified' = unified
      /\ history'.settled = history.settled /\ history'.fresh = FALSE
  BY DEF SkipPage, Typed, Histories
<1>2. Catalogue' = Catalogue /\ Reached' = Reached /\ Stored \subseteq Stored'
  BY <1>1, SiteSame, StoredSame
<1>3. Advanced /\ run'.buffer = run.buffer /\ run'.due = {}
  BY Skipped
<1>4. ASSUME Still' PROVE AgendaOfTheSite' /\ BufferOfTheSite' /\ FlushedDocs'
  <2>1. AgendaOfTheSite /\ BufferOfTheSite
    BY <1>1, <1>4 DEF SiteCovered, OfTheSite, Still
  <2>2. AgendaOfTheSite'
    BY <1>2, <1>3, <2>1 DEF AgendaOfTheSite, Advanced
  <2>3. QED
    BY <1>2, <1>3, <2>1, <2>2 DEF BufferOfTheSite, FlushedDocs
<1>5. OfTheSite' /\ Covers'
  BY <1>1, <1>4 DEF OfTheSite, Covers
<1>6. Settled'
  BY <1>1, <1>2 DEF SiteCovered, Settled
<1>7. QED
  BY <1>5, <1>6 DEF SiteCovered

LEMMA YieldRecordCovers ==
  ASSUME SourcesAssumption, Typed, SiteCovered, YieldRecord
  PROVE  SiteCovered'
<1>1. /\ config' = config /\ site' = site /\ raw' = raw /\ unified' = unified
      /\ history' = history
  BY DEF YieldRecord
<1>2. Catalogue' = Catalogue /\ Reached' = Reached /\ From' = From /\ Stored \subseteq Stored'
  BY <1>1, SiteSame, StoredSame
<1>3. PICK record \in Recs : Moved(record)
  BY Yielded
<1>4. /\ Advanced /\ run.agenda[1].do = "yield" /\ run.agenda[1].record = record
      /\ run'.due = {} /\ run'.on = run.on
  BY <1>3 DEF Moved
<1>5. ASSUME Still PROVE AgendaOfTheSite' /\ BufferOfTheSite' /\ FlushedDocs'
  <2>1. AgendaOfTheSite /\ BufferOfTheSite
    BY <1>5 DEF SiteCovered, OfTheSite
  <2>2. record \in Catalogue
    BY <1>4, <2>1 DEF AgendaOfTheSite, Advanced
  <2>3. AgendaOfTheSite'
    BY <1>2, <1>4, <2>1 DEF AgendaOfTheSite, Advanced
  <2>4. BufferOfTheSite'
    BY <1>2, <1>3, <2>1, <2>2 DEF BufferOfTheSite, Moved
  <2>5. QED
    BY <1>4, <2>3, <2>4 DEF FlushedDocs
<1>6. \A r \in ToSet(run.buffer) : r \in ToSet(run'.buffer)
  BY <1>3 DEF Moved, ToSet
<1>7. record \in ToSet(run'.buffer)
  BY <1>3 DEF Moved, ToSet
<1>8. ASSUME NEW r \in Coming, r # record PROVE r \in Coming'
  <2>1. PICK n \in DOMAIN run.agenda :
          \/ run.agenda[n].do = "yield" /\ run.agenda[n].record = r
          \/ run.agenda[n].do = "get" /\ r \in From[run.agenda[n].page]
    BY DEF Coming
  <2>2. n # 1
    BY <1>4, <1>8, <2>1
  <2>3. n - 1 \in DOMAIN run'.agenda /\ run'.agenda[n-1] = run.agenda[n]
    BY <1>4, <2>2 DEF Advanced
  <2>4. \E m \in DOMAIN run'.agenda :
          \/ run'.agenda[m].do = "yield" /\ run'.agenda[m].record = r
          \/ run'.agenda[m].do = "get" /\ r \in From'[run'.agenda[m].page]
    BY <1>2, <2>1, <2>3
  <2>5. r \in Catalogue'
    BY <1>2 DEF Coming
  <2>6. QED
    BY <2>4, <2>5 DEF Coming
<1>9. Still' = Still
  BY <1>1 DEF Still
<1>10. OfTheSite'
  BY <1>5, <1>9 DEF OfTheSite
<1>11. Covers'
  BY <1>1, <1>2, <1>4, <1>6, <1>7, <1>8 DEF SiteCovered, Covers
<1>12. Settled'
  BY <1>1, <1>2 DEF SiteCovered, Settled
<1>13. QED
  BY <1>10, <1>11, <1>12 DEF SiteCovered

LEMMA StoreRawCovers ==
  ASSUME SourcesAssumption, Typed, SiteCovered, StoreRaw
  PROVE  SiteCovered'
<1>1. /\ config' = config /\ site' = site /\ unified' = unified /\ history' = history
  BY DEF StoreRaw
<1>2. /\ run'.agenda = run.agenda /\ run'.buffer = run.buffer /\ run'.on = run.on
      /\ run'.due = {o.doc.kind : o \in Ops} /\ raw' = Applied(raw, RawOps(run.buffer))
  BY StoredRaw DEF Ops
<1>3. Catalogue' = Catalogue /\ Reached' = Reached /\ From' = From /\ Still' = Still
      /\ Ops' = Ops
  BY <1>1, <1>2, SiteSame, BufferedSame DEF Still
<1>4. Coming' = Coming
  BY <1>2, <1>3 DEF Coming
<1>5. ASSUME Still
      PROVE  AgendaOfTheSite' /\ BufferOfTheSite' /\ FlushedDocs' /\ Stored \subseteq Stored'
  <2>1. AgendaOfTheSite /\ BufferOfTheSite
    BY <1>5 DEF SiteCovered, OfTheSite
  <2>2. \A r \in Catalogue : r \in raw \/ (\E o \in RawOps(run.buffer) : o.doc = r) => r \in raw'
    BY <1>2, <2>1, FlushKeeps
  <2>3. \A n \in DOMAIN run.buffer : run.buffer[n] \in raw'
    BY <2>1, <2>2, OpsFrom, FlushOps DEF BufferOfTheSite
  <2>4. FlushedDocs'
    BY <1>2, <1>3, <2>3 DEF FlushedDocs
  <2>5. Stored \subseteq Stored'
    BY <1>1, <2>2, StoredStays DEF Stored
  <2>6. AgendaOfTheSite' /\ BufferOfTheSite'
    BY <1>2, <1>3, <2>1 DEF AgendaOfTheSite, BufferOfTheSite
  <2>7. QED
    BY <2>4, <2>5, <2>6
<1>6. OfTheSite'
  BY <1>3, <1>5 DEF OfTheSite
<1>7. Covers'
  BY <1>1, <1>2, <1>3, <1>4, <1>5 DEF SiteCovered, Covers, Still
<1>8. Settled'
  BY <1>1, <1>3, <1>5 DEF SiteCovered, Settled, Still
<1>9. QED
  BY <1>6, <1>7, <1>8 DEF SiteCovered

LEMMA UnifyCovers ==
  ASSUME SourcesAssumption, Typed, SiteCovered, Unify
  PROVE  SiteCovered'
<1>1. /\ config' = config /\ site' = site /\ raw' = raw /\ history' = history
  BY DEF Unify
<1>2. /\ run'.agenda = run.agenda /\ run.due # {} /\ run'.on = run.on
      /\ run'.due = run.due \ {o.doc.kind : o \in Bulk}
      /\ run'.buffer = IF run'.due = {} THEN <<>> ELSE run.buffer
      /\ unified' = Applied(unified, Bulk)
  BY Unified
<1>3. Catalogue' = Catalogue /\ Reached' = Reached /\ From' = From /\ Still' = Still
  BY <1>1, SiteSame DEF Still
<1>4. Coming' = Coming
  BY <1>2, <1>3 DEF Coming
<1>5. ASSUME Still
      PROVE  /\ AgendaOfTheSite' /\ BufferOfTheSite' /\ FlushedDocs'
             /\ Stored \subseteq Stored'
             /\ ToSet(run.buffer) \subseteq Stored' \cup ToSet(run'.buffer)
  <2>1. AgendaOfTheSite /\ BufferOfTheSite /\ FlushedDocs
    BY <1>5 DEF SiteCovered, OfTheSite
  <2>2. \A r \in Catalogue : \A d \in ToSet(Mapped(r)) :
          d \in unified \/ (\E o \in Bulk : o.doc = d) => d \in unified'
    BY <1>2, <2>1, FlushKeeps
  <2>3. ASSUME NEW o \in Ops, o.doc.kind \notin run'.due PROVE o.doc \in unified'
    <3>1. PICK n \in DOMAIN run.buffer : o.doc \in ToSet(Mapped(run.buffer[n]))
      BY OpsFrom
    <3>2. run.buffer[n] \in Catalogue
      BY <2>1 DEF BufferOfTheSite
    <3>3. o.doc \in unified \/ o \in Bulk
      <4>1. CASE o.doc.kind \notin run.due
        BY <1>2, <2>1, <4>1 DEF FlushedDocs
      <4>2. CASE o.doc.kind \in run.due
        <5>1. \E p \in Bulk : o.doc.kind = p.doc.kind
          BY <1>2, <2>3, <4>2
        <5>2. QED
          BY <5>1, BulkWhole
      <4>3. QED
        BY <4>1, <4>2
    <3>4. QED
      BY <2>2, <3>1, <3>2, <3>3
  <2>4. FlushedDocs'
    <3>1. SUFFICES ASSUME run'.due # {} PROVE FlushedDocs'
      BY DEF FlushedDocs
    <3>2. run'.buffer = run.buffer /\ Ops' = Ops
      BY <1>1, <1>2, <3>1, BufferedSame
    <3>3. QED
      BY <1>1, <1>2, <2>1, <2>3, <3>2 DEF FlushedDocs
  <2>5. Stored \subseteq Stored'
    BY <1>1, <2>2, StoredStays DEF Stored
  <2>6. ToSet(run.buffer) \subseteq Stored' \cup ToSet(run'.buffer)
    <3>1. CASE run'.due # {}
      BY <1>2, <3>1
    <3>2. CASE run'.due = {}
      <4>1. ToSet(run.buffer) \subseteq Catalogue
        BY <2>1 DEF BufferOfTheSite, ToSet
      <4>2. ASSUME NEW r \in ToSet(run.buffer)
            PROVE  r \in raw' /\ \A d \in ToSet(Mapped(r)) : d \in unified'
        <5>1. PICK n \in DOMAIN run.buffer : r = run.buffer[n]
          BY DEF ToSet
        <5>2. r \in raw'
          BY <1>1, <1>2, <2>1, <5>1 DEF FlushedDocs
        <5>3. \A d \in ToSet(Mapped(r)) : \E o \in Ops : o.doc = d
          BY <5>1, OpsFrom
        <5>4. QED
          BY <2>3, <3>2, <5>2, <5>3
      <4> DEFINE some == ToSet(run.buffer)
      <4> HIDE DEF some
      <4>3. some \subseteq Stored'
        <5>1. some \in SUBSET Catalogue
          BY <4>1 DEF some
        <5>2. \A r \in some : r \in raw' /\ \A d \in ToSet(Mapped(r)) : d \in unified'
          BY <4>2 DEF some
        <5>3. QED
          BY <1>1, <5>1, <5>2, StoredStays
      <4>4. QED
        BY <4>3 DEF some
    <3>3. QED
      BY <3>1, <3>2
  <2>7. AgendaOfTheSite'
    BY <1>2, <1>3, <2>1 DEF AgendaOfTheSite
  <2>8. BufferOfTheSite'
    <3>1. CASE run'.due = {}
      BY <1>2, <3>1 DEF BufferOfTheSite
    <3>2. CASE run'.due # {}
      BY <1>2, <1>3, <2>1, <3>2 DEF BufferOfTheSite
    <3>3. QED
      BY <3>1, <3>2
  <2>9. QED
    BY <2>4, <2>5, <2>6, <2>7, <2>8
<1>6. OfTheSite'
  BY <1>3, <1>5 DEF OfTheSite
<1>7. Covers'
  BY <1>1, <1>2, <1>3, <1>4, <1>5 DEF SiteCovered, Covers, Still
<1>8. Settled'
  BY <1>1, <1>3, <1>5 DEF SiteCovered, Settled, Still
<1>9. QED
  BY <1>6, <1>7, <1>8 DEF SiteCovered

\* Without a run there is nothing to be of the site or to come.
LEMMA OffCovers ==
  ASSUME run' = NoRun, Settled'
  PROVE  SiteCovered'
<1>1. run'.agenda = <<>> /\ run'.buffer = <<>> /\ run'.due = {} /\ run'.on = FALSE
  BY OffNow
<1>2. AgendaOfTheSite' /\ BufferOfTheSite'
  BY <1>1 DEF AgendaOfTheSite, BufferOfTheSite
<1>3. FlushedDocs' /\ Covers'
  BY <1>1 DEF FlushedDocs, Covers
<1>4. QED
  BY <1>2, <1>3 DEF SiteCovered, OfTheSite

LEMMA FinishCovers ==
  ASSUME SourcesAssumption, Typed, SiteCovered, Finish
  PROVE  SiteCovered'
<1>1. /\ config' = config /\ site' = site /\ raw' = raw /\ unified' = unified
      /\ run' = NoRun /\ run.on /\ run.agenda = <<>> /\ run.buffer = <<>>
      /\ history'.settled = (history.settled \/ history.fresh)
  BY DEF Finish, Typed, Histories
<1>2. Catalogue' = Catalogue /\ Stored \subseteq Stored'
  BY <1>1, SiteSame, StoredSame
<1>3. ToSet(run.buffer) = {} /\ Coming = {}
  BY <1>1 DEF ToSet, Coming
<1>4. history.fresh => Catalogue \subseteq Stored
  BY <1>1, <1>3 DEF SiteCovered, Covers
<1>5. Settled'
  BY <1>1, <1>2, <1>4 DEF SiteCovered, Settled
<1>6. QED
  BY <1>1, <1>5, OffCovers

LEMMA StopCovers ==
  ASSUME SourcesAssumption, Typed, SiteCovered, Stop
  PROVE  SiteCovered'
<1>1. /\ config' = config /\ site' = site /\ run' = NoRun
      /\ history'.settled = history.settled
  BY DEF Stop, Typed, Histories
<1>2. PICK part \in SUBSET Bulk : unified' = Applied(unified, part)
  BY DEF Stop
<1>3. PICK some \in SUBSET RawOps(run.buffer) : raw' = Applied(raw, some)
  BY DEF Stop
<1>4. Settled'
  <2>1. SUFFICES ASSUME history.settled PROVE Settled'
    BY <1>1 DEF Settled
  <2>2. BufferOfTheSite /\ Catalogue \subseteq Stored
    BY <2>1 DEF SiteCovered, OfTheSite, Still, Settled
  <2>3. \A r \in Stored : r \in raw' /\ \A d \in ToSet(Mapped(r)) : d \in unified'
    BY <1>2, <1>3, <2>2, FlushKeeps DEF Stored
  <2>4. Stored \subseteq Stored'
    BY <1>1, <2>3, StoredStays DEF Stored
  <2>5. Catalogue' = Catalogue
    BY <1>1, SiteSame
  <2>6. QED
    BY <2>2, <2>4, <2>5 DEF Settled
<1>5. QED
  BY <1>1, <1>4, OffCovers

\* After a change of the site nothing is said until the next run.
LEMMA ChangeCovers ==
  ASSUME SourcesAssumption, Typed, SiteChanges
  PROVE  SiteCovered'
<1>1. ~history'.fresh /\ ~history'.settled
  <2>1. \E page \in Pages : \E entries : Changes(page, entries)
    BY SiteChange DEF Typed
  <2>2. history \in Histories
    BY DEF Typed
  <2>3. QED
    BY <2>1, <2>2 DEF Histories, Changes
<1>2. QED
  BY <1>1 DEF SiteCovered, OfTheSite, Still, Covers, Settled

LEMMA StutterCovers ==
  ASSUME SiteCovered, UNCHANGED vars
  PROVE  SiteCovered'
<1>1. /\ config' = config /\ site' = site /\ run' = run /\ raw' = raw /\ unified' = unified
      /\ history' = history
  BY DEF vars
<1>2. /\ Catalogue' = Catalogue /\ Reached' = Reached /\ From' = From /\ Stored \subseteq Stored'
      /\ Still' = Still /\ Ops' = Ops
  BY <1>1, SiteSame, StoredSame, BufferedSame DEF Still
<1>3. Coming' = Coming
  BY <1>1, <1>2 DEF Coming
<1>4. OfTheSite'
  BY <1>1, <1>2 DEF SiteCovered, OfTheSite, AgendaOfTheSite, BufferOfTheSite, FlushedDocs
<1>5. Covers' /\ Settled'
  BY <1>1, <1>2, <1>3 DEF SiteCovered, Covers, Settled
<1>6. QED
  BY <1>4, <1>5 DEF SiteCovered

LEMMA SiteCoveredStep ==
  ASSUME SourcesAssumption, Typed, SiteCovered, [Next]_vars
  PROVE  SiteCovered'
<1>1. CASE Start \/ GetPage \/ SkipPage \/ YieldRecord
  BY <1>1, StartCovers, GetPageCovers, SkipPageCovers, YieldRecordCovers
<1>2. CASE StoreRaw \/ Unify \/ Finish \/ Stop
  BY <1>2, StoreRawCovers, UnifyCovers, FinishCovers, StopCovers
<1>3. CASE SiteChanges
  BY <1>3, ChangeCovers
<1>4. CASE UNCHANGED vars
  BY <1>4, StutterCovers
<1>5. QED
  BY <1>1, <1>2, <1>3, <1>4 DEF Next, SiteChanges

LEMMA InitCovered ==
  ASSUME Init
  PROVE  SiteCovered
BY DEF Init, SiteCovered, OfTheSite, Still, Covers, Settled

\* Once a run has succeeded without a skipped page and while the site stood still, raw and
\* unified collections have everything the site lists within the configured limits, with
\* its present content: what the recursion of pages and the batches of fetch lose or
\* write twice would be missing here.
THEOREM SourcesSettledCoversSite == Spec => []SettledCoversSite
<1>1. Init => Typed /\ SiteCovered
  BY InitTyped, InitCovered, SourcesAssumption
<1>2. Typed /\ SiteCovered /\ [Next]_vars => (Typed /\ SiteCovered)'
  BY NextTyped, SiteCoveredStep, SourcesAssumption
<1>3. Typed /\ SiteCovered => SettledCoversSite
  BY DEF SiteCovered, Settled, Stored, SettledCoversSite
<1>4. QED
  BY <1>1, <1>2, <1>3, PTL DEF Spec

\* What a flush writes is there already, once everything is.
LEMMA QuietStep ==
  ASSUME SourcesAssumption, Typed, SiteCovered, [Next]_vars, history.settled
  PROVE  UNCHANGED <<raw, unified>>
<1>1. BufferOfTheSite /\ Catalogue \subseteq Stored
  BY DEF SiteCovered, OfTheSite, Still, Settled
<1>2. ASSUME NEW part \in SUBSET RawOps(run.buffer) PROVE Applied(raw, part) = raw
  <2>1. \A o \in part : o.doc \in raw
    <3>1. ASSUME NEW o \in part PROVE o.doc \in raw
      <4>1. o.doc \in ToSet(run.buffer)
        BY OpsFrom, FlushOps
      <4>2. o.doc \in Catalogue
        BY <1>1, <4>1 DEF BufferOfTheSite, ToSet
      <4>3. QED
        BY <1>1, <4>2 DEF Stored
    <3>2. QED
      BY <3>1
  <2>2. Batch(part, Len(run.buffer)) /\ Len(run.buffer) \in Nat /\ Unique(raw)
    BY OpsFrom DEF Typed, StoreTyped
  <2>3. QED
    BY <2>1, <2>2, AppliedQuiet
<1>3. ASSUME NEW part \in SUBSET Bulk PROVE Applied(unified, part) = unified
  <2>1. ASSUME NEW o \in part PROVE o.doc \in unified
    <3>1. PICK n \in DOMAIN run.buffer : o.doc \in ToSet(Mapped(run.buffer[n]))
      BY OpsFrom
    <3>2. run.buffer[n] \in Stored
      BY <1>1 DEF BufferOfTheSite
    <3>3. QED
      BY <3>1, <3>2 DEF Stored
  <2>2. Batch(part, Len(run.buffer)) /\ Len(run.buffer) \in Nat /\ Unique(unified)
    BY OpsFrom DEF Typed, StoreTyped
  <2>3. QED
    BY <2>1, <2>2, AppliedQuiet
<1>4. CASE StoreRaw
  BY <1>2, <1>4 DEF StoreRaw
<1>5. CASE Unify
  BY <1>3, <1>5 DEF Unify
<1>6. CASE Stop
  <2>1. PICK part \in SUBSET Bulk : unified' = Applied(unified, part)
    BY <1>6 DEF Stop
  <2>2. PICK some \in SUBSET RawOps(run.buffer) : raw' = Applied(raw, some)
    BY <1>6 DEF Stop
  <2>3. QED
    BY <1>2, <1>3, <2>1, <2>2
<1>7. CASE Start \/ GetPage \/ SkipPage \/ YieldRecord \/ Finish
  BY <1>7 DEF Start, GetPage, SkipPage, YieldRecord, Finish
<1>8. CASE SiteChanges
  BY <1>8, SiteChange DEF Typed, Changes
<1>9. CASE UNCHANGED vars
  BY <1>9 DEF vars
<1>10. QED
  BY <1>4, <1>5, <1>6, <1>7, <1>8, <1>9 DEF Next, SiteChanges

\* Re-running ingestion is idempotent (raw_repository.py): once the collections have
\* everything, no run alters anything until the site changes, even one that stops within
\* a flush or skips a page.
THEOREM SourcesRerunIsQuiet == Spec => RerunIsQuiet
<1>1. Init => Typed /\ SiteCovered
  BY InitTyped, InitCovered, SourcesAssumption
<1>2. Typed /\ SiteCovered /\ [Next]_vars => (Typed /\ SiteCovered)'
  BY NextTyped, SiteCoveredStep, SourcesAssumption
<1>3. Typed /\ SiteCovered /\ [Next]_vars =>
        [history.settled => UNCHANGED <<raw, unified>>]_<<raw, unified>>
  BY QuietStep, SourcesAssumption
<1>4. QED
  BY <1>1, <1>2, <1>3, PTL DEF Spec, RerunIsQuiet
=============================================================================
