---------------------------- MODULE PoliteClient ----------------------------
(***************************************************************************)
(* The polite HTTP clients through which the adapters read their sources:  *)
(* the spacing floor with its lock, the retries, and the cache of bodies   *)
(* that conditional requests confirm.                                      *)
(*                                                                         *)
(* A task is one call of PoliteClient.get.  Every ingestion request builds *)
(* its adapters, and so its clients, anew: tasks of two clients may read   *)
(* the same site.  The token bucket and the backoff only delay: they are   *)
(* steps that may be taken at any time, which covers every delay.          *)
(***************************************************************************)
EXTENDS Naturals, Sequences

CONSTANTS
  Tasks,        \* calls of get
  Clients,      \* PoliteClient instances for one site
  ClientOf,     \* the client of a task
  Urls,
  UrlOf,        \* the url of a task
  MinSpacing,   \* min_spacing_seconds
  MaxAttempts,  \* stop_after_attempt
  Redirecting,  \* urls the site answers with a redirect
  MaxVersion,   \* bound: versions of a resource
  MaxTime,      \* bound: the clock
  MaxRequests,  \* bound: a site that goes on redirecting
  None

ASSUME ClientAssumption ==
  /\ ClientOf \in [Tasks -> Clients]
  /\ UrlOf \in [Tasks -> Urls]
  /\ MinSpacing \in Nat
  /\ MaxAttempts \in Nat \ {0}
  /\ Redirecting \subseteq Urls
  /\ MaxVersion \in Nat
  /\ MaxTime \in Nat
  /\ MaxRequests \in Nat
  /\ None \notin Tasks \cup Nat

VARIABLES
  now,       \* loop.time()
  pc,        \* the await a get is suspended at
  lock,      \* _lock: its holder, or None
  last,      \* _last_request_monotonic
  wake,      \* when the sleep of a task ends
  attempts,  \* attempts begun
  cached,    \* local cached: the version a task has asked about, or None
  answer,    \* what the site answered
  body,      \* the version get returned
  cache,     \* _cache: client -> url -> version
  server,    \* the current version of each resource; its ETag tells versions apart
  requests   \* history: every request sent, with its client, time and kind

spacing == <<lock, last, wake>>
result == <<cached, answer, body>>
clientVars == <<now, pc, spacing, attempts, result, cache, server, requests>>

\* A status that raise_for_status raises HTTPStatusError for, 4xx or 5xx; httpx.TransportError;
\* or another error of httpx, as too many redirects are.
Kinds == {"ok", "notModified", "statusError", "transportError", "otherError"}

ClientInit ==
  /\ now \in 0..MaxTime
  /\ pc = [t \in Tasks |-> "idle"]
  /\ lock = [c \in Clients |-> None]
  /\ last = [c \in Clients |-> 0]
  /\ wake = [t \in Tasks |-> 0]
  /\ attempts = [t \in Tasks |-> 0]
  /\ cached = [t \in Tasks |-> None]
  /\ answer = [t \in Tasks |-> None]
  /\ body = [t \in Tasks |-> None]
  /\ cache = [c \in Clients |-> [u \in Urls |-> None]]
  /\ server = [u \in Urls |-> 0]
  /\ requests = <<>>

Goto(t, label) == pc' = [pc EXCEPT ![t] = label]

\* The request leaves: get has read the cache for its conditional headers.
Send(t, kind) ==
  requests' = Append(requests, [client |-> ClientOf[t], time |-> now, kind |-> kind])

Issue(t) ==
  /\ Send(t, "get")
  /\ cached' = [cached EXCEPT ![t] = cache[ClientOf[t]][UrlOf[t]]]
  /\ answer' = [answer EXCEPT ![t] = None]
  /\ Goto(t, "awaiting")

\* get is called, or tenacity calls it again: it waits for the token bucket.
Attempt(t) ==
  /\ pc[t] \in {"idle", "backoff"}
  /\ Goto(t, "acquiring")
  /\ attempts' = [attempts EXCEPT ![t] = @ + 1]
  /\ UNCHANGED <<now, spacing, result, cache, server, requests>>

\* A token is there.  Without a floor the request leaves at once.
Acquire(t) ==
  /\ pc[t] = "acquiring"
  /\ IF MinSpacing = 0 THEN Issue(t)
                       ELSE Goto(t, "locking") /\ UNCHANGED <<cached, answer, requests>>
  /\ UNCHANGED <<now, spacing, attempts, body, cache, server>>

\* Mutant: the time of the last request is read before the lock is taken.
FloorUnlocked(t) ==
  LET c == ClientOf[t] IN
  /\ pc[t] = "locking"
  /\ IF now >= last[c] + MinSpacing
       THEN /\ last' = [last EXCEPT ![c] = now]
            /\ Issue(t)
            /\ UNCHANGED <<lock, wake>>
       ELSE /\ wake' = [wake EXCEPT ![t] = last[c] + MinSpacing]
            /\ Goto(t, "sleeping")
            /\ UNCHANGED <<lock, last, cached, answer, requests>>
  /\ UNCHANGED <<now, attempts, body, cache, server>>

\* The lock is taken: the floor has passed, or the task sleeps with the lock held.
Floor(t) ==
  LET c == ClientOf[t] IN
  /\ pc[t] = "locking" /\ lock[c] = None
  /\ IF now >= last[c] + MinSpacing
       THEN /\ last' = [last EXCEPT ![c] = now]
            /\ Issue(t)
            /\ UNCHANGED <<lock, wake>>
       ELSE /\ lock' = [lock EXCEPT ![c] = t]
            /\ wake' = [wake EXCEPT ![t] = last[c] + MinSpacing]
            /\ Goto(t, "sleeping")
            /\ UNCHANGED <<last, cached, answer, requests>>
  /\ UNCHANGED <<now, attempts, body, cache, server>>

\* The sleep is over, not before its time.
Wake(t) ==
  LET c == ClientOf[t] IN
  /\ pc[t] = "sleeping" /\ now >= wake[t]
  /\ last' = [last EXCEPT ![c] = now]
  /\ lock' = [lock EXCEPT ![c] = None]
  /\ Issue(t)
  /\ UNCHANGED <<now, wake, attempts, body, cache, server>>

\* The site redirects: httpx follows at once, past bucket and floor.
Redirect(t) ==
  /\ pc[t] = "awaiting" /\ UrlOf[t] \in Redirecting /\ answer[t] = None
  /\ Len(requests) < MaxRequests
  /\ Send(t, "redirect")
  /\ UNCHANGED <<now, pc, spacing, attempts, result, cache, server>>

\* The site answers: 304 to a validator that still holds, the body, an error, or
\* nothing at all.
Answer(t, kind) ==
  LET v == server[UrlOf[t]] IN
  /\ pc[t] = "awaiting" /\ answer[t] = None
  /\ kind = "notModified" => cached[t] = v
  /\ kind = "ok" => cached[t] # v
  /\ answer' = [answer EXCEPT ![t] = [kind |-> kind, version |-> v]]
  /\ UNCHANGED <<now, pc, spacing, attempts, cached, body, cache, server, requests>>

\* Mutant: the cache is read again after the await.
ReturnCachedLate(t) ==
  /\ pc[t] = "awaiting" /\ answer[t] # None /\ answer[t].kind = "notModified"
  /\ body' = [body EXCEPT ![t] = cache[ClientOf[t]][UrlOf[t]]]
  /\ Goto(t, "returned")
  /\ UNCHANGED <<now, spacing, attempts, cached, answer, cache, server, requests>>

\* 304: the body of the entry that was read before the request.
ReturnCached(t) ==
  /\ pc[t] = "awaiting" /\ answer[t] # None /\ answer[t].kind = "notModified"
  /\ body' = [body EXCEPT ![t] = cached[t]]
  /\ Goto(t, "returned")
  /\ UNCHANGED <<now, spacing, attempts, cached, answer, cache, server, requests>>

\* 200: the body, which is kept for later requests.
ReturnBody(t) ==
  /\ pc[t] = "awaiting" /\ answer[t] # None /\ answer[t].kind = "ok"
  /\ body' = [body EXCEPT ![t] = answer[t].version]
  /\ cache' = [cache EXCEPT ![ClientOf[t]][UrlOf[t]] = answer[t].version]
  /\ Goto(t, "returned")
  /\ UNCHANGED <<now, spacing, attempts, cached, answer, server, requests>>

\* retry_if_exception_type
Retried == {"statusError", "transportError"}

\* Mutant: one attempt too many.
FailsLate(t) ==
  /\ pc[t] = "awaiting" /\ answer[t] # None
  /\ answer[t].kind \in Retried \cup {"otherError"}
  /\ Goto(t, IF answer[t].kind \in Retried /\ attempts[t] <= MaxAttempts
             THEN "backoff" ELSE "raised")
  /\ UNCHANGED <<now, spacing, attempts, result, cache, server, requests>>

\* raise_for_status or httpx raises.  HTTPStatusError is retried, whatever the
\* status; the last attempt, and any other error, lets it out of get.
Fails(t) ==
  /\ pc[t] = "awaiting" /\ answer[t] # None
  /\ answer[t].kind \in Retried \cup {"otherError"}
  /\ Goto(t, IF answer[t].kind \in Retried /\ attempts[t] < MaxAttempts
             THEN "backoff" ELSE "raised")
  /\ UNCHANGED <<now, spacing, attempts, result, cache, server, requests>>

\* Time passes, and the site publishes a new version of a resource.
Tick ==
  /\ now < MaxTime
  /\ now' = now + 1
  /\ UNCHANGED <<pc, spacing, attempts, result, cache, server, requests>>

Publish(u) ==
  /\ server[u] < MaxVersion
  /\ server' = [server EXCEPT ![u] = @ + 1]
  /\ UNCHANGED <<now, pc, spacing, attempts, result, cache, requests>>

ClientNext ==
  \/ \E t \in Tasks :
       \/ Attempt(t) \/ Acquire(t) \/ Floor(t) \/ Wake(t) \/ Redirect(t)
       \/ \E kind \in Kinds : Answer(t, kind)
       \/ ReturnCached(t) \/ ReturnBody(t) \/ Fails(t)
  \/ Tick
  \/ \E u \in Urls : Publish(u)

ClientSpec == ClientInit /\ [][ClientNext]_clientVars

-----------------------------------------------------------------------------
(* Properties. *)

Versions == 0..MaxVersion
Requests == [client : Clients, time : Nat, kind : {"get", "redirect"}]

\* Every variable holds a value of its kind; a get makes no more than
\* MaxAttempts attempts.
ClientTypeOK ==
  /\ now \in Nat
  /\ pc \in [Tasks -> {"idle", "acquiring", "locking", "sleeping", "awaiting",
                       "backoff", "returned", "raised"}]
  /\ lock \in [Clients -> Tasks \cup {None}]
  /\ last \in [Clients -> Nat]
  /\ wake \in [Tasks -> Nat]
  /\ attempts \in [Tasks -> 0..MaxAttempts]
  /\ cached \in [Tasks -> Versions \cup {None}]
  /\ answer \in [Tasks -> [kind : Kinds, version : Versions] \cup {None}]
  /\ body \in [Tasks -> Versions \cup {None}]
  /\ cache \in [Clients -> [Urls -> Versions \cup {None}]]
  /\ server \in [Urls -> Versions]
  /\ requests \in Seq(Requests)

Spaced(i, j) == requests[j].time >= requests[i].time + MinSpacing

\* "concurrent callers can't slip past the floor" (http.py): the requests that
\* the gets of one client send are min_spacing_seconds apart, retries included.
SpacingKept ==
  \A i, j \in DOMAIN requests :
     /\ i < j
     /\ requests[i].client = requests[j].client
     /\ requests[i].kind = "get" /\ requests[j].kind = "get"
     => Spaced(i, j)

\* get returns the version that was current when the site answered, also when
\* another get has replaced the cache entry in the meantime.
BodyWasCurrent ==
  \A t \in Tasks : pc[t] = "returned" => body[t] = answer[t].version

\* "every request is at least 6 seconds apart" (fbref.py), whichever run sends it.
SpacedAcrossRuns ==
  \A i, j \in DOMAIN requests :
     i < j /\ requests[i].kind = "get" /\ requests[j].kind = "get" => Spaced(i, j)
=============================================================================
