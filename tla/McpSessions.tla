----------------------------- MODULE McpSessions -----------------------------
(***************************************************************************)
(* The sessions of the MCP server: an in-memory store with an idle limit,  *)
(* an absolute limit and a capacity, and the requests that open, use and   *)
(* close them.  The handlers run on one thread and are interrupted only    *)
(* where they await: while the credential is verified and while a tool     *)
(* runs.  Between the two, sessions expire, other requests are served and  *)
(* the server may restart, which forgets everything.                       *)
(*                                                                         *)
(* A session holds two ages instead of two times, each counted up to its   *)
(* limit and no further, so that time need not be bounded.  Identifiers    *)
(* are 32 random bytes: an identifier somebody may still present is never  *)
(* drawn again, a forgotten one may stand for a new one.                   *)
(*                                                                         *)
(* Source: src/apps/mcp-server/src/sessions.ts and app.ts                  *)
(***************************************************************************)
EXTENDS Naturals, FiniteSets, FiniteSetsExt

CONSTANTS
    Callers,        \* authenticated tenant, subject and client at an origin
    Versions,       \* SUPPORTED_PROTOCOL_VERSIONS
    SessionIds,     \* the identifiers in circulation at once
    Requests,       \* requests being handled at once
    IdleTtl, AbsoluteTtl,   \* idleTtlMs, absoluteTtlMs in steps of the clock
    MaxSessions,    \* maxSessions
    None

ASSUME LimitsAssumption ==
    /\ IdleTtl \in Nat \ {0} /\ AbsoluteTtl \in Nat \ {0}
    /\ MaxSessions \in Nat \ {0} /\ Callers # {}
    /\ None \notin Callers \union Versions \union SessionIds

VARIABLES
    session,        \* the store: a session or None for every identifier
    issued,         \* the identifiers an answer has handed to a client
    request,        \* the requests being handled
    answer          \* how each slot's last request was answered; the reasons of
                    \* the denials are left out, but for the capacity

vars == <<session, issued, request, answer>>

Methods == {"initialize", "ping", "tools/call", "close"}

Session == [caller : Callers, version : Versions, age : 0..AbsoluteTtl, idle : 0..IdleTtl]

Request == [phase : {"idle", "authenticating", "executing"}, caller : Callers,
            method : Methods, id : SessionIds \union {None}, version : Versions \union {None}]

TypeOK ==
    /\ session \in [SessionIds -> Session \union {None}]
    /\ issued \in SUBSET SessionIds
    /\ request \in [Requests -> Request]
    /\ answer \in [Requests -> {"none", "ok", "denied", "session_limit_reached"}]

Idle == [phase |-> "idle", caller |-> CHOOSE c \in Callers : TRUE, method |-> "ping",
         id |-> None, version |-> None]

Init ==
    /\ session = [i \in SessionIds |-> None]
    /\ issued = {}
    /\ request = [r \in Requests |-> Idle]
    /\ answer = [r \in Requests |-> "none"]

\* Mutant: activity keeps a session alive past the absolute limit.
ExpiredIdle(s) == s.idle >= IdleTtl

\* isExpired.
Expired(s) == s.idle >= IdleTtl \/ s.age >= AbsoluteTtl

Live(i) == session[i] # None /\ ~Expired(session[i])

\* prune: every expired session leaves the store.
Pruned == [i \in SessionIds |-> IF Live(i) THEN session[i] ELSE None]

\* A version is compared only when the request names one.
MatchesBinding(s, q) ==
    /\ s.caller = q.caller
    /\ q.version \in {None, s.version}

Touched(s) == [s EXCEPT !.idle = 0]

Answer(r, a) ==
    /\ answer' = [answer EXCEPT ![r] = a]
    /\ request' = [request EXCEPT ![r] = Idle]

Unused(i) == session[i] = None /\ i \notin issued /\ \A r \in Requests : request[r].id # i

------------------------------------------------------------------------------

\* A request arrives with an identifier that some answer carried, or none.
Receive(r, c, method, i, v) ==
    /\ request[r].phase = "idle"
    /\ i \in issued \union {None}
    /\ method = "initialize" => i = None /\ v # None
    /\ method = "close" => v = None       \* DELETE compares no version
    /\ request' = [request EXCEPT ![r] = [phase |-> "authenticating", caller |-> c,
                                          method |-> method, id |-> i, version |-> v]]
    /\ answer' = [answer EXCEPT ![r] = "none"]
    /\ UNCHANGED <<session, issued>>

\* The early returns of the handlers; the store is not looked at.
Rejected(r) ==
    /\ request[r].phase = "authenticating"
    /\ Answer(r, "denied")
    /\ UNCHANGED <<session, issued>>

\* The authenticator names no principal: signature, audience, issuer, expiry,
\* tenant, subject or client do not hold.
RejectCredential(r) == Rejected(r)

\* guardRequest: host, origin, media types, scope, a client at its origin.
Deny(r) == Rejected(r)

\* The body is no JSON-RPC request, or names a version nobody speaks.
RejectMessage(r) == request[r].method # "close" /\ Rejected(r)

\* Mutant: a session is stored before its version is negotiated.
OpenUnversioned(c, v) == [caller |-> c, version |-> None, age |-> 0, idle |-> 0]

\* The record open stores.
Opened(c, v) == [caller |-> c, version |-> v, age |-> 0, idle |-> 0]

\* Mutant: the capacity is compared before expired sessions are dropped.
StoredSessions == {i \in SessionIds : session[i] # None}

\* What is in the store once it is pruned.
CountedSessions == {i \in SessionIds : Live(i)}

\* initialize: open prunes, compares the capacity and stores the session.  The
\* answer that carries its identifier may be lost.
Initialize(r) ==
    /\ request[r].phase = "authenticating"
    /\ request[r].method = "initialize"
    /\ \/ /\ Cardinality(CountedSessions) >= MaxSessions
          /\ session' = Pruned
          /\ UNCHANGED issued
          /\ Answer(r, "session_limit_reached")
       \/ /\ Cardinality(CountedSessions) < MaxSessions
          /\ \E i \in {j \in SessionIds : Unused(j)} :
                /\ session' = [Pruned EXCEPT ![i] = Opened(request[r].caller, request[r].version)]
                /\ issued' \in {issued, issued \union {i}}
          /\ Answer(r, "ok")

\* touch refuses: no such session, an expired one (dropped), another's.
RefuseSession(r) ==
    LET q == request[r] IN
    /\ q.phase = "authenticating"
    /\ q.method \in {"ping", "tools/call"}
    /\ \/ /\ q.id = None
          /\ UNCHANGED session
          /\ Answer(r, "denied")
       \/ /\ q.id # None /\ session[q.id] = None
          /\ UNCHANGED session
          /\ Answer(r, "denied")
       \/ /\ q.id # None /\ session[q.id] # None /\ ~Live(q.id)
          /\ session' = [session EXCEPT ![q.id] = None]
          /\ Answer(r, "denied")
       \/ /\ q.id # None /\ Live(q.id) /\ ~MatchesBinding(session[q.id], q)
          /\ UNCHANGED session
          /\ Answer(r, "denied")
    /\ UNCHANGED issued

\* Mutant: a session that has run out of idle time is touched all the same.
TouchStored(r) ==
    LET q == request[r] IN
    /\ q.phase = "authenticating"
    /\ q.method \in {"ping", "tools/call"}
    /\ q.id # None /\ session[q.id] # None
    /\ session[q.id].age < AbsoluteTtl
    /\ MatchesBinding(session[q.id], q)
    /\ session' = [session EXCEPT ![q.id] = Touched(session[q.id])]
    /\ UNCHANGED issued

\* touch grants: the idle age starts again.
Touch(r) ==
    LET q == request[r] IN
    /\ q.phase = "authenticating"
    /\ q.method \in {"ping", "tools/call"}
    /\ q.id # None /\ Live(q.id)
    /\ MatchesBinding(session[q.id], q)
    /\ session' = [session EXCEPT ![q.id] = Touched(session[q.id])]
    /\ UNCHANGED issued

\* A notification, ping or tools/list, or a tools/call or unknown method that
\* is refused after the touch: the session has been touched either way.
ServeAtOnce(r) ==
    /\ Touch(r)
    /\ \E a \in IF request[r].method = "ping" THEN {"ok"} ELSE {"denied"} : Answer(r, a)

\* tools/call: the tool's handler is awaited.
CallTool(r) ==
    /\ Touch(r)
    /\ request[r].method = "tools/call"
    /\ request' = [request EXCEPT ![r].phase = "executing"]
    /\ UNCHANGED answer

\* The handler's result, or its failure, is answered without another look at
\* the session.
FinishTool(r) ==
    /\ request[r].phase = "executing"
    /\ \E a \in {"ok", "denied"} : Answer(r, a)
    /\ UNCHANGED <<session, issued>>

\* Mutant: whoever presents the identifier may close the session.
CloseUnbound(r) ==
    LET q == request[r] IN
    /\ q.phase = "authenticating"
    /\ q.method = "close"
    /\ IF q.id # None /\ Live(q.id)
       THEN session' = [Pruned EXCEPT ![q.id] = None] /\ Answer(r, "ok")
       ELSE session' = Pruned /\ Answer(r, "denied")
    /\ UNCHANGED issued

\* DELETE: close prunes, then drops the session if it is the caller's.
Close(r) ==
    LET q == request[r]
        mine == q.id # None /\ Live(q.id) /\ MatchesBinding(session[q.id], q)
    IN
    /\ q.phase = "authenticating"
    /\ q.method = "close"
    /\ \/ /\ mine
          /\ session' = [Pruned EXCEPT ![q.id] = None]
          /\ Answer(r, "ok")
       \/ /\ ~mine
          /\ session' = IF q.id = None THEN session ELSE Pruned
          /\ Answer(r, "denied")
    /\ UNCHANGED issued

\* Date.now() moves on.
Tick ==
    /\ session' = [i \in SessionIds |->
                    IF session[i] = None THEN None
                    ELSE [session[i] EXCEPT !.age = Min({@ + 1, AbsoluteTtl}),
                                            !.idle = Min({@ + 1, IdleTtl})]]
    /\ UNCHANGED <<issued, request, answer>>

\* Nobody will present a dropped identifier any more.
Forget(i) ==
    /\ i \in issued
    /\ session[i] = None
    /\ \A r \in Requests : request[r].id # i
    /\ issued' = issued \ {i}
    /\ UNCHANGED <<session, request, answer>>

\* The process ends and starts again, or is scaled to zero: the store and the
\* requests are gone, the clients still hold what they were given.
Restart ==
    /\ session' = [i \in SessionIds |-> None]
    /\ request' = [r \in Requests |-> Idle]
    /\ UNCHANGED <<issued, answer>>

Handle(r) ==
    \/ RejectCredential(r) \/ Deny(r) \/ RejectMessage(r)
    \/ Initialize(r) \/ RefuseSession(r) \/ ServeAtOnce(r)
    \/ CallTool(r) \/ FinishTool(r) \/ Close(r)

Next ==
    \/ \E r \in Requests : Handle(r)
    \/ \E r \in Requests, c \in Callers, m \in Methods, i \in issued \union {None},
          v \in Versions \union {None} : Receive(r, c, m, i, v)
    \/ \E i \in issued : Forget(i)
    \/ Tick
    \/ Restart

Spec == Init /\ [][Next]_vars /\ WF_vars(Tick)

------------------------------------------------------------------------------

\* SessionCapacityError: an initialize is turned away only while MaxSessions
\* sessions could still be used; sessions that have run out, however long
\* nobody has looked at them, do not count.
RefusalMeansFull ==
    [][\A r \in Requests :
          answer'[r] = "session_limit_reached" /\ answer[r] # "session_limit_reached"
          => Cardinality({i \in SessionIds : Live(i)}) = MaxSessions]_vars

\* "closes sessions and rejects replayed session identifiers": an identifier a
\* client still holds whose session is closed, expired or lost in a restart is
\* never good again, not even while the dead session waits to be pruned.
DeadStaysDead ==
    [][\A i \in issued : ~Live(i) /\ i \in issued' => ~Live(i)']_vars

\* matchesBinding: only requests of the caller who opened a session, at the
\* version it was opened with, use it, keep it alive or close it.  Time and
\* restarts are nobody's request.
Serves(r) ==
    \/ answer'[r] # answer[r]
    \/ request'[r].phase = "executing" /\ request[r].phase # "executing"

OnlyTheOpener ==
    [][/\ \A i \in SessionIds :
            Live(i) /\ session'[i] # session[i] /\ (\E r \in Requests : Serves(r))
            => \E r \in Requests : Serves(r) /\ request[r].id = i
                                   /\ MatchesBinding(session[i], request[r])
       /\ \A r \in Requests :
            Serves(r) /\ request'[r].phase = "executing"
            => Live(request[r].id) /\ MatchesBinding(session[request[r].id], request[r])]_vars

\* However busy its client keeps it, a session ends.
EverySessionEnds == \A i \in SessionIds : Live(i) ~> ~Live(i)
==============================================================================
