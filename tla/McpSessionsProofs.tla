--------------------------- MODULE McpSessionsProofs ---------------------------
(***************************************************************************)
(* A dead session stays dead, only its opener uses it, and the store never *)
(* holds more live sessions than its capacity, whatever the limits and     *)
(* however many callers, identifiers and requests there are.               *)
(***************************************************************************)
EXTENDS McpSessions, FiniteSetTheorems, TLAPS

\* What the handlers rely on: an answer is given once, and a session is opened
\* with a version.
RequestInv ==
    \A r \in Requests :
        request[r].phase # "idle" =>
            /\ answer[r] = "none"
            /\ request[r].method = "initialize" => request[r].version \in Versions

\* The live sessions are within the capacity.
CapacityInv ==
    /\ IsFiniteSet(CountedSessions)
    /\ Cardinality(CountedSessions) <= MaxSessions

SessionsInv == TypeOK /\ RequestInv /\ CapacityInv

\* The least of two numbers.
LEMMA MinOfTwo ==
    ASSUME NEW a \in Nat, NEW b \in Nat
    PROVE  Min({a, b}) = IF a <= b THEN a ELSE b
<1>1. \E x \in {a, b} : \A y \in {a, b} : x <= y
  OBVIOUS
<1>2. Min({a, b}) \in {a, b} /\ \A y \in {a, b} : Min({a, b}) <= y
  BY <1>1 DEF Min
<1> QED
  BY <1>2

\* The slot of no request is a request.
LEMMA IdleType == Idle \in Request /\ Idle.phase = "idle"
<1>1. (CHOOSE c \in Callers : TRUE) \in Callers
  BY LimitsAssumption
<1> QED
  BY <1>1 DEF Idle, Request, Methods

\* Fewer live sessions are still within the capacity.
LEMMA FewerLive ==
    ASSUME CapacityInv, MaxSessions \in Nat, CountedSessions' \subseteq CountedSessions
    PROVE  CapacityInv'
<1>1. IsFiniteSet(CountedSessions') /\ Cardinality(CountedSessions') <= Cardinality(CountedSessions)
  BY FS_Subset DEF CapacityInv
<1>2. Cardinality(CountedSessions) \in Nat /\ Cardinality(CountedSessions') \in Nat
  BY <1>1, FS_CardinalityType DEF CapacityInv
<1> QED
  BY <1>1, <1>2 DEF CapacityInv

\* Answering a request.
LEMMA AnswerKeeps ==
    ASSUME TypeOK, RequestInv, NEW r \in Requests,
           NEW a \in {"ok", "denied", "session_limit_reached"}, Answer(r, a)
    PROVE  /\ request' \in [Requests -> Request]
           /\ answer' \in [Requests -> {"none", "ok", "denied", "session_limit_reached"}]
           /\ RequestInv'
  BY IdleType DEF TypeOK, RequestInv, Answer

\* Touching a live session of one's own.
LEMMA TouchKeeps ==
    ASSUME TypeOK, NEW r \in Requests, Touch(r)
    PROVE  /\ session' \in [SessionIds -> Session \union {None}]
           /\ \A i \in SessionIds : Live(i)' => Live(i)
           /\ \A i \in SessionIds : session'[i] # session[i] =>
                 i = request[r].id /\ MatchesBinding(session[i], request[r])
<1> DEFINE i == request[r].id
<1>1. /\ i \in SessionIds /\ Live(i) /\ session[i] \in Session /\ MatchesBinding(session[i], request[r])
      /\ session' = [session EXCEPT ![i] = Touched(session[i])]
  BY DEF Touch, TypeOK, Request, Live
<1>2. Touched(session[i]) \in Session
  BY <1>1, LimitsAssumption DEF Touched, Session
<1> QED
  BY <1>1, <1>2 DEF TypeOK, Live

\* Pruning keeps the live sessions as they are.
LEMMA PrunedKeeps ==
    ASSUME TypeOK
    PROVE  /\ Pruned \in [SessionIds -> Session \union {None}]
           /\ \A i \in SessionIds : Pruned[i] = IF Live(i) THEN session[i] ELSE None
  BY DEF TypeOK, Pruned

\* Time kills sessions and revives none.
LEMMA TickKeeps ==
    ASSUME TypeOK, Tick
    PROVE  /\ session' \in [SessionIds -> Session \union {None}]
           /\ \A i \in SessionIds : Live(i)' => Live(i)
<1>1. ASSUME NEW i \in SessionIds, session[i] # None
      PROVE  /\ session'[i] \in Session
             /\ Expired(session[i]) => Expired(session'[i])
  <2>1. session[i] \in Session /\ session[i].age \in 0..AbsoluteTtl /\ session[i].idle \in 0..IdleTtl
    BY <1>1 DEF TypeOK, Session
  <2> DEFINE age == Min({session[i].age + 1, AbsoluteTtl})
             idle == Min({session[i].idle + 1, IdleTtl})
  <2>2. session'[i] = [session[i] EXCEPT !.age = age, !.idle = idle]
    BY <1>1 DEF Tick
  <2>3. /\ age \in 0..AbsoluteTtl /\ (session[i].age >= AbsoluteTtl => age >= AbsoluteTtl)
        /\ idle \in 0..IdleTtl /\ (session[i].idle >= IdleTtl => idle >= IdleTtl)
    <3>1. /\ age = IF session[i].age + 1 <= AbsoluteTtl THEN session[i].age + 1 ELSE AbsoluteTtl
          /\ idle = IF session[i].idle + 1 <= IdleTtl THEN session[i].idle + 1 ELSE IdleTtl
      BY <2>1, MinOfTwo, LimitsAssumption
    <3> QED
      BY <2>1, <3>1, LimitsAssumption
  <2> HIDE DEF age, idle
  <2>4. session'[i] \in Session /\ session'[i].age = age /\ session'[i].idle = idle
    BY <2>1, <2>2, <2>3 DEF Session
  <2> QED
    BY <2>3, <2>4 DEF Expired
<1>2. \A i \in SessionIds : session[i] = None => session'[i] = None
  BY DEF Tick
<1>3. session' = [i \in SessionIds |-> session'[i]]
  BY DEF Tick
<1> QED
  BY <1>1, <1>2, <1>3 DEF Live

\* The invariant is inductive.
THEOREM SessionsHold == Spec => []SessionsInv
<1>1. Init => SessionsInv
  <2> SUFFICES ASSUME Init PROVE SessionsInv
    OBVIOUS
  <2>1. TypeOK /\ RequestInv
    BY IdleType DEF Init, TypeOK, RequestInv
  <2>2. CountedSessions = {}
    BY DEF Init, CountedSessions, Live
  <2> QED
    BY <2>1, <2>2, FS_EmptySet, LimitsAssumption DEF SessionsInv, CapacityInv
<1>2. SessionsInv /\ [Next]_vars => SessionsInv'
  <2> SUFFICES ASSUME SessionsInv, [Next]_vars PROVE SessionsInv'
    OBVIOUS
  <2> USE DEF SessionsInv
  \* Nothing comes alive.
  <2>1. ASSUME \A i \in SessionIds : Live(i)' => Live(i) PROVE CapacityInv'
    <3>1. CountedSessions' \subseteq CountedSessions
      BY <2>1 DEF CountedSessions
    <3> QED
      BY <3>1, FewerLive, LimitsAssumption
  \* A request is answered and the store is left alone or pruned.
  <2>2. ASSUME NEW r \in Requests, NEW a \in {"ok", "denied", "session_limit_reached"}, Answer(r, a),
               \A i \in SessionIds : session'[i] \in {session[i], None},
               session' \in [SessionIds -> Session \union {None}], issued' = issued
        PROVE  SessionsInv'
    <3>1. \A i \in SessionIds : Live(i)' => Live(i)
      BY <2>2 DEF Live
    <3> QED
      BY <2>1, <2>2, <3>1, AnswerKeeps DEF TypeOK
  <2>3. ASSUME NEW r \in Requests, Rejected(r) PROVE SessionsInv'
    BY <2>2, <2>3 DEF Rejected, TypeOK
  <2>4. ASSUME NEW r \in Requests, Initialize(r) PROVE SessionsInv'
    <3>1. CASE /\ Cardinality(CountedSessions) >= MaxSessions /\ session' = Pruned
               /\ UNCHANGED issued /\ Answer(r, "session_limit_reached")
      BY <2>2, <3>1, PrunedKeeps
    <3>2. CASE /\ Cardinality(CountedSessions) < MaxSessions
               /\ \E i \in {j \in SessionIds : Unused(j)} :
                     /\ session' = [Pruned EXCEPT ![i] = Opened(request[r].caller, request[r].version)]
                     /\ issued' \in {issued, issued \union {i}}
               /\ Answer(r, "ok")
      <4>1. PICK i \in SessionIds :
               /\ Unused(i)
               /\ session' = [Pruned EXCEPT ![i] = Opened(request[r].caller, request[r].version)]
               /\ issued' \in {issued, issued \union {i}}
        BY <3>2
      <4>2. Opened(request[r].caller, request[r].version) \in Session
        BY <2>4, LimitsAssumption DEF Initialize, RequestInv, TypeOK, Request, Opened, Session
      <4>3. session' \in [SessionIds -> Session \union {None}] /\ issued' \in SUBSET SessionIds
        BY <4>1, <4>2, PrunedKeeps DEF TypeOK
      <4>4. \A j \in SessionIds \ {i} : Live(j)' => Live(j)
        BY <4>1, PrunedKeeps DEF Live
      <4>5. CountedSessions' \subseteq CountedSessions \union {i} /\ i \notin CountedSessions
        BY <4>1, <4>4 DEF CountedSessions, Unused, Live
      <4>6. CapacityInv'
        <5>1. /\ IsFiniteSet(CountedSessions \union {i})
              /\ Cardinality(CountedSessions \union {i}) = Cardinality(CountedSessions) + 1
          BY <4>5, FS_AddElement DEF CapacityInv
        <5>2. /\ IsFiniteSet(CountedSessions')
              /\ Cardinality(CountedSessions') <= Cardinality(CountedSessions \union {i})
          BY <4>5, <5>1, FS_Subset
        <5>3. Cardinality(CountedSessions) \in Nat /\ Cardinality(CountedSessions') \in Nat
          BY <5>2, FS_CardinalityType DEF CapacityInv
        <5> QED
          BY <3>2, <5>1, <5>2, <5>3, LimitsAssumption DEF CapacityInv
      <4> QED
        BY <3>2, <4>3, <4>6, AnswerKeeps DEF TypeOK
    <3> QED
      BY <2>4, <3>1, <3>2 DEF Initialize
  <2>5. ASSUME NEW r \in Requests, RefuseSession(r) PROVE SessionsInv'
    <3>1. /\ Answer(r, "denied") /\ issued' = issued
          /\ session' = session \/ (request[r].id \in SessionIds /\ session' = [session EXCEPT ![request[r].id] = None])
      BY <2>5 DEF RefuseSession, TypeOK, Request
    <3>2. session' \in [SessionIds -> Session \union {None}]
          /\ \A i \in SessionIds : session'[i] \in {session[i], None}
      BY <3>1 DEF TypeOK
    <3> QED
      BY <2>2, <3>1, <3>2
  <2>6. ASSUME NEW r \in Requests, ServeAtOnce(r) PROVE SessionsInv'
    <3>1. PICK a \in {"ok", "denied"} : Answer(r, a)
      BY <2>6 DEF ServeAtOnce
    <3>2. Touch(r) /\ issued' = issued
      BY <2>6 DEF ServeAtOnce, Touch
    <3> QED
      BY <2>1, <3>1, <3>2, TouchKeeps, AnswerKeeps DEF TypeOK
  <2>7. ASSUME NEW r \in Requests, CallTool(r) PROVE SessionsInv'
    <3>1. Touch(r) /\ issued' = issued /\ answer' = answer /\ request[r].phase = "authenticating"
          /\ request' = [request EXCEPT ![r].phase = "executing"]
      BY <2>7 DEF CallTool, Touch
    <3>2. request' \in [Requests -> Request]
      BY <3>1 DEF TypeOK, Request
    <3>3. RequestInv'
      BY <3>1 DEF RequestInv, TypeOK, Request
    <3> QED
      BY <2>1, <3>1, <3>2, <3>3, TouchKeeps DEF TypeOK
  <2>8. ASSUME NEW r \in Requests, FinishTool(r) PROVE SessionsInv'
    BY <2>2, <2>8 DEF FinishTool, TypeOK
  <2>9. ASSUME NEW r \in Requests, Close(r) PROVE SessionsInv'
    <3>1. /\ \E a \in {"ok", "denied"} : Answer(r, a)
          /\ issued' = issued
          /\ session' \in {session, Pruned, [Pruned EXCEPT ![request[r].id] = None]}
      BY <2>9 DEF Close
    <3>2. session' \in [SessionIds -> Session \union {None}]
          /\ \A i \in SessionIds : session'[i] \in {session[i], None}
      BY <3>1, PrunedKeeps DEF TypeOK
    <3> QED
      BY <2>2, <3>1, <3>2
  <2>10. ASSUME NEW r \in Requests, NEW c \in Callers, NEW m \in Methods, NEW i \in issued \union {None},
                NEW v \in Versions \union {None}, Receive(r, c, m, i, v)
         PROVE  SessionsInv'
    <3>1. i \in SessionIds \union {None}
      BY DEF TypeOK
    <3>2. [phase |-> "authenticating", caller |-> c, method |-> m, id |-> i, version |-> v] \in Request
      BY <3>1 DEF Request
    <3>3. TypeOK' /\ RequestInv'
      BY <2>10, <3>2 DEF Receive, TypeOK, RequestInv
    <3>4. \A j \in SessionIds : Live(j)' => Live(j)
      BY <2>10 DEF Receive, Live
    <3> QED
      BY <2>1, <3>3, <3>4
  <2>11. ASSUME NEW i \in issued, Forget(i) PROVE SessionsInv'
    <3>1. \A j \in SessionIds : Live(j)' => Live(j)
      BY <2>11 DEF Forget, Live
    <3> QED
      BY <2>1, <2>11, <3>1 DEF Forget, TypeOK, RequestInv
  <2>12. CASE Tick
    BY <2>1, <2>12, TickKeeps DEF Tick, TypeOK, RequestInv
  <2>13. CASE Restart
    <3>1. \A j \in SessionIds : Live(j)' => Live(j)
      BY <2>13 DEF Restart, Live
    <3> QED
      BY <2>1, <2>13, <3>1, IdleType DEF Restart, TypeOK, RequestInv
  <2>14. CASE UNCHANGED vars
    <3>1. \A j \in SessionIds : Live(j)' => Live(j)
      BY <2>14 DEF vars, Live
    <3> QED
      BY <2>1, <2>14, <3>1 DEF vars, TypeOK, RequestInv
  <2> QED
    BY <2>3, <2>4, <2>5, <2>6, <2>7, <2>8, <2>9, <2>10, <2>11, <2>12, <2>13, <2>14
    DEF Next, Handle, RejectCredential, Deny, RejectMessage
<1> QED
  BY <1>1, <1>2, PTL DEF Spec

\* The type invariant, for every limit and every number of sessions.
THEOREM TypeCorrect == Spec => []TypeOK
<1>1. SessionsInv => TypeOK
  BY DEF SessionsInv
<1> QED
  BY <1>1, SessionsHold, PTL

\* A request is turned away only when the store is full of live sessions.
THEOREM RefusedWhenFull == Spec => RefusalMeansFull
<1> DEFINE Refused(r) == answer'[r] = "session_limit_reached" /\ answer[r] # "session_limit_reached"
           Full == Cardinality({i \in SessionIds : Live(i)}) = MaxSessions
<1>1. SessionsInv /\ [Next]_vars => [\A r \in Requests : Refused(r) => Full]_vars
  <2> SUFFICES ASSUME SessionsInv, Next, NEW r \in Requests, Refused(r) PROVE Full
    OBVIOUS
  <2>1. ASSUME NEW q \in Requests, NEW a \in {"ok", "denied"}, Answer(q, a) PROVE FALSE
    BY <2>1 DEF Answer, SessionsInv, TypeOK
  <2>2. answer' # answer
    OBVIOUS
  <2>3. PICK q \in Requests : Handle(q) \/ \E c \in Callers, m \in Methods, i \in issued \union {None},
           v \in Versions \union {None} : Receive(q, c, m, i, v)
    BY <2>2 DEF Next, Forget, Tick, Restart
  <2>4. Initialize(q)
    BY <2>1, <2>2, <2>3 DEF Handle, RejectCredential, Deny, RejectMessage, Rejected, RefuseSession, ServeAtOnce,
       CallTool, FinishTool, Close, Receive, SessionsInv, TypeOK
  <2>5. Cardinality(CountedSessions) >= MaxSessions
    BY <2>1, <2>4 DEF Initialize
  <2>6. Cardinality(CountedSessions) \in Nat /\ Cardinality(CountedSessions) <= MaxSessions
    BY FS_CardinalityType DEF SessionsInv, CapacityInv
  <2> QED
    BY <2>5, <2>6, LimitsAssumption DEF CountedSessions
<1> QED
  BY <1>1, SessionsHold, PTL DEF Spec, RefusalMeansFull

\* What a step other than the opening of a session does to the live ones.
LEMMA OnlyInitializeOpens ==
    ASSUME SessionsInv, [Next]_vars, NEW i \in SessionIds, Live(i)', ~Live(i)
    PROVE  i \notin issued
<1>1. ASSUME NEW r \in Requests, Initialize(r) PROVE i \notin issued
  BY <1>1, PrunedKeeps DEF Initialize, SessionsInv, Live, Unused, Answer
<1>2. ASSUME NEW r \in Requests, Touch(r) PROVE FALSE
  BY <1>2, TouchKeeps DEF SessionsInv
<1>3. ASSUME NEW r \in Requests, Close(r) PROVE FALSE
  <2>1. session' \in {session, Pruned, [Pruned EXCEPT ![request[r].id] = None]}
    BY <1>3 DEF Close
  <2> QED
    BY <2>1, PrunedKeeps DEF SessionsInv, Live
<1>4. ASSUME NEW r \in Requests, RefuseSession(r) PROVE FALSE
  BY <1>4 DEF RefuseSession, Live, SessionsInv, TypeOK
<1>5. CASE Tick
  BY <1>5, TickKeeps DEF SessionsInv
<1>6. CASE Restart
  BY <1>6 DEF Restart, Live
<1>7. CASE UNCHANGED session
  BY <1>7 DEF Live
<1> QED
  BY <1>1, <1>2, <1>3, <1>4, <1>5, <1>6, <1>7 DEF Next, Handle, RejectCredential, Deny, RejectMessage, Rejected,
     ServeAtOnce, CallTool, FinishTool, Receive, Forget, vars

\* No identifier a client holds comes back to life.
THEOREM DeadForGood == Spec => DeadStaysDead
<1>1. SessionsInv /\ [Next]_vars =>
         [\A i \in issued : ~Live(i) /\ i \in issued' => ~Live(i)']_vars
  BY OnlyInitializeOpens DEF SessionsInv, TypeOK
<1> QED
  BY <1>1, SessionsHold, PTL DEF Spec, DeadStaysDead

\* Only its opener uses, keeps or closes a session.
THEOREM OpenersOnly == Spec => OnlyTheOpener
<1> DEFINE Uses(i) == \E r \in Requests : Serves(r) /\ request[r].id = i /\ MatchesBinding(session[i], request[r])
           Kept == \A i \in SessionIds :
                      Live(i) /\ session'[i] # session[i] /\ (\E r \in Requests : Serves(r)) => Uses(i)
           Run == \A r \in Requests :
                     Serves(r) /\ request'[r].phase = "executing"
                     => Live(request[r].id) /\ MatchesBinding(session[request[r].id], request[r])
<1>1. SessionsInv /\ [Next]_vars => [Kept /\ Run]_vars
  <2> SUFFICES ASSUME SessionsInv, Next PROVE Kept /\ Run
    OBVIOUS
  <2>1. ASSUME NEW r \in Requests, NEW a \in {"ok", "denied", "session_limit_reached"}, Answer(r, a),
               request[r].phase # "idle"
        PROVE  Serves(r) /\ Run
    BY <2>1, IdleType DEF Answer, Serves, SessionsInv, TypeOK, RequestInv
  <2>2. ASSUME \A i \in SessionIds : Live(i) => session'[i] = session[i] PROVE Kept
    BY <2>2
  <2>3. ASSUME NEW r \in Requests, Touch(r), Serves(r) PROVE Kept
    <3>1. \A i \in SessionIds : session'[i] # session[i] =>
             i = request[r].id /\ MatchesBinding(session[i], request[r])
      BY <2>3, TouchKeeps DEF SessionsInv
    <3> QED
      BY <2>3, <3>1
  <2>4. ASSUME NEW r \in Requests, Rejected(r) \/ Initialize(r) \/ RefuseSession(r) \/ FinishTool(r)
        PROVE  Kept /\ Run
    <3>1. Run
      BY <2>1, <2>4 DEF Rejected, Initialize, RefuseSession, FinishTool
    <3>2. \A i \in SessionIds : Live(i) => session'[i] = session[i]
      BY <2>4, PrunedKeeps DEF Rejected, Initialize, RefuseSession, FinishTool, Live, Unused, SessionsInv, TypeOK
    <3> QED
      BY <2>2, <3>1, <3>2
  <2>5. ASSUME NEW r \in Requests, ServeAtOnce(r) PROVE Kept /\ Run
    BY <2>1, <2>3, <2>5 DEF ServeAtOnce, Touch
  <2>6. ASSUME NEW r \in Requests, CallTool(r) PROVE Kept /\ Run
    <3>1. /\ Touch(r) /\ request[r].phase = "authenticating" /\ answer' = answer
          /\ request' = [request EXCEPT ![r].phase = "executing"]
      BY <2>6 DEF CallTool, Touch
    <3>2. Serves(r)
      BY <3>1 DEF Serves, SessionsInv, TypeOK, Request
    <3>3. Run
      BY <3>1 DEF Serves, SessionsInv, TypeOK, Request, Touch
    <3> QED
      BY <2>3, <3>1, <3>2, <3>3
  <2>7. ASSUME NEW r \in Requests, Close(r) PROVE Kept /\ Run
    <3>1. request[r].phase = "authenticating" /\ \E a \in {"ok", "denied"} : Answer(r, a)
      BY <2>7 DEF Close
    <3>2. Serves(r) /\ Run
      BY <2>1, <3>1
    <3>3. \A i \in SessionIds : Live(i) /\ session'[i] # session[i] =>
             request[r].id = i /\ MatchesBinding(session[i], request[r])
      BY <2>7, PrunedKeeps DEF Close, SessionsInv
    <3> QED
      BY <3>2, <3>3
  <2>8. ASSUME NEW r \in Requests, NEW c \in Callers, NEW m \in Methods, NEW i \in issued \union {None},
               NEW v \in Versions \union {None}, Receive(r, c, m, i, v)
        PROVE  Kept /\ Run
    <3>1. Run
      BY <2>8 DEF Receive, Serves, SessionsInv, TypeOK, RequestInv, Request
    <3> QED
      BY <2>2, <2>8, <3>1 DEF Receive
  <2>9. CASE Tick \/ Restart \/ \E i \in issued : Forget(i)
    <3>1. \A r \in Requests : ~Serves(r)
      BY <2>9, IdleType DEF Tick, Restart, Forget, Serves
    <3> QED
      BY <3>1
  <2> QED
    BY <2>4, <2>5, <2>6, <2>7, <2>8, <2>9 DEF Next, Handle, RejectCredential, Deny, RejectMessage
<1> QED
  BY <1>1, SessionsHold, PTL DEF Spec, OnlyTheOpener
==============================================================================
