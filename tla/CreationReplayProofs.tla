------------------------- MODULE CreationReplayProofs -------------------------
(***************************************************************************)
(* The transactions that claim keys implement the promise of the keys, and *)
(* changes build on each other, for any keys, calls and versions, however  *)
(* often calls are retried, overlap, crash or lose their answer.           *)
(***************************************************************************)
EXTENDS CreationReplay, FiniteSetTheorems, TLAPS

Outcome == [payload : Payloads, result : Nat]

\* The shapes that the proofs need, the domains of row and call included.
Shapes ==
    /\ row \in [Keys -> SUBSET Outcome]
    /\ effects \in Seq(Keys)
    /\ target \in [version : 1..MaxVersion, archived : BOOLEAN]
    /\ blocked \in BOOLEAN /\ authorized \in BOOLEAN
    /\ targetLock \in SUBSET Calls
    /\ keyLock \in [Keys -> SUBSET Calls]
    /\ call \in [Calls -> Call]
    /\ answer \in [Calls -> [told : {"nothing", "error", "result"}, result : Nat]]

\* A call is answered when it ends.
Unanswered == \A c \in Calls : call[c].stage # "ended" => answer[c] = Once!NoAnswer

\* Who has claimed a key has it alone, and the key is undecided.
ClaimsAreExclusive ==
    \A c \in Calls : call[c].stage = "claimed" =>
        keyLock[call[c].key] = {c} /\ row[call[c].key] = {}

ReplayInv == Shapes /\ Unanswered /\ ClaimsAreExclusive

\* Asked hears of a call when it is sent and of nothing afterwards.
LEMMA AskedStays ==
    ASSUME Shapes, NEW c \in Calls, NEW stage \in {"opened", "claimed", "ended"},
           call[c].stage # "new", Stage(c, stage)
    PROVE  /\ Asked' = Asked
           /\ call' \in [Calls -> Call]
           /\ \A d \in Calls : call'[d].key = call[d].key
           /\ call'[c].stage = stage
           /\ \A d \in Calls \ {c} : call'[d] = call[d]
<1>1. /\ call' = [call EXCEPT ![c].stage = stage] /\ call \in [Calls -> Call]
  BY DEF Stage, Shapes
<1>2. \A d \in Calls : call'[d] = IF d = c THEN [call[c] EXCEPT !.stage = stage] ELSE call[d]
  BY <1>1
<1>3. call[c] \in Call /\ [call[c] EXCEPT !.stage = stage] \in Call
  BY <1>1 DEF Call
<1>4. /\ call'[c].stage = stage /\ call'[c].key = call[c].key /\ call'[c].payload = call[c].payload
  BY <1>2, <1>3 DEF Call
<1>5. \A d \in Calls :
         (IF call'[d].stage = "new" THEN {} ELSE {[key |-> call'[d].key, payload |-> call'[d].payload]})
         = (IF call[d].stage = "new" THEN {} ELSE {[key |-> call[d].key, payload |-> call[d].payload]})
  BY <1>2, <1>4
<1>6. Asked' = Asked
  BY <1>5 DEF Asked
<1> QED
  BY <1>1, <1>2, <1>3, <1>4, <1>6

\* Ending a call releases its locks and keeps the others' claims.
LEMMA FinishKeeps ==
    ASSUME ReplayInv, NEW c \in Calls, call[c].stage # "new",
           NEW told \in [told : {"error", "result"}, result : Nat], Finish(c, told),
           row' \in [Keys -> SUBSET Outcome], effects' \in Seq(Keys),
           target' \in [version : 1..MaxVersion, archived : BOOLEAN], UNCHANGED world,
           \A k \in Keys : row'[k] # row[k] => call[c].stage = "claimed" /\ k = call[c].key
    PROVE  ReplayInv' /\ Asked' = Asked /\ answer' = [answer EXCEPT ![c] = told]
<1>1. /\ Stage(c, "ended") /\ answer' = [answer EXCEPT ![c] = told]
      /\ targetLock' = targetLock \ {c} /\ keyLock' = [k \in Keys |-> keyLock[k] \ {c}]
  BY DEF Finish
<1>2. /\ Asked' = Asked /\ call' \in [Calls -> Call]
      /\ \A d \in Calls : call'[d].key = call[d].key
      /\ call'[c].stage = "ended"
      /\ \A d \in Calls \ {c} : call'[d] = call[d]
  BY <1>1, AskedStays DEF ReplayInv
<1>3. Shapes'
  BY <1>1, <1>2 DEF ReplayInv, Shapes, world
<1>4. Unanswered'
  BY <1>1, <1>2 DEF ReplayInv, Unanswered, Shapes
<1>5. ClaimsAreExclusive'
  <2> SUFFICES ASSUME NEW d \in Calls, call'[d].stage = "claimed"
               PROVE  keyLock'[call'[d].key] = {d} /\ row'[call'[d].key] = {}
    BY DEF ClaimsAreExclusive
  <2>1. d # c /\ call'[d] = call[d] /\ call[d].stage = "claimed" /\ call[d].key \in Keys
    BY <1>2 DEF ReplayInv, Shapes, Call
  <2>2. keyLock[call[d].key] = {d} /\ row[call[d].key] = {}
    BY <2>1 DEF ReplayInv, ClaimsAreExclusive
  <2>3. row'[call[d].key] = row[call[d].key]
    BY <2>1, <2>2 DEF ReplayInv, ClaimsAreExclusive
  <2> QED
    BY <1>1, <2>1, <2>2, <2>3
<1> QED
  BY <1>1, <1>2, <1>3, <1>4, <1>5 DEF ReplayInv

\* The abstract step of a call that ends.
Ends(c, a) ==
    \/ Once!Fail(c)
    \/ Once!Decide(c, a.key, a.payload)
    \/ Once!Replay(c, a.key, a.payload)

\* A call that ends does one of the three things the promise allows, for the key
\* and the payload it was sent with.
LEMMA EndsIsAbstract ==
    ASSUME ReplayInv, NEW c \in Calls, call[c].stage \notin {"new", "ended"},
           Ends(c, [key |-> call[c].key, payload |-> call[c].payload])
    PROVE  Once!Next
  BY DEF ReplayInv, Unanswered, Ends, Asked, Once!Next

\* A call that fails.
LEMMA FailKeeps ==
    ASSUME ReplayInv, NEW c \in Calls, call[c].stage \notin {"new", "ended"}, Fail(c)
    PROVE  ReplayInv' /\ Once!Next
<1>1. Finish(c, Once!Denied) /\ UNCHANGED <<row, effects, target>> /\ UNCHANGED world
  BY DEF Fail, committed, world
<1>2. Once!Denied \in [told : {"error", "result"}, result : Nat]
  BY DEF Once!Denied
<1>3. ReplayInv' /\ Asked' = Asked /\ answer' = [answer EXCEPT ![c] = Once!Denied]
  BY <1>1, <1>2, FinishKeeps DEF ReplayInv, Shapes
<1>4. Once!Fail(c)
  BY <1>1, <1>3 DEF Once!Fail
<1> QED
  BY <1>3, <1>4, EndsIsAbstract DEF Ends

\* A call that records a result: the key was undecided and is decided once.
LEMMA RecordKeeps ==
    ASSUME ReplayInv, NEW c \in Calls, call[c].stage = "claimed", NEW result \in Nat,
           RecordResult(c, result), Finish(c, Once!Told(result)),
           effects' \in Seq(Keys), target' \in [version : 1..MaxVersion, archived : BOOLEAN],
           UNCHANGED world,
           \/ result = 0 /\ effects' = effects
           \/ result = Len(effects) + 1 /\ effects' = Append(effects, call[c].key)
    PROVE  ReplayInv' /\ Once!Next
<1> DEFINE k == call[c].key
           o == [payload |-> call[c].payload, result |-> result]
<1>1. k \in Keys /\ call[c].payload \in Payloads /\ o \in Outcome
  BY DEF ReplayInv, Shapes, Call, Outcome
<1>2. row' = [row EXCEPT ![k] = {o}] /\ row[k] = {}
  BY DEF RecordResult, ReplayInv, ClaimsAreExclusive
<1>3. row' \in [Keys -> SUBSET Outcome]
  BY <1>1, <1>2 DEF ReplayInv, Shapes
<1>4. Once!Told(result) \in [told : {"error", "result"}, result : Nat]
  BY DEF Once!Told
<1>5. ReplayInv' /\ Asked' = Asked /\ answer' = [answer EXCEPT ![c] = Once!Told(result)]
  BY <1>2, <1>3, <1>4, FinishKeeps DEF ReplayInv, Shapes
<1>6. Once!Decide(c, k, call[c].payload)
  <2>1. CASE result = 0 /\ effects' = effects
    BY <1>2, <1>5, <2>1 DEF Once!Decide
  <2>2. CASE result = Len(effects) + 1 /\ effects' = Append(effects, k)
    BY <1>2, <1>5, <2>2 DEF Once!Decide
  <2> QED
    BY <2>1, <2>2
<1> QED
  BY <1>5, <1>6, EndsIsAbstract DEF Ends

\* Every step keeps the invariant and is a step of the promise or none of it.
LEMMA StepIsAbstract ==
    ASSUME ReplayInv, [Next]_vars
    PROVE  ReplayInv' /\ [Once!Next]_<<Asked, row, effects, answer>>
<1> USE DEF ReplayInv
<1>1. ASSUME NEW c \in Calls, Send(c) PROVE ReplayInv' /\ Once!Next
  <2>1. PICK p \in {target.version} \union {call[d].payload : d \in {d \in Calls :
                    call[d].stage # "new" /\ call[d].key = call[c].key}} :
           call' = [call EXCEPT ![c].stage = "sent", ![c].payload = p]
    BY <1>1 DEF Send
  <2>2. p \in Payloads
    BY DEF Shapes, Payloads, Call
  <2>3. /\ call' \in [Calls -> Call]
        /\ call'[c].stage = "sent" /\ call'[c].payload = p /\ call'[c].key = call[c].key
        /\ \A d \in Calls \ {c} : call'[d] = call[d]
    BY <2>1, <2>2 DEF Shapes, Call
  <2>4. /\ UNCHANGED <<row, effects, target, blocked, authorized, targetLock, keyLock, answer>>
        /\ call[c].stage = "new"
    BY <1>1 DEF Send, committed, world, locks
  <2>5. ReplayInv'
    BY <2>3, <2>4 DEF Shapes, Unanswered, ClaimsAreExclusive
  <2>6. Asked' = [Asked EXCEPT ![c] = {[key |-> call[c].key, payload |-> p]}] /\ Asked[c] = {}
    BY <2>3, <2>4 DEF Asked
  <2>7. call[c].key \in Keys
    BY DEF Shapes, Call
  <2>8. Once!Ask(c, call[c].key, p)
    BY <2>4, <2>6 DEF Once!Ask
  <2> QED
    BY <2>2, <2>5, <2>7, <2>8 DEF Once!Next
<1>2. ASSUME NEW c \in Calls, Open(c) PROVE ReplayInv' /\ UNCHANGED <<Asked, row, effects, answer>>
  <2>1. /\ UNCHANGED <<row, effects, target, blocked, authorized, keyLock, answer>>
        /\ call[c].stage = "sent" /\ Stage(c, "opened") /\ targetLock' \in SUBSET Calls
    BY <1>2 DEF Open, committed, world, Shapes
  <2>2. /\ Asked' = Asked /\ call' \in [Calls -> Call] /\ call'[c].stage = "opened"
        /\ \A d \in Calls \ {c} : call'[d] = call[d]
    BY <2>1, AskedStays
  <2> QED
    BY <2>1, <2>2 DEF Shapes, Unanswered, ClaimsAreExclusive
<1>3. ASSUME NEW c \in Calls, Claim(c) PROVE ReplayInv' /\ UNCHANGED <<Asked, row, effects, answer>>
  <2>1. /\ UNCHANGED <<row, effects, target, blocked, authorized, targetLock, answer>>
        /\ call[c].stage = "opened" /\ Stage(c, "claimed")
        /\ keyLock[call[c].key] = {} /\ row[call[c].key] = {}
        /\ keyLock' = [keyLock EXCEPT ![call[c].key] = {c}]
    BY <1>3 DEF Claim, committed, world
  <2>2. /\ Asked' = Asked /\ call' \in [Calls -> Call] /\ call'[c].stage = "claimed"
        /\ \A d \in Calls : call'[d].key = call[d].key
        /\ \A d \in Calls \ {c} : call'[d] = call[d]
    BY <2>1, AskedStays
  <2>3. \A d \in Calls : call[d].key \in Keys
    BY DEF Shapes, Call
  <2>4. Shapes' /\ Unanswered'
    BY <2>1, <2>2, <2>3 DEF Shapes, Unanswered
  <2>5. ClaimsAreExclusive'
    <3> SUFFICES ASSUME NEW d \in Calls, call'[d].stage = "claimed"
                 PROVE  keyLock'[call'[d].key] = {d} /\ row'[call'[d].key] = {}
      BY DEF ClaimsAreExclusive
    <3>1. CASE d = c
      BY <2>1, <2>2, <2>3, <3>1 DEF Shapes
    <3>2. CASE d # c
      <4>1. keyLock[call[d].key] = {d} /\ row[call[d].key] = {}
        BY <2>2, <3>2 DEF ClaimsAreExclusive
      <4>2. call[d].key # call[c].key
        BY <2>1, <4>1
      <4> QED
        BY <2>1, <2>2, <2>3, <4>1, <4>2 DEF Shapes
    <3> QED
      BY <3>1, <3>2
  <2> QED
    BY <2>1, <2>2, <2>4, <2>5
<1>4. ASSUME NEW c \in Calls, Replay(c) PROVE ReplayInv' /\ Once!Next
  <2>1. PICK o \in row[call[c].key] : o.payload = call[c].payload /\ Finish(c, Once!Told(o.result))
    BY <1>4 DEF Replay
  <2>2. o.result \in Nat
    BY DEF Shapes, Call, Outcome
  <2>3. Once!Told(o.result) \in [told : {"error", "result"}, result : Nat]
    BY <2>2 DEF Once!Told
  <2>4. UNCHANGED <<row, effects, target>> /\ UNCHANGED world /\ call[c].stage = "opened"
    BY <1>4 DEF Replay, committed, world
  <2>5. ReplayInv' /\ Asked' = Asked /\ answer' = [answer EXCEPT ![c] = Once!Told(o.result)]
    BY <2>1, <2>3, <2>4, FinishKeeps DEF Shapes
  <2>6. Once!Replay(c, call[c].key, call[c].payload)
    BY <2>1, <2>4, <2>5 DEF Once!Replay
  <2> QED
    BY <2>4, <2>5, <2>6, EndsIsAbstract DEF Ends
<1>5. ASSUME NEW c \in Calls, TurnAway(c) \/ Conflict(c) \/ Reject(c) \/ Crash(c)
      PROVE  ReplayInv' /\ Once!Next
  BY <1>5, FailKeeps DEF TurnAway, Conflict, Reject, Crash
<1>6. ASSUME NEW c \in Calls, Change(c) PROVE ReplayInv' /\ Once!Next
  <2>1. call[c].key \in Keys /\ Len(effects) \in Nat
    BY DEF Shapes, Call
  <2>2. effects' = Append(effects, call[c].key) /\ effects' \in Seq(Keys)
    BY <1>6, <2>1 DEF Change, Shapes
  <2>3. target' \in [version : 1..MaxVersion, archived : BOOLEAN]
    BY <1>6, VersionAssumption DEF Change, Shapes
  <2>4. Len(effects) + 1 \in Nat
    BY <2>1
  <2> QED
    BY <1>6, <2>2, <2>3, <2>4, RecordKeeps DEF Change
<1>7. ASSUME NEW c \in Calls, RefuseArchive(c) PROVE ReplayInv' /\ Once!Next
  <2>1. UNCHANGED <<effects, target, blocked, authorized>>
    BY <1>7 DEF RefuseArchive, world
  <2> QED
    BY <1>7, <2>1, RecordKeeps DEF RefuseArchive, Shapes
<1>8. CASE WorldChanges \/ UNCHANGED vars
  <2>1. /\ UNCHANGED <<row, effects, target, targetLock, keyLock, call, answer>>
        /\ blocked' \in BOOLEAN /\ authorized' \in BOOLEAN
    BY <1>8 DEF WorldChanges, committed, locks, vars, Shapes
  <2> QED
    BY <2>1 DEF Shapes, Unanswered, ClaimsAreExclusive, Asked
<1> QED
  BY <1>1, <1>2, <1>3, <1>4, <1>5, <1>6, <1>7, <1>8 DEF Next, Progress

\* No call has been sent and no key is decided at first.
LEMMA InitIsAbstract == Init => ReplayInv /\ Once!Init
<1> SUFFICES ASSUME Init PROVE ReplayInv /\ Once!Init
  OBVIOUS
<1>1. call \in [Calls -> Call] /\ \A c \in Calls : call[c].stage = "new"
  BY VersionAssumption DEF Init, Call, Payloads
<1>2. Shapes
  BY <1>1, VersionAssumption DEF Init, Shapes, Once!NoAnswer
<1>3. Unanswered /\ ClaimsAreExclusive
  BY <1>1 DEF Init, Unanswered, ClaimsAreExclusive
<1>4. Asked = [c \in Calls |-> {}]
  BY <1>1 DEF Asked
<1> QED
  BY <1>2, <1>3, <1>4 DEF Init, ReplayInv, Once!Init

\* The transactions implement the promise of an idempotency key.
THEOREM KeysDecideOnce == Spec => KeepsExactlyOnce
<1>1. ReplayInv /\ [Next]_vars => ReplayInv' /\ [Once!Next]_<<Asked, row, effects, answer>>
  BY StepIsAbstract
<1> QED
  BY <1>1, InitIsAbstract, PTL DEF Spec, KeepsExactlyOnce, Once!Spec

\* The outcomes that changed the target.
TargetKeys == UpdateKeys \union ArchiveKeys
Changes == {o \in UNION {row[k] : k \in TargetKeys} : o.result > 0}

ChangesInv == IsFiniteSet(Changes) /\ ChangesBuildOnEachOther

\* Only a change and a refusal record anything, and only a change moves the
\* target.
LEMMA OthersRecordNothing ==
    ASSUME [Next]_vars, \A c \in Calls : ~Change(c) /\ ~RefuseArchive(c)
    PROVE  UNCHANGED <<row, target>>
  BY DEF Next, Progress, Send, Open, TurnAway, Claim, Replay, Conflict, Reject, Crash, Fail, WorldChanges, committed,
     vars

\* A change adds the outcome of the version it was decided on, a refusal adds
\* none.
LEMMA ChangesStep ==
    ASSUME ReplayInv, ChangesInv, [Next]_vars
    PROVE  ChangesInv'
<1>1. ASSUME NEW c \in Calls, Change(c) PROVE ChangesInv'
  <2> DEFINE k == call[c].key
             o == [payload |-> call[c].payload, result |-> Len(effects) + 1]
  <2>1. k \in Keys /\ call[c].payload \in Payloads /\ Len(effects) \in Nat /\ target.version \in Nat
    BY VersionAssumption DEF ReplayInv, Shapes, Call
  <2>2. row' = [row EXCEPT ![k] = {o}] /\ row[k] = {}
    BY <1>1 DEF Change, RecordResult, ReplayInv, ClaimsAreExclusive
  <2>3. CASE k \in CreateKeys
    <3>1. target' = target
      BY <1>1, <2>3 DEF Change, NeedsTarget
    <3>2. \A j \in TargetKeys : row'[j] = row[j]
      BY <2>2, <2>3, KeysAssumption DEF TargetKeys, ReplayInv, Shapes, Keys
    <3>3. Changes' = Changes
      BY <3>2 DEF Changes
    <3> QED
      BY <3>1, <3>3 DEF ChangesInv, ChangesBuildOnEachOther, Changes, TargetKeys
  <2>4. CASE k \notin CreateKeys
    <3>1. k \in TargetKeys /\ call[c].payload = target.version /\ target'.version = target.version + 1
      BY <1>1, <2>1, <2>4 DEF Change, MayChange, NeedsTarget, Keys, TargetKeys
    <3>2. \A j \in TargetKeys : row'[j] = IF j = k THEN {o} ELSE row[j]
      BY <2>2 DEF TargetKeys, ReplayInv, Shapes, Keys
    <3>3. Changes' = Changes \union {o}
      <4>1. o.result > 0
        BY <2>1
      <4>2. ASSUME NEW x PROVE x \in Changes' <=> x \in Changes \union {o}
        <5>1. x \in Changes' <=> x.result > 0 /\ \E j \in TargetKeys : x \in row'[j]
          BY DEF Changes
        <5>2. x \in Changes <=> x.result > 0 /\ \E j \in TargetKeys : x \in row[j]
          BY DEF Changes
        <5> HIDE DEF o, k
        <5>3. (\E j \in TargetKeys : x \in row'[j]) <=> x = o \/ (\E j \in TargetKeys : x \in row[j])
          BY <2>2, <3>1, <3>2
        <5> QED
          BY <4>1, <5>1, <5>2, <5>3
      <4> QED
        BY <4>2
    <3>4. {x.payload : x \in Changes} = 1..(target.version - 1) /\ Cardinality(Changes) = target.version - 1
          /\ IsFiniteSet(Changes)
      BY DEF ChangesInv, ChangesBuildOnEachOther, Changes, TargetKeys
    <3>5. o \notin Changes
      <4>1. o.payload \notin {x.payload : x \in Changes}
        BY <2>1, <3>1, <3>4
      <4> QED
        BY <4>1
    <3>6. IsFiniteSet(Changes') /\ Cardinality(Changes') = target'.version - 1
      <4>1. IsFiniteSet(Changes \union {o}) /\ Cardinality(Changes \union {o}) = Cardinality(Changes) + 1
        BY <3>4, <3>5, FS_AddElement
      <4> HIDE DEF o
      <4> QED
        BY <2>1, <3>1, <3>3, <3>4, <4>1
    <3>7. {x.payload : x \in Changes'} = 1..(target'.version - 1)
      <4>1. {x.payload : x \in Changes'} = {x.payload : x \in Changes} \union {target.version}
        <5>1. o.payload = target.version
          BY <3>1
        <5> HIDE DEF o, Changes
        <5> QED
          BY <3>3, <5>1
      <4>2. 1..(target.version - 1) \union {target.version} = 1..target.version
        <5>1. target.version >= 1
          BY VersionAssumption DEF ReplayInv, Shapes
        <5> QED
          BY <2>1, <5>1
      <4>3. target'.version - 1 = target.version
        BY <2>1, <3>1
      <4> QED
        BY <3>4, <4>1, <4>2, <4>3
    <3> QED
      BY <3>6, <3>7 DEF ChangesInv, ChangesBuildOnEachOther, Changes, TargetKeys
  <2> QED
    BY <2>3, <2>4
<1>2. ASSUME NEW c \in Calls, RefuseArchive(c) PROVE ChangesInv'
  <2> DEFINE k == call[c].key
             o == [payload |-> call[c].payload, result |-> 0]
  <2>1. row' = [row EXCEPT ![k] = {o}] /\ row[k] = {} /\ target' = target
    BY <1>2 DEF RefuseArchive, RecordResult, ReplayInv, ClaimsAreExclusive
  <2>2. \A j \in TargetKeys : row'[j] = IF j = k THEN {o} ELSE row[j]
    BY <2>1 DEF TargetKeys, ReplayInv, Shapes, Keys
  <2>3. Changes' = Changes
    <3>1. \A x : x \in Changes' <=> x \in Changes
      <4> SUFFICES ASSUME NEW x PROVE x \in Changes' <=> x \in Changes
        OBVIOUS
      <4>1. x \in Changes' <=> x.result > 0 /\ \E j \in TargetKeys : x \in row'[j]
        BY DEF Changes
      <4>2. x \in Changes <=> x.result > 0 /\ \E j \in TargetKeys : x \in row[j]
        BY DEF Changes
      <4>3. ~(o.result > 0)
        OBVIOUS
      <4> QED
        BY <2>1, <2>2, <4>1, <4>2, <4>3
    <3> QED
      BY <3>1 DEF Changes
  <2> QED
    BY <2>1, <2>3 DEF ChangesInv, ChangesBuildOnEachOther, Changes, TargetKeys
<1>3. CASE \A c \in Calls : ~Change(c) /\ ~RefuseArchive(c)
  <2>1. UNCHANGED <<row, target>>
    BY <1>3, OthersRecordNothing
  <2> QED
    BY <2>1 DEF ChangesInv, ChangesBuildOnEachOther, Changes
<1> QED
  BY <1>1, <1>2, <1>3

\* No committed change overwrites one its client had not seen.
THEOREM NoLostChange == Spec => []ChangesBuildOnEachOther
<1>1. Init => ChangesInv
  <2> SUFFICES ASSUME Init PROVE ChangesInv
    OBVIOUS
  <2>1. Changes = {} /\ target.version = 1
    BY DEF Init, Changes, TargetKeys, Keys
  <2> QED
    BY <2>1, FS_EmptySet DEF ChangesInv, ChangesBuildOnEachOther, Changes, TargetKeys
<1>2. ReplayInv /\ ChangesInv /\ [Next]_vars => ReplayInv' /\ ChangesInv'
  BY StepIsAbstract, ChangesStep
<1>3. ChangesInv => ChangesBuildOnEachOther
  BY DEF ChangesInv
<1> QED
  BY <1>1, <1>2, <1>3, InitIsAbstract, PTL DEF Spec

\* A result is the number of an effect there is, or 0 for a refusal.
ResultsAreEffects == \A k \in Keys : \A o \in row[k] : o.result <= Len(effects)

\* A call that records a result records one that its own effect is the last of,
\* and the effects recorded before stay.
LEMMA ResultsStep ==
    ASSUME ReplayInv, ResultsAreEffects, [Next]_vars
    PROVE  ResultsAreEffects'
<1> USE DEF ReplayInv
<1>1. ASSUME NEW c \in Calls, NEW result \in Nat, RecordResult(c, result), result <= Len(effects'),
             Len(effects') \in Nat, Len(effects) <= Len(effects')
      PROVE  ResultsAreEffects'
  <2> SUFFICES ASSUME NEW k \in Keys, NEW o \in row'[k] PROVE o.result <= Len(effects')
    BY DEF ResultsAreEffects
  <2>1. CASE k = call[c].key
    <3>1. o = [payload |-> call[c].payload, result |-> result]
      BY <1>1, <2>1 DEF RecordResult, Shapes
    <3> QED
      BY <1>1, <3>1
  <2>2. CASE k # call[c].key
    <3>1. o \in row[k]
      BY <1>1, <2>2 DEF RecordResult, Shapes
    <3>2. o.result \in Nat /\ o.result <= Len(effects) /\ Len(effects) \in Nat
      BY <3>1 DEF Shapes, Outcome, ResultsAreEffects
    <3> QED
      BY <1>1, <3>2
  <2> QED
    BY <2>1, <2>2
<1>2. Len(effects) \in Nat
  BY DEF Shapes
<1>3. ASSUME NEW c \in Calls, Change(c) PROVE ResultsAreEffects'
  <2>1. call[c].key \in Keys
    BY DEF Shapes, Call
  <2>2. Len(effects') = Len(effects) + 1
    BY <1>3, <2>1 DEF Change, Shapes
  <2>3. RecordResult(c, Len(effects) + 1)
    BY <1>3 DEF Change
  <2> QED
    BY <1>1, <1>2, <2>2, <2>3
<1>4. ASSUME NEW c \in Calls, RefuseArchive(c) PROVE ResultsAreEffects'
  <2>1. RecordResult(c, 0) /\ effects' = effects
    BY <1>4 DEF RefuseArchive
  <2> QED
    BY <1>1, <1>2, <2>1
<1>5. CASE \A c \in Calls : ~Change(c) /\ ~RefuseArchive(c)
  <2>1. UNCHANGED <<row, effects>>
    BY <1>5 DEF Next, Progress, Send, Open, TurnAway, Claim, Replay, Conflict, Reject, Crash, Fail,
                WorldChanges, committed, vars
  <2> QED
    BY <2>1 DEF ResultsAreEffects
<1> QED
  BY <1>3, <1>4, <1>5

\* Rows, effects, locks and calls keep their shape: every recorded result is the
\* number of a committed effect, or 0.
THEOREM TypeCorrect == Spec => []TypeOK
<1>1. Init => ResultsAreEffects
  BY DEF Init, ResultsAreEffects
<1>2. ReplayInv /\ ResultsAreEffects /\ [Next]_vars => ReplayInv' /\ ResultsAreEffects'
  BY StepIsAbstract, ResultsStep
<1>3. ReplayInv /\ ResultsAreEffects => TypeOK
  <2> SUFFICES ASSUME ReplayInv, ResultsAreEffects PROVE TypeOK
    OBVIOUS
  <2>1. ASSUME NEW k \in Keys, NEW o \in row[k]
        PROVE  o.payload \in Payloads /\ o.result \in 0..Len(effects)
    <3>1. o \in Outcome /\ Len(effects) \in Nat
      BY DEF ReplayInv, Shapes
    <3>2. o.payload \in Payloads /\ o.result \in Nat /\ o.result <= Len(effects)
      BY <3>1 DEF Outcome, ResultsAreEffects
    <3> QED
      BY <3>1, <3>2
  <2> QED
    BY <2>1 DEF ReplayInv, Shapes, TypeOK
<1> QED
  BY <1>1, <1>2, <1>3, InitIsAbstract, PTL DEF Spec
===============================================================================
