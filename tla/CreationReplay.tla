--------------------------- MODULE CreationReplay ---------------------------
(***************************************************************************)
(* Idempotency keys: the rows of app.rental_inventory_creation_replays and *)
(* the transactions of the commands that use them, which claim a key, make *)
(* their change and record their result, or roll all of it back.  Calls    *)
(* are attempts: a client that hears nothing sends the same key and        *)
(* payload again, perhaps while the first attempt is still running.        *)
(*                                                                         *)
(* The commands differ in what they do before they look at the key: see    *)
(* the three sets of keys.  One target row (a Unit or a Property) is       *)
(* modelled.                                                               *)
(*                                                                         *)
(* Source: src/infra/postgres/migrations/0001_baseline.sql                 *)
(***************************************************************************)
EXTENDS Naturals, Sequences, FiniteSets

CONSTANTS
    CreateKeys,     \* keys of create_rental_property: no target row
    UpdateKeys,     \* of set_unit_pricing, set_unit_availability: the target
                    \* must not be archived, whatever the key says
    ArchiveKeys,    \* of archive_rental_unit, archive_rental_property: the key
                    \* is looked at first
    Calls,          \* the attempts there may be
    MaxVersion      \* a bound of the model on the target's version

Keys == CreateKeys \union UpdateKeys \union ArchiveKeys

ASSUME KeysAssumption ==
    /\ CreateKeys \cap UpdateKeys = {}
    /\ CreateKeys \cap ArchiveKeys = {}
    /\ UpdateKeys \cap ArchiveKeys = {}

ASSUME VersionAssumption == MaxVersion \in Nat \ {0}

VARIABLES
    row,            \* committed: for each key, at most one [payload, result]
    effects,        \* committed business mutations: the key of each
    target,         \* the target row: its version and whether it is archived
    blocked,        \* whether an archive must be refused (a lease, a last Unit)
    authorized,     \* whether the actor may manage the target
    targetLock,     \* the call that has locked the target row, if any
    keyLock,        \* the calls that have locked or inserted each key's row
    call,           \* where each call is
    answer          \* what it was told

vars == <<row, effects, target, blocked, authorized, targetLock, keyLock, call, answer>>
committed == <<row, effects, target>>
world == <<blocked, authorized>>
locks == <<targetLock, keyLock>>

(***************************************************************************)
(* The payload of a call is the version of the target it expects; two      *)
(* payloads that differ, differ in it.                                     *)
(***************************************************************************)
Payloads == 1..MaxVersion
Call == [ stage : {"new", "sent", "opened", "claimed", "ended"},
          key : Keys, payload : Payloads ]

\* What a client has sent.
Asked == [c \in Calls |-> IF call[c].stage = "new" THEN {}
                          ELSE {[key |-> call[c].key, payload |-> call[c].payload]}]

Once == INSTANCE ExactlyOnce WITH asked <- Asked, outcome <- row

TypeOK ==
    /\ \A k \in Keys : \A o \in row[k] : o.payload \in Payloads /\ o.result \in 0..Len(effects)
    /\ effects \in Seq(Keys)
    /\ target \in [version : 1..MaxVersion, archived : BOOLEAN]
    /\ blocked \in BOOLEAN
    /\ authorized \in BOOLEAN
    /\ targetLock \in SUBSET Calls
    /\ keyLock \in [Keys -> SUBSET Calls]
    /\ call \in [Calls -> Call]
    /\ answer \in [Calls -> [told : {"nothing", "error", "result"}, result : Nat]]

Init ==
    /\ row = [k \in Keys |-> {}]
    /\ effects = <<>>
    /\ answer = [c \in Calls |-> Once!NoAnswer]
    /\ target = [version |-> 1, archived |-> FALSE]
    /\ blocked \in BOOLEAN
    /\ authorized = TRUE
    /\ targetLock = {}
    /\ keyLock = [k \in Keys |-> {}]
    /\ call \in [Calls -> {[stage |-> "new", key |-> k, payload |-> 1] : k \in Keys}]

------------------------------------------------------------------------------

Stage(c, stage) == call' = [call EXCEPT ![c].stage = stage]

\* Mutant: the connection goes back to the pool with its transaction open.
FinishKeepingLocks(c, told) ==
    /\ Stage(c, "ended")
    /\ answer' = [answer EXCEPT ![c] = told]
    /\ UNCHANGED locks

\* COMMIT and ROLLBACK: the answer is on its way and the locks are released.
Finish(c, told) ==
    /\ Stage(c, "ended")
    /\ answer' = [answer EXCEPT ![c] = told]
    /\ targetLock' = targetLock \ {c}
    /\ keyLock' = [k \in Keys |-> keyLock[k] \ {c}]

\* Nothing a rolled back transaction did is seen.
Fail(c) ==
    /\ Finish(c, Once!Denied)
    /\ UNCHANGED <<committed, world>>

\* A client sends a command, with the version its screen shows or, on a retry,
\* the payload it sent before.
Send(c) ==
    /\ call[c].stage = "new"
    /\ \E p \in {target.version} \union {call[d].payload : d \in {d \in Calls :
                    call[d].stage # "new" /\ call[d].key = call[c].key}} :
          call' = [call EXCEPT ![c].stage = "sent", ![c].payload = p]
    /\ UNCHANGED <<committed, world, locks, answer>>

NeedsTarget(c) == call[c].key \notin CreateKeys
IsUpdate(c) == call[c].key \in UpdateKeys

\* SELECT ... FOR UPDATE of the target, then the actor's authority.
Open(c) ==
    /\ call[c].stage = "sent"
    /\ NeedsTarget(c) => targetLock = {}
    /\ authorized
    /\ IsUpdate(c) => ~target.archived
    /\ targetLock' = IF NeedsTarget(c) THEN {c} ELSE targetLock
    /\ Stage(c, "opened")
    /\ UNCHANGED <<committed, world, keyLock, answer>>

\* 42501, or the P0002 of an update whose target is archived.
TurnAway(c) ==
    /\ call[c].stage = "sent"
    /\ NeedsTarget(c) => targetLock = {}
    /\ ~authorized \/ (IsUpdate(c) /\ target.archived)
    /\ Fail(c)

\* Mutant: the key is looked up, but neither inserted nor locked.
ClaimUnlocked(c) ==
    /\ call[c].stage = "opened"
    /\ row[call[c].key] = {}
    /\ Stage(c, "claimed")
    /\ UNCHANGED <<committed, world, locks, answer>>

\* resolve_rental_inventory_creation_replay: INSERT ... ON CONFLICT DO NOTHING
\* waits for a transaction that has inserted the key, and SELECT ... FOR UPDATE
\* for one that has locked it.  A key with no committed row is the caller's.
Claim(c) ==
    /\ call[c].stage = "opened"
    /\ keyLock[call[c].key] = {}
    /\ row[call[c].key] = {}
    /\ keyLock' = [keyLock EXCEPT ![call[c].key] = {c}]
    /\ Stage(c, "claimed")
    /\ UNCHANGED <<committed, world, targetLock, answer>>

Replay(c) ==
    /\ call[c].stage = "opened"
    /\ keyLock[call[c].key] = {}
    /\ \E o \in row[call[c].key] : o.payload = call[c].payload /\ Finish(c, Once!Told(o.result))
    /\ UNCHANGED <<committed, world>>

\* 23505: the key was used with another payload.
Conflict(c) ==
    /\ call[c].stage = "opened"
    /\ keyLock[call[c].key] = {}
    /\ \E o \in row[call[c].key] : o.payload # call[c].payload
    /\ Fail(c)

\* Mutant: the row is locked but its version is not compared.
MayChangeAnyVersion(c) == ~(call[c].key \in ArchiveKeys /\ target.archived)

\* What a command still checks once the key is its own.
MayChange(c) ==
    /\ NeedsTarget(c) => call[c].payload = target.version
    /\ ~(call[c].key \in ArchiveKeys /\ target.archived)

Refuses(c) == call[c].key \in ArchiveKeys /\ blocked

\* Mutant: the result is read after the number of the next one is drawn.
RecordNextResult(c, result) ==
    row' = [row EXCEPT ![call[c].key] = {[payload |-> call[c].payload, result |-> result + 1]}]

RecordResult(c, result) ==
    row' = [row EXCEPT ![call[c].key] = {[payload |-> call[c].payload, result |-> result]}]

\* The change, its event and record_rental_inventory_creation_replay commit
\* together.
Change(c) ==
    /\ call[c].stage = "claimed"
    /\ MayChange(c)
    /\ ~Refuses(c)
    /\ NeedsTarget(c) => target.version < MaxVersion
    /\ effects' = Append(effects, call[c].key)
    /\ target' = IF NeedsTarget(c)
                 THEN [version  |-> target.version + 1,
                       archived |-> target.archived \/ call[c].key \in ArchiveKeys]
                 ELSE target
    /\ RecordResult(c, Len(effects) + 1)
    /\ Finish(c, Once!Told(Len(effects) + 1))
    /\ UNCHANGED world

\* An archive that is refused records its refusal.
RefuseArchive(c) ==
    /\ call[c].stage = "claimed"
    /\ MayChange(c)
    /\ Refuses(c)
    /\ RecordResult(c, 0)
    /\ Finish(c, Once!Told(0))
    /\ UNCHANGED <<effects, target, world>>

\* 40001 or P0002, or the model's bound on versions: the claim is rolled back.
Reject(c) ==
    /\ call[c].stage = "claimed"
    /\ ~MayChange(c) \/ (NeedsTarget(c) /\ target.version = MaxVersion)
    /\ Fail(c)

\* The process, the connection or the database goes away before COMMIT.
Crash(c) ==
    /\ call[c].stage \in {"sent", "opened", "claimed"}
    /\ Fail(c)

\* Other people's commands.
WorldChanges ==
    /\ \/ blocked' \in BOOLEAN /\ UNCHANGED authorized
       \/ authorized' \in BOOLEAN /\ UNCHANGED blocked
    /\ UNCHANGED <<committed, locks, call, answer>>

Progress(c) ==
    \/ Open(c) \/ TurnAway(c)
    \/ Claim(c) \/ Replay(c) \/ Conflict(c)
    \/ Change(c) \/ RefuseArchive(c) \/ Reject(c)

Next ==
    \/ \E c \in Calls : Send(c) \/ Progress(c) \/ Crash(c)
    \/ WorldChanges

Spec == Init /\ [][Next]_vars

\* Row locks are granted in turn, so a call whose next step is possible again
\* and again takes it.
FairSpec == Spec /\ \A c \in Calls : SF_vars(Progress(c))

------------------------------------------------------------------------------

\* Whatever is retried, raced, lost or rolled back, a key decides once, with one
\* effect, and a call is answered for the key and the payload it was sent with.
KeepsExactlyOnce == Once!Spec

\* Every change of the target was decided on the version the one before it
\* left: the versions the committed payloads expected are all different and
\* have no gap.
ChangesBuildOnEachOther ==
    LET changes == {o \in UNION {row[k] : k \in UpdateKeys \union ArchiveKeys} : o.result > 0}
    IN  /\ {o.payload : o \in changes} = 1..(target.version - 1)
        /\ Cardinality(changes) = target.version - 1

\* No call waits for ever behind a key or a target.
EveryCallEnds == \A c \in Calls : call[c].stage = "sent" ~> call[c].stage = "ended"
=============================================================================
