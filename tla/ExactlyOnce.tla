----------------------------- MODULE ExactlyOnce -----------------------------
(***************************************************************************)
(* What an idempotency key promises (PROP-014): the first request that     *)
(* gets through under a key decides its outcome, once, together with its   *)
(* effect; every later answer under that key and payload is that outcome.  *)
(***************************************************************************)
EXTENDS Naturals, Sequences

CONSTANTS Keys, Payloads, Calls

VARIABLES
    asked,      \* for each call, the key and payload it was sent with, if it was
    outcome,    \* for each key, the payloads and results decided: at most one
    effects,    \* the business mutations, in the order they were committed
    answer      \* what each call was told

\* A result is the number of the effect it reports, or 0 for "refused, and the
\* refusal is remembered".
NoAnswer == [told |-> "nothing", result |-> 0]
Denied == [told |-> "error", result |-> 0]
Told(result) == [told |-> "result", result |-> result]

Init ==
    /\ asked = [c \in Calls |-> {}]
    /\ outcome = [k \in Keys |-> {}]
    /\ effects = <<>>
    /\ answer = [c \in Calls |-> NoAnswer]

Ask(c, k, p) ==
    /\ asked[c] = {}
    /\ asked' = [asked EXCEPT ![c] = {[key |-> k, payload |-> p]}]
    /\ UNCHANGED <<outcome, effects, answer>>

\* The deciding request is told the outcome by the commit that decides it.
Decide(c, k, p) ==
    /\ outcome[k] = {}
    /\ \E refused \in BOOLEAN :
          LET result == IF refused THEN 0 ELSE Len(effects) + 1 IN
          /\ effects' = IF refused THEN effects ELSE Append(effects, k)
          /\ outcome' = [outcome EXCEPT ![k] = {[payload |-> p, result |-> result]}]
          /\ answer' = [answer EXCEPT ![c] = Told(result)]
    /\ UNCHANGED asked

Replay(c, k, p) ==
    /\ \E o \in outcome[k] : o.payload = p /\ answer' = [answer EXCEPT ![c] = Told(o.result)]
    /\ UNCHANGED <<asked, outcome, effects>>

Fail(c) ==
    /\ answer' = [answer EXCEPT ![c] = Denied]
    /\ UNCHANGED <<asked, outcome, effects>>

Next ==
    \E c \in Calls :
        \/ \E k \in Keys, p \in Payloads : Ask(c, k, p)
        \/ /\ answer[c] = NoAnswer
           /\ \E a \in asked[c] :
                 Fail(c) \/ Decide(c, a.key, a.payload) \/ Replay(c, a.key, a.payload)

Spec == Init /\ [][Next]_<<asked, outcome, effects, answer>>
==============================================================================
