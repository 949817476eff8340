-------------------------- MODULE FailureInjection --------------------------
(***************************************************************************)
(* Configured failures: rules in the memory of each process, which count   *)
(* down when they make a call fail and expire with time.                   *)
(***************************************************************************)
EXTENDS Naturals

CONSTANTS
  Processes,
  Points  \* keys of rules: EVENT:<type> and SAGA:<step>

VARIABLE rules

NoRule == [failCount |-> 0, expiresAt |-> "never"]

Rule == [failCount : Nat, expiresAt : {"never", "ahead", "passed"}]

Empty == [key \in Points |-> NoRule]

Init == rules = [p \in Processes |-> Empty]

TypeOK == rules \in [Processes -> [Points -> Rule]]

Expired(rule) == rule.expiresAt = "passed"

(* A route sets a rule and lists them all, which purges the expired ones. *)
SetRule(p, key, failCount, expiresAt) ==
  rules' = [rules EXCEPT ![p] =
    [k \in Points |->
      CASE k = key -> IF failCount = 0 THEN NoRule
                      ELSE [failCount |-> failCount, expiresAt |-> expiresAt]
        [] k # key /\ Expired(@[k]) -> NoRule
        [] OTHER -> @[k]]]

Expire(p, key) ==
  /\ rules[p][key].expiresAt = "ahead"
  /\ rules' = [rules EXCEPT ![p][key].expiresAt = "passed"]

Configured(p, key) ==
  key \in Points /\ rules[p][key].failCount > 0 /\ ~Expired(rules[p][key])

CountDown(rule) ==
  IF rule.failCount = 1 THEN NoRule ELSE [rule EXCEPT !.failCount = @ - 1]

(* throwIfConfigured throws ... *)
Throws(p, key) ==
  /\ Configured(p, key)
  /\ rules' = [rules EXCEPT ![p][key] = CountDown(@)]

(* ... or returns, and drops an expired rule. *)
Passes(p, key) ==
  /\ ~Configured(p, key)
  /\ rules' = [rules EXCEPT ![p] = [k \in Points |-> IF k = key THEN NoRule ELSE @[k]]]
=============================================================================
