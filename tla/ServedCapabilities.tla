-------------------------- MODULE ServedCapabilities --------------------------
(* What the definition of a server is made of (src/authoring): capabilities *)
(* and what tells them apart, the rules that make them visible, and where   *)
(* the auth of one is asked: when a server is built, and when it is called. *)
EXTENDS Naturals, Sequences

CONSTANTS
    Absent,
    Says(_, _)       \* the verdict of a check on the holder of a token (Checks)

(* The names under which a capability is found.                             *)
Keys(capability) ==
  {<<capability.kind, capability.name>>} \cup
    IF capability.kind = "tool" THEN {} ELSE {<<capability.kind, capability.uri>>}

(* assertUniqueCapabilities                                                 *)
Unique(capabilities) ==
  \A i, j \in DOMAIN capabilities :
    i # j => Keys(capabilities[i]) \cap Keys(capabilities[j]) = {}

Selects(rule, capability) ==
  /\ rule.names # Absent => capability.name \in rule.names
  /\ rule.kinds # Absent => capability.kind \in rule.kinds
  /\ rule.tags # Absent => rule.tags \cap capability.tags # {}

(* applyVisibility: the last rule that matches wins.                        *)
Visible(capability, rules) ==
  LET hits == {i \in DOMAIN rules : Selects(rules[i], capability)} IN
  hits = {} \/ rules[CHOOSE i \in hits : \A j \in hits : i >= j].enabled

-----------------------------------------------------------------------------
(* evaluateAuth: admits a request to a capability when a server is built.   *)
EvaluateAuth(auth, holder) ==
  IF holder = Absent THEN auth.anonymous = "allow" ELSE Says(auth.check, holder).allowed

(* enforce: admits a call, or says which scopes would help.                 *)
Enforce(check, anonymous, holder) ==
  IF holder = Absent THEN [allowed |-> anonymous = "allow", missing |-> {}, threw |-> FALSE]
  ELSE Says(check, holder)
=============================================================================
