-------------------------------- MODULE Checks --------------------------------
(* The checks an `auth` is made of (src/authoring/authorization.ts), and    *)
(* what they say of a holder of a token: requireScopes, requireRoles, a     *)
(* check of the host's, and allOf and anyOf of other checks.                *)
EXTENDS Naturals, Sequences

CONSTANT Absent

(* A verdict names the scopes that are missing, if the shortfall is one of  *)
(* scopes; otherwise it is opaque.  A check may also throw.                 *)
Allowed == [allowed |-> TRUE, missing |-> {}, threw |-> FALSE]
Denied(scopes) == [allowed |-> FALSE, missing |-> scopes, threw |-> FALSE]
Threw == [allowed |-> FALSE, missing |-> {}, threw |-> TRUE]

(* What a single check says of a holder: requireScopes, requireRoles (whose *)
(* extraction may throw, and is caught), and a check of the host's.         *)
Single(check, holder) ==
  CASE check.op = "scopes" ->
         IF check.scopes \subseteq holder.scopes THEN Allowed
         ELSE Denied(check.scopes \ holder.scopes)
    [] check.op = "roles" ->
         IF holder.roles # Absent /\ check.roles \subseteq holder.roles THEN Allowed ELSE Denied({})
    [] check.op = "policy" ->
         CASE holder.policy = "yes" -> Allowed
           [] holder.policy = "no" -> Denied({})
           [] holder.policy = "throws" -> Threw

(* allOf: shortfalls of scopes add up, until a check fails otherwise.       *)
AllOf(verdicts) ==
  LET failed == {i \in DOMAIN verdicts : ~verdicts[i].allowed}
      opaque == {i \in failed : verdicts[i].missing = {}}
      run == {i \in failed : \A j \in opaque : i <= j}
  IN CASE failed = {} -> Allowed
       [] \E i \in run : verdicts[i].threw -> Threw
       [] OTHER -> Denied(UNION {verdicts[i].missing : i \in run})

(* anyOf: the first that passes settles it; of none, the first is reported. *)
AnyOf(verdicts) ==
  LET ends == {i \in DOMAIN verdicts : verdicts[i].allowed \/ verdicts[i].threw} IN
  CASE verdicts = <<>> -> Allowed
    [] ends # {} -> verdicts[CHOOSE i \in ends : \A j \in ends : i <= j]
    [] OTHER -> verdicts[1]

RECURSIVE Verdict(_, _)
Verdict(check, holder) ==
  LET verdicts == [i \in DOMAIN check.of |-> Verdict(check.of[i], holder)] IN
  CASE check.op = "allOf" -> AllOf(verdicts)
    [] check.op = "anyOf" -> AnyOf(verdicts)
    [] OTHER -> Single(check, holder)

-----------------------------------------------------------------------------
(* allOf, anyOf: a token with the scopes that a failure asked for is not    *)
(* asked for scopes again.                                                  *)
StepUpSuffices(check, holder) ==
  LET first == Verdict(check, holder)
      again == Verdict(check, [holder EXCEPT !.scopes = @ \cup first.missing])
  IN first.missing # {} => again.allowed \/ again.missing = {}

(* "requirements behind a gate the request did not pass are never           *)
(* disclosed" (authorization.ts:59): what comes after a check that fails    *)
(* whatever the scopes does not change which scopes are asked for.          *)
GateDisclosesNothing(checks, holder, scopes) ==
  LET all(list) == [op |-> "allOf", of |-> list] IN
  \A i \in DOMAIN checks :
    (\A held \in SUBSET scopes : ~Verdict(checks[i], [holder EXCEPT !.scopes = held]).allowed)
      => Verdict(all(checks), holder).missing = Verdict(all(SubSeq(checks, 1, i)), holder).missing
=============================================================================
