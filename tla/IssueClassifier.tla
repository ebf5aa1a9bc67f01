--------------------------- MODULE IssueClassifier ---------------------------
(***************************************************************************)
(* issue_classifier.py: which issues an anomalous pair of responses is     *)
(* reported as, and how severe they are.  Texts of an issue that depend on *)
(* its type and its pair only are left out.                                *)
(***************************************************************************)
EXTENDS DiffEngine, Lists

CONSTANTS
  PiiKeys,        \* keys with email, phone, ssn, ... in them
  SensitiveKeys,  \* keys with token, secret, key, ... in them
  AdminEndpoints  \* endpoints with admin, manage, config, ... in them

IssueTypes == {"JWT_BYPASS", "TENANT_LEAK", "BOLA", "BFLA", "PRIV_ESCALATION",
               "INFO_DISCLOSURE"}

Severities == <<"CRITICAL", "HIGH", "MEDIUM", "LOW", "INFO">>

\* role_hierarchy; any other role ranks as a user.
Rank(role) ==
  CASE role = "admin" -> 3 [] role = "manager" -> 2 [] role = "guest" -> 0
    [] OTHER -> 1

BolaSeverity(diff) ==
  IF diff.leaked \cap PiiKeys # {} \/ diff.similarity >= 90000 THEN "CRITICAL"
  ELSE IF diff.similarity >= 70000 \/ Cardinality(diff.leaked) >= 5 THEN "HIGH"
  ELSE "MEDIUM"

BflaSeverity(diff) ==
  LET destructive == diff.a.method \in {"DELETE", "PUT", "PATCH"}
      admin == diff.a.endpoint \in AdminEndpoints
  IN IF destructive /\ admin THEN "CRITICAL"
     ELSE IF destructive \/ admin THEN "HIGH"
     ELSE "MEDIUM"

\* Mutant: only 401 counts as a refusal.
IsBflaAfter401(a, b) == a.status = 401 /\ b.status = 200

IsBfla(a, b) == Refused(a) /\ b.status = 200

\* The trigger of each checker.
Triggers(type, diff) ==
  LET a == diff.a  b == diff.b IN
  CASE type = "JWT_BYPASS" -> b.status = 200 /\ b.tampered
    [] type = "TENANT_LEAK" ->
         diff.foreign # {} /\ ~(a.tenant # None /\ a.tenant = b.tenant)
    [] type = "BOLA" -> BothOk(a, b) /\ diff.similarity >= 65000 /\ ~SameUser(a, b)
    [] type = "BFLA" -> IsBfla(a, b)
    [] type = "PRIV_ESCALATION" ->
         BothOk(a, b) /\ Rank(b.role) < Rank(a.role) /\ diff.similarity >= 50000
    [] type = "INFO_DISCLOSURE" -> diff.added \cap SensitiveKeys # {}

\* Mutant: what is disclosed is only noted.
SeverityNoted(type, diff) ==
  CASE type \in {"JWT_BYPASS", "TENANT_LEAK"} -> "CRITICAL"
    [] type = "BOLA" -> BolaSeverity(diff)
    [] type = "BFLA" -> BflaSeverity(diff)
    [] type = "PRIV_ESCALATION" -> "HIGH"
    [] type = "INFO_DISCLOSURE" -> "INFO"

Severity(type, diff) ==
  CASE type \in {"JWT_BYPASS", "TENANT_LEAK"} -> "CRITICAL"
    [] type = "BOLA" -> BolaSeverity(diff)
    [] type = "BFLA" -> BflaSeverity(diff)
    [] type = "PRIV_ESCALATION" -> "HIGH"
    [] type = "INFO_DISCLOSURE" -> "MEDIUM"

Issue(type, diff) ==
  [type |-> type, severity |-> Severity(type, diff), diff |-> diff]

Checkers == <<"JWT_BYPASS", "TENANT_LEAK", "BOLA", "BFLA", "PRIV_ESCALATION",
              "INFO_DISCLOSURE">>

ClassifyDiff(diff) ==
  LET fired == Picked(Checkers, {n \in DOMAIN Checkers : Triggers(Checkers[n], diff)})
  IN IF ~IsAnomaly(diff) THEN <<>>
     ELSE [i \in DOMAIN fired |-> Issue(fired[i], diff)]
=============================================================================
