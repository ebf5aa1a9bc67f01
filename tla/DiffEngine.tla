----------------------------- MODULE DiffEngine -----------------------------
(***************************************************************************)
(* diff_engine.py: the comparison of two responses of one endpoint, the    *)
(* reference a and the challenger b.                                       *)
(*                                                                         *)
(* A body is its text and its parsed JSON, flattened: a function from      *)
(* dotted keys to values.  A body that is not JSON, or is empty, has no    *)
(* keys.  Similarities are counted in hundred-thousandths.                 *)
(***************************************************************************)
EXTENDS Integers, FiniteSets, FiniteSetsExt, Functions

CONSTANTS
  Texts,       \* texts of bodies, without the absent one
  Similarity,  \* Similarity[x, y]: the ratio of x.strip() and y.strip()
  Uuids,       \* values that begin like a UUID, in lower case
  Numbers,     \* values of 1 to 12 digits
  IdKeys       \* keys with id, user, owner, account or tenant in them

None == "none"   \* no text, user, role or tenant
Whole == 100000

ASSUME SimilarityAssumption == Similarity \in [Texts \X Texts -> 0 .. Whole]

BodySimilarity(x, y) ==
  IF x = None /\ y = None THEN Whole
  ELSE IF x = None \/ y = None THEN 0
  ELSE Similarity[x, y]

\* round(s, 4)
Rounded(s) == 10 * ((s + 5) \div 10)

Ids(json) ==
  {json[k] : k \in {j \in DOMAIN json : \/ json[j] \in Uuids
                                        \/ json[j] \in Numbers /\ j \in IdKeys}}

Leaked(x, y) == DOMAIN x \cap DOMAIN y
Added(x, y) == DOMAIN y \ DOMAIN x
Removed(x, y) == DOMAIN x \ DOMAIN y
Changed(x, y) == {k \in Leaked(x, y) : x[k] # y[k]}

SameUser(a, b) == a.user = b.user
DifferentTenant(a, b) == None \notin {a.tenant, b.tenant} /\ a.tenant # b.tenant

ForeignIds(a, b) ==
  IF DifferentTenant(a, b) \/ ~SameUser(a, b) THEN Ids(a.json) \cap Ids(b.json)
                                              ELSE {}

BothOk(a, b) == a.status = 200 /\ b.status = 200
Refused(a) == a.status \in {401, 403}

\* anomaly_reason; a pair without one is no anomaly.
Reason(a, b, threshold) ==
  IF SameUser(a, b) THEN "none"
  ELSE IF BothOk(a, b) /\ BodySimilarity(a.text, b.text) >= threshold THEN "same data"
  ELSE IF ForeignIds(a, b) # {} /\ 200 \in {a.status, b.status} THEN "foreign ids"
  ELSE IF Refused(a) /\ b.status = 200 THEN "refused to A"
  ELSE "none"

CompareResponses(a, b, threshold) ==
  [a |-> a, b |-> b,
   similarity |-> Rounded(BodySimilarity(a.text, b.text)),
   leaked |-> Leaked(a.json, b.json),
   added |-> Added(a.json, b.json),
   removed |-> Removed(a.json, b.json),
   changed |-> Changed(a.json, b.json),
   foreign |-> ForeignIds(a, b),
   reason |-> Reason(a, b, threshold)]

IsAnomaly(diff) == diff.reason # "none"
=============================================================================
