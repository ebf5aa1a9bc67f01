-------------------------- MODULE ResultCollectorMC --------------------------
(***************************************************************************)
(* Small instances of ResultCollector for TLC: bodies, responses, bounds.  *)
(***************************************************************************)
EXTENDS ResultCollector, TLC

\* An object of user 1, the same with a secret, the object of another user
\* with the first one's id in it, and an object that has nothing in common.
Texts4 == {"own", "more", "mixed", "far"}
Alike ==
  [p \in Texts4 \X Texts4 |->
     IF p[1] = p[2] THEN 100000
     ELSE IF {p[1], p[2]} = {"own", "more"} THEN 75000
     ELSE IF {p[1], p[2]} = {"own", "mixed"} THEN 64996
     ELSE 20000]

Json(text) ==
  CASE text = "own" -> ("id" :> "42" @@ "name" :> "n1")
    [] text = "more" -> ("id" :> "42" @@ "name" :> "n1" @@ "secret" :> "s")
    [] text = "mixed" -> ("id" :> "7" @@ "owner" :> "42" @@ "email" :> "e")
    [] OTHER -> [k \in {} |-> None]

Response(at, endpoint, status, user, role, tenant, tampered, text) ==
  [at |-> at, method |-> "GET", endpoint |-> endpoint, status |-> status,
   user |-> user, role |-> role, tenant |-> tenant, tampered |-> tampered,
   text |-> text, json |-> Json(text)]

\* One endpoint with two reference responses, one without any.
TwoEndpoints ==
  {Response(1, "/x", 200, "u1", "admin", "t1", FALSE, "own"),
   Response(2, "/x", 403, "u2", "admin", "t2", FALSE, "far"),
   Response(3, "/x", 200, "u2", "user", "t2", FALSE, "more"),
   Response(4, "/x", 200, "u3", "guest", None, TRUE, "mixed"),
   Response(5, "/y", 403, "u2", "user", "t2", FALSE, None),
   Response(6, "/y", 200, "u3", "manager", "t1", FALSE, "far")}
=============================================================================
