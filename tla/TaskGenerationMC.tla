-------------------------- MODULE TaskGenerationMC --------------------------
(***************************************************************************)
(* Small instances of TaskGeneration for TLC: documents, answers of the    *)
(* web, requests.                                                          *)
(***************************************************************************)
EXTENDS TaskGeneration

Keys == <<"Authorization", "X-Tenant-ID", "X-User-Role", "Content-Type", "user_id",
          "q", "file", "role", "api_key", "note", "isAdmin", "dummy">>

WordsOfKeys ==
  [k \in ToSet(Keys) |->
     CASE k = "Authorization" -> {"authorization"}
       [] k = "X-Tenant-ID" -> {"id", "tenant"}
       [] k = "X-User-Role" -> {"user", "role", "x-user-role"}
       [] k = "Content-Type" -> {"type"}
       [] k = "user_id" -> {"id", "user"}
       [] k = "q" -> {"q"}
       [] k = "file" -> {"file"}
       [] k \in {"role", "isAdmin"} -> {"role"}
       [] k = "api_key" -> {"key"}
       [] OTHER -> {}]

Numbers ==
  [t \in {"0", "1", "2", "42", "", "<null>", "<array>"} |->
     CASE t = "1" -> 1 [] t = "2" -> 2 [] t = "42" -> 42 [] OTHER -> 0]

HeaderDigits == [t \in {"company-2"} |-> [before |-> "company-", after |-> "", number |-> 2]]

TypeOf ==
  [t \in {"value", "<true>", "<null>", "<array>", "<object>"} |->
     CASE t = "value" -> "string" [] t = "<true>" -> "boolean" [] OTHER -> "object"]

UpperTexts ==
  [t \in {"get", "Get", "post"} |-> IF t = "post" THEN "POST" ELSE "GET"]
PathCapitals == [t \in {"v", "users", "tenants", "http:", "host"} |-> t \o "^"]
Said == [t \in {"tenants"} |-> {"tenant"}]

ExtensionList == <<".json", ".bak">>
Junk == <<";admin", "%00">>
UpAndOver == <<"/../", "/../admin">>

(***************************************************************************)
(* Documents                                                               *)
(***************************************************************************)

Plain(is, in, required, schema) ==
  [is |-> is, in |-> in, required |-> required, schema |-> schema, to |-> ""]
NoBody == Plain("absent", "", FALSE, "none")
Query == Plain("object", "query", FALSE, "none")
BodyField == Plain("object", "body", TRUE, "some")
NotAnObject == Plain("junk", "", FALSE, "none")

Resolved == ("#/b" :> BodyField) @@ ("#/q" :> Query) @@ ("#/bad" :> NotAnObject)

Details(is, responses, security, body, list) ==
  [is |-> is, responses |-> responses, security |-> security, body |-> body,
   parameters |-> [is |-> "list", list |-> list]]

Full == Details("object", TRUE, "absent", NoBody, <<Query>>)
Terse == Details("object", FALSE, "none", NoBody, <<Reference("#/none"), Reference("")>>)
Swagger == Details("object", TRUE, "some", NoBody, <<Reference("#/q"), Reference("#/b")>>)
Version3 == Details("object", TRUE, "some",
                    Plain("object", "", TRUE, "some"), <<Query, NotAnObject>>)
Dangling == Details("object", TRUE, "absent",
                    Plain("object", "", TRUE, "dangling"), <<Reference("#/q")>>)
Broken == Details("object", TRUE, "absent", NoBody, <<Query, Reference("#/bad")>>)
Missing == Details("junk", FALSE, "absent", NoBody, <<>>)

Unlisted == [Full EXCEPT !.parameters = [is |-> "junk", list |-> <<>>]]

Op(method, details) == [method |-> method, details |-> details]

OperationLists ==
  {<<Op("get", Full)>>, <<Op("Get", Terse), Op("GET", Full)>>, <<Op("post", Swagger)>>,
   <<Op("fetch", Full), Op("get", Missing)>>, <<Op("post", Version3)>>, <<Op("post", Dangling)>>,
   <<Op("get", Broken)>>, <<Op("get", Unlisted)>>}

RawPaths ==
  {<<"/", "users">>, <<"users", "/", "/">>, <<"/", "users", "/", "42">>, <<>>}

Entry(path, operations) == [is |-> "object", path |-> path, operations |-> operations]

Document(paths) ==
  [is |-> "object", has |-> "object", security |-> "some", paths |-> paths]

TwoPaths ==
  {Document(<<Entry(p, a), Entry(q, b)>>) :
     p \in RawPaths, q \in {<<"/", "users">>, <<"/", "/">>}, a, b \in OperationLists}

Odd ==
  {[is |-> "empty"], [is |-> "object", has |-> "none"], [is |-> "object", has |-> "junk"],
   Document(<<>>), Document(<<[is |-> "junk", path |-> <<"/", "users">>]>>)}

Answer(d) == [error |-> "", document |-> d]
Failures == {[error |-> e, document |-> Nothing] :
               e \in {"not fetched", "not parsed", "not an object"}}

Good == Answer(Document(<<Entry(<<"users">>, <<Op("get", Full)>>)>>))
Another == Answer(Document(<<Entry(<<"users", "/", "42">>, <<Op("post", Full)>>)>>))
Bad == Answer(Document(<<Entry(<<"users">>, <<Op("get", Broken)>>)>>))
Useless == Answer(Document(<<Entry(<<"users">>, <<Op("fetch", Full)>>)>>))

(***************************************************************************)
(* Sources                                                                 *)
(***************************************************************************)

Base == <<"http:", "/", "/", "host", "/">>

Texts == {[kind |-> "text", answer |-> a, base |-> b] :
            a \in Failures \cup {Answer(d) : d \in Odd \cup TwoPaths}, b \in {Base, <<>>}}

Scripts == {[kind |-> "script", answer |-> a] :
              a \in Failures \cup {Answer(d) : d \in Odd \cup TwoPaths}}

Urls ==
  {[kind |-> "url", url |-> u, path |-> p, host |-> <<"http:", "/", "/", "host">>,
    base |-> Base, candidates |-> <<"swagger.json", "docs", "swagger.json", "docs">>,
    web |-> (u :> a) @@ ("swagger.json" :> b) @@ ("docs" :> c)] :
     u \in {"root", "api.json"}, p \in {<<>>, <<"/", "/", "users", "/">>},
     a \in Failures \cup {Good, Bad, Useless} \cup {Answer(d) : d \in Odd},
     b, c \in {Good, Another, Bad, Useless, [error |-> "not fetched", document |-> Nothing]}}

Headers ==
  {None,
   ("Authorization" :> "Bearer x") @@ ("X-Tenant-ID" :> "company-2")
     @@ ("X-User-Role" :> "user") @@ ("Content-Type" :> "application/json")}
Params ==
  {None, ("user_id" :> "42") @@ ("q" :> "word"),
   ("file" :> "f") @@ ("role" :> "0") @@ ("api_key" :> "1") @@ ("note" :> "")}
Bodies == {None, ("dummy" :> "value"), ("note" :> "<null>") @@ ("isAdmin" :> "<array>")}
Paths ==
  {<<>>, <<"/", "v", "1", "/", "users", "/", "42", "/", "users", "/", "1">>,
   <<"/", "v", "2", "/", "tenants">>, <<"/", "users", "/", "42", "/", "users", "/", "1">>}

Requests ==
  {[kind |-> "request",
    request |-> [method |-> m, path |-> p, params |-> q, headers |-> h, body |-> b]] :
     m \in {"", "GET"}, p \in Paths, q \in Params, h \in Headers, b \in Bodies}

AllSources == Texts \cup Scripts \cup Urls \cup Requests
=============================================================================
