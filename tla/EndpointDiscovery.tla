-------------------------- MODULE EndpointDiscovery --------------------------
(***************************************************************************)
(* endpoint_discovery.py and executor/endpoint_discovery: the endpoints of *)
(* an OpenAPI document.  The two parsers are copies of each other; the one *)
(* of the executor also resolves references.                               *)
(*                                                                         *)
(* A path is a sequence of texts, slashes and what is between them.  A     *)
(* node of the document (a request body, a parameter) says what it is:     *)
(* "object", "ref" or "junk", anything else; an absent body is "absent".   *)
(* A schema is "none", "empty", "some", or "dangling": a reference that    *)
(* leads nowhere in the document.  The keys of a document are texts; YAML  *)
(* also has others, on which parse() raises.                               *)
(***************************************************************************)
EXTENDS Integers, FiniteSets, Lists

CONSTANTS
  Upper,        \* upper() of the texts it changes
  Components,   \* what the references of the documents lead to
  ValidMethods  \* VALID_METHODS

\* These names have a length.
ASSUME MethodsAssumption == \A name \in ValidMethods \cup {"GET"} : Len(name) \in Nat

(***************************************************************************)
(* Paths                                                                   *)
(***************************************************************************)

\* lstrip("/") and rstrip("/"): from the first, up to the last text that is no
\* slash.
LStrip(path) ==
  Picked(path, {i \in DOMAIN path : \E j \in 1..i : path[j] # "/"})

RStrip(path) ==
  Picked(path, {i \in DOMAIN path : \E j \in i..Len(path) : path[j] # "/"})

\* One slash for each run of slashes.
CollapseSlashes(path) ==
  Picked(path, {i \in DOMAIN path : ~(i > 1 /\ path[i - 1] = "/" /\ path[i] = "/")})

\* Mutant: a trailing slash stays.
NormalizeKeepingTail(path) ==
  LET one == CollapseSlashes(path)
  IN IF one = <<>> \/ Head(one) # "/" THEN <<"/">> \o one ELSE one

NormalizePath(path) ==
  IF path = <<>> THEN <<"/">>
  ELSE LET one == CollapseSlashes(path)
           cut == IF Len(one) > 1 THEN RStrip(one) ELSE one
       IN IF Head(cut) # "/" THEN <<"/">> \o cut ELSE cut

(***************************************************************************)
(* One operation of the document                                           *)
(***************************************************************************)

\* A reference has none of the fields the code reads.  One that leads out of
\* the document leads to "".
Reference(to) ==
  [is |-> "ref", in |-> "", required |-> FALSE, schema |-> "none", to |-> to]

Unresolvable(node) ==
  node.is = "ref" /\ node.to # "" /\ node.to \notin DOMAIN Components

\* What it leads to may be a reference again, which is not followed.
ResolveRef(node) ==
  IF node.is = "ref" /\ node.to \in DOMAIN Components THEN Components[node.to]
  ELSE node

CheckAuth(details, document) ==
  IF details.security = "absent" THEN document.security = "some"
  ELSE details.security = "some"

\* The first parameter that is a body, or that is no object and raises.
BodyParam(params) ==
  SelectInSeq(params.list, LAMBDA p : p.is = "junk" \/ p.in = "body")

\* A body that is no object raises, and so does a list of parameters that is
\* none, or has something in it that is none, when it is looked through.
ExtractBodySchema(method, body, params) ==
  LET looked == body.schema \in {"none", "empty"}
      found == looked /\ BodyParam(params) # 0
      source == IF found THEN params.list[BodyParam(params)] ELSE body
  IN [raises |-> \/ body.is = "junk"
                 \/ looked /\ params.is = "junk"
                 \/ source.is = "junk",
      schema |-> IF source.schema = "none" /\ method \in {"POST", "PUT", "PATCH"}
                 THEN "empty" ELSE source.schema,
      required |-> source.required]

\* The parameters that are objects, with a string schema by default.
ProcessParameters(params) ==
  LET objects == SelectSeq(params.list, LAMBDA p : p.is # "junk")
  IN [i \in DOMAIN objects |->
        [objects[i] EXCEPT !.schema = IF @ = "none" THEN "string" ELSE @]]

(***************************************************************************)
(* The document                                                            *)
(***************************************************************************)

\* Whether there is anything for the loops of parse().
HasPaths(document) == document.is # "empty" /\ document.has = "object"

\* Of two texts that follow each other one is a slash.
Alternates(path) ==
  \A i \in 1..(Len(path) - 1) : "/" \in {path[i], path[i + 1]}

\* A document as the code can have it: keys and items in an order.
IsDocument(document) ==
  /\ document.is # "empty" => document.has \in {"none", "junk", "object"}
  /\ HasPaths(document) =>
       /\ IsSequence(document.paths)
       /\ \A i \in DOMAIN document.paths :
            LET entry == document.paths[i]
            IN entry.is # "junk" =>
                 /\ IsSequence(entry.path) /\ Alternates(entry.path)
                 /\ IsSequence(entry.operations)
                 /\ \A j \in DOMAIN entry.operations :
                      LET details == entry.operations[j].details
                      IN details.is # "junk" => IsSequence(details.parameters.list)

\* Schemas that count as true.
Filled == {"some", "dangling"}

UpperMethod(name) == IF name \in DOMAIN Upper THEN Upper[name] ELSE name

\* What the loops of parse() come to, in order: the operations, and in place
\* of the operations of a path that has no object, nothing but the path.
Visits(document) ==
  FlattenSeq([i \in DOMAIN document.paths |->
    LET entry == document.paths[i]
    IN IF entry.is = "junk" THEN <<[is |-> "path", path |-> entry.path]>>
       ELSE [j \in DOMAIN entry.operations |->
               [is |-> "operation", path |-> entry.path,
                method |-> entry.operations[j].method,
                details |-> entry.operations[j].details]]])

\* The parameters _extract_body_schema looks at.
LookedAt(body, params) ==
  IF body.schema \in Filled THEN <<>>
  ELSE IF BodyParam(params) = 0 THEN params.list
  ELSE SubSeq(params.list, 1, BodyParam(params))

\* Only the parser of the executor follows references.  It notes the ones it
\* cannot resolve each time it meets them.
Endpoint(visit, document, resolves) ==
  LET d == visit.details
      seen(node) == IF resolves THEN ResolveRef(node) ELSE node
      params == [is |-> d.parameters.is,
                 list |-> [i \in DOMAIN d.parameters.list |-> seen(d.parameters.list[i])]]
      method == UpperMethod(visit.method)
      body == ExtractBodySchema(method, seen(d.body), params)
      met == <<d.body>> \o LookedAt(seen(d.body), params) \o d.parameters.list
      lost == Picked(met, {i \in DOMAIN met : resolves /\ Unresolvable(met[i])})
      lostSchema == IF resolves /\ body.schema = "dangling" THEN <<"unresolved">> ELSE <<>>
  IN [raises |-> body.raises, method |-> method, path |-> NormalizePath(visit.path),
      required |-> body.required, schema |-> body.schema,
      auth |-> CheckAuth(d, document), parameters |-> ProcessParameters(params),
      notes |-> [i \in DOMAIN lost |-> "unresolved"] \o lostSchema]

Note(result, kind) == [result EXCEPT !.errors = Append(@, kind)]

Add(result, e) ==
  [result EXCEPT !.endpoints = Append(@, e), !.errors = @ \o e.notes,
                 !.seen = @ \cup {<<e.method, e.path>>}]

\* Mutant: a duplicate is left out without a note.
VisitSilently(result, visit, document, resolves) ==
  IF result.raised THEN result
  ELSE IF visit.is = "path" THEN Note(result, "invalid path")
  ELSE IF UpperMethod(visit.method) \notin ValidMethods THEN Note(result, "invalid method")
  ELSE IF visit.details.is = "junk" THEN Note(result, "invalid details")
  ELSE LET e == Endpoint(visit, document, resolves)
       IN IF <<e.method, e.path>> \in result.seen THEN result
          ELSE IF e.raises THEN [result EXCEPT !.raised = TRUE]
          ELSE Add(result, e)

Visit(result, visit, document, resolves) ==
  IF result.raised THEN result
  ELSE IF visit.is = "path" THEN Note(result, "invalid path")
  ELSE IF UpperMethod(visit.method) \notin ValidMethods THEN Note(result, "invalid method")
  ELSE IF visit.details.is = "junk" THEN Note(result, "invalid details")
  ELSE LET e == Endpoint(visit, document, resolves)
           noted == IF visit.details.responses THEN result
                    ELSE Note(result, "missing responses")
       IN IF <<e.method, e.path>> \in result.seen THEN Note(result, "duplicate")
          ELSE IF e.raises THEN [noted EXCEPT !.raised = TRUE]
          ELSE Add(noted, e)

\* A parser with nothing to parse and what went wrong before.
NoResult(errors) ==
  [raised |-> FALSE, endpoints |-> <<>>, errors |-> errors, seen |-> {}]

Parse(document, resolves) ==
  IF document.is = "empty" THEN NoResult(<<>>)
  ELSE IF document.has = "none" THEN NoResult(<<"missing paths">>)
  ELSE IF document.has = "junk" THEN NoResult(<<"invalid paths">>)
  ELSE LET visits == Visits(document)
           after[n \in 0..Len(visits)] ==
             IF n = 0 THEN NoResult(<<>>)
             ELSE Visit(after[n - 1], visits[n], document, resolves)
       IN after[Len(visits)]
=============================================================================
