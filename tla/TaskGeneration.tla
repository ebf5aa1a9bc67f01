--------------------------- MODULE TaskGeneration ---------------------------
(***************************************************************************)
(* executor/integration: tasks made of an OpenAPI document, and fuzzing    *)
(* tasks made of the endpoints found in it.  DiscoveryBridge looks for the *)
(* document and makes a task of each endpoint; MutationBridge hands the    *)
(* endpoints to the mutation engine and makes a task of each mutation.     *)
(***************************************************************************)
EXTENDS EndpointDiscovery, MutationEngine

CONSTANTS
  Sources,   \* what the bridges, the script and the engine are called with
  Hinting    \* URLs with "json" or "paths" in them

\* What is loaded is an error and no document, or a document.
IsAnswer(answer) ==
  IsDocument(answer.document) /\ (answer.error # "" => answer.document.is = "empty")

ASSUME SourcesAssumption ==
  \A s \in Sources :
    \/ /\ s.kind = "url"
       /\ IsSequence(s.base) /\ IsSequence(s.host) /\ IsSequence(s.path)
       /\ IsSequence(s.candidates)
       /\ \A url \in {s.url} \cup ToSet(s.candidates) : IsAnswer(s.web[url])
    \/ s.kind = "text" /\ IsSequence(s.base) /\ IsAnswer(s.answer)
    \/ s.kind = "script" /\ IsAnswer(s.answer)
    \/ /\ s.kind = "request"
       /\ IsSequence(s.request.path) /\ Len(s.request.method) \in Nat

VARIABLES
  source,    \* the arguments of the call, and what the outside answers
  stage,     \* how far it is
  left,      \* fallback URLs still to be probed
  document,  \* what the parser at hand has parsed
  result,    \* and found
  base,      \* base_url
  tasks,     \* of the discovery bridge
  mutations, \* of each request, as printed; none of one that was left out
  fuzz       \* of the mutation bridge

vars == <<source, stage, left, document, result, base, tasks, mutations, fuzz>>

Nothing == [is |-> "empty"]

Init ==
  /\ source \in Sources
  /\ stage = "load"
  /\ left = <<>>
  /\ document = Nothing
  /\ result = NoResult(<<>>)
  /\ base = <<>>
  /\ tasks = <<>>
  /\ mutations = <<>>
  /\ fuzz = <<>>

(***************************************************************************)
(* Discovery                                                               *)
(***************************************************************************)

\* What a file or a URL gives: an error, or a document.
Loaded(answer) ==
  IF answer.error # "" THEN NoResult(<<answer.error>>)
  ELSE Parse(answer.document, TRUE)

\* Whether the errors mention paths or JSON.  That a URL cannot be fetched is
\* noted with the URL.  Other notes quote paths of the document; that these have
\* none of the words in them is assumed.
Hinted(url, errors) ==
  \/ ToSet(errors) \cap {"not parsed", "not an object", "missing paths", "invalid paths"} # {}
  \/ "not fetched" \in ToSet(errors) /\ url \in Hinting

\* The fallback URLs, each once.
UniquePaths(urls) ==
  Picked(urls, {i \in DOMAIN urls : \A j \in 1..(i - 1) : urls[j] # urls[i]})

Parsed(answer) ==
  /\ document' = answer.document
  /\ result' = Loaded(answer)

\* The given URL.  An exception of parse() is not caught here.
LoadUrl ==
  /\ stage = "load" /\ source.kind = "url"
  /\ Parsed(source.web[source.url])
  /\ base' = source.base
  /\ IF result'.raised THEN stage' = "raised" /\ left' = <<>>
     ELSE IF result'.endpoints # <<>> THEN stage' = "build" /\ left' = <<>>
     ELSE /\ stage' = "probe"
          /\ left' = IF Hinted(source.url, result'.errors)
                     THEN UniquePaths(source.candidates) ELSE <<>>
  /\ UNCHANGED <<source, tasks, mutations, fuzz>>

\* Mutant: probing goes on after a document with endpoints.
ProbeAll ==
  /\ stage = "probe" /\ left # <<>>
  /\ LET found == Loaded(source.web[Head(left)])
     IN /\ IF ~found.raised /\ found.endpoints # <<>>
           THEN Parsed(source.web[Head(left)])
           ELSE UNCHANGED <<document, result>>
        /\ left' = Tail(left)
        /\ stage' = IF left' = <<>> /\ result'.endpoints # <<>> THEN "build" ELSE "probe"
  /\ UNCHANGED <<source, base, tasks, mutations, fuzz>>

\* A fallback URL.  An exception moves on to the next one.
Probe ==
  /\ stage = "probe" /\ left # <<>>
  /\ LET found == Loaded(source.web[Head(left)])
     IN IF ~found.raised /\ found.endpoints # <<>>
        THEN /\ Parsed(source.web[Head(left)])
             /\ stage' = "build" /\ left' = <<>>
        ELSE /\ left' = Tail(left)
             /\ UNCHANGED <<stage, document, result>>
  /\ UNCHANGED <<source, base, tasks, mutations, fuzz>>

\* The path of the URL as the only endpoint, at the host of the URL.
SingleEndpoint ==
  /\ stage = "probe" /\ left = <<>>
  /\ result' = [result EXCEPT !.endpoints =
       <<[raises |-> FALSE, method |-> "GET",
          path |-> IF source.path = <<>> THEN <<"/">> ELSE source.path,
          required |-> FALSE, schema |-> "none", auth |-> FALSE,
          parameters |-> <<>>, notes |-> <<>>]>>]
  /\ base' = source.host
  /\ stage' = "build"
  /\ UNCHANGED <<source, left, document, tasks, mutations, fuzz>>

\* A document given as text, or the file of that name.
LoadText ==
  /\ stage = "load" /\ source.kind = "text"
  /\ Parsed(source.answer)
  /\ base' = source.base
  /\ stage' = IF result'.raised THEN "raised" ELSE "build"
  /\ UNCHANGED <<source, left, tasks, mutations, fuzz>>

TargetUrl(at, path) ==
  IF at = <<>> THEN path ELSE RStrip(at) \o <<"/">> \o LStrip(path)

Task(e, at) ==
  LET payload == e.required /\ e.schema \in Filled
  IN [method |-> e.method, url |-> TargetUrl(at, e.path), payload |-> payload,
      contentType |-> payload, retries |-> 3]

\* ValueError when there are errors and no endpoints.
GenerateTasks ==
  /\ stage = "build"
  /\ IF result.endpoints = <<>> /\ result.errors # <<>>
     THEN stage' = "raised" /\ UNCHANGED tasks
     ELSE /\ stage' = "generated"
          /\ tasks' = [i \in DOMAIN result.endpoints |-> Task(result.endpoints[i], base)]
  /\ UNCHANGED <<source, left, document, result, base, mutations, fuzz>>

\* discover_and_save: the script's parser on a file.  It takes anything but an
\* object for an empty document.
DiscoverAndSave ==
  /\ stage = "load" /\ source.kind = "script"
  /\ document' = source.answer.document
  /\ result' = IF source.answer.error \in {"", "not an object"}
               THEN Parse(source.answer.document, FALSE)
               ELSE NoResult(<<source.answer.error>>)
  /\ stage' = IF result'.raised THEN "raised" ELSE "saved"
  /\ UNCHANGED <<source, left, base, tasks, mutations, fuzz>>

(***************************************************************************)
(* Mutation                                                                *)
(***************************************************************************)

Request(e, at) ==
  [method |-> e.method, path |-> TargetUrl(at, e.path), params |-> None,
   headers |-> [h \in {"Content-Type"} |-> "application/json"],
   body |-> IF e.required THEN [k \in {"dummy"} |-> "value"] ELSE None]

Raises(request) == TypeConfusionRaises(request.body)

\* External: node with cli.js, run once on all requests.  It ends with an error,
\* or prints results of requests on which the engine does not raise; what it
\* prints may leave requests out.
Answerable(requests) == {i \in DOMAIN requests : ~Raises(requests[i])}

Printed(requests, answered) ==
  [i \in DOMAIN requests |-> IF i \in answered THEN Mutate(requests[i]) ELSE <<>>]

\* What a mutation does not change is not in the object node prints, and the
\* bridge fills it in with a default.
FuzzTask(m) ==
  [method |-> IF m.part = "method" THEN m.method ELSE AsIs("GET"),
   url |-> m.path, headers |-> m.headers, payload |-> m.body, retries |-> 1]

\* generate_mutations; node may fail, be missing or print something else.
GenerateMutations ==
  /\ stage = "generated"
  /\ LET requests == MapSeq(LAMBDA e : Request(e, base), result.endpoints)
     IN \/ UNCHANGED <<mutations, fuzz>>
        \/ \E answered \in SUBSET Answerable(requests) :
             /\ mutations' = Printed(requests, answered)
             /\ fuzz' = MapSeq(LAMBDA m : FuzzTask(m.mutation), FlattenSeq(mutations'))
  /\ stage' = "done"
  /\ UNCHANGED <<source, left, document, result, base, tasks>>

\* The engine called with a request of its own.
MutateRequest ==
  /\ stage = "load" /\ source.kind = "request"
  /\ IF Raises(source.request)
     THEN stage' = "raised" /\ UNCHANGED mutations
     ELSE stage' = "mutated" /\ mutations' = <<Mutate(source.request)>>
  /\ UNCHANGED <<source, left, document, result, base, tasks, fuzz>>

Next ==
  \/ LoadUrl \/ Probe \/ SingleEndpoint \/ LoadText \/ GenerateTasks
  \/ DiscoverAndSave \/ GenerateMutations \/ MutateRequest

Spec == Init /\ [][Next]_vars

(***************************************************************************)
(* Properties                                                              *)
(***************************************************************************)

\* The path a text stands for, whatever slashes it is written with: a slash
\* before each of its names.
Names(path) == Picked(path, {i \in DOMAIN path : path[i] # "/"})

Canonical(path) ==
  LET names == Names(path)
  IN IF names = <<>> THEN <<"/">>
     ELSE [i \in 1..(2 * Len(names)) |-> IF i % 2 = 1 THEN "/" ELSE names[i \div 2]]

Key(visit) == <<UpperMethod(visit.method), Canonical(visit.path)>>

\* Where in the document the operations are that describe an endpoint.
Operations(visits) ==
  {i \in DOMAIN visits :
     /\ visits[i].is = "operation" /\ visits[i].details.is # "junk"
     /\ UpperMethod(visits[i].method) \in ValidMethods}

\* The first ones of their method and path.
Firsts(visits) ==
  {i \in Operations(visits) :
     \A j \in Operations(visits) : j < i => Key(visits[j]) # Key(visits[i])}

Visited == IF HasPaths(document) THEN Visits(document) ELSE <<>>

Noted(errors, kinds) == Cardinality({i \in DOMAIN errors : errors[i] \in kinds})

JustParsed == stage \in {"build", "saved"} /\ Operations(Visited) # {}

\* The script's parser follows no references.
Resolving == source.kind # "script"

\* Of the operations with one method and one path, however their cases and
\* slashes differ, the first in the document is the endpoint, with its own body,
\* security and parameters; every operation with a known method and an object
\* has one, in the order of the document.
FirstOperationWins ==
  JustParsed =>
    LET firsts == Picked(Visited, Firsts(Visited))
    IN /\ Len(result.endpoints) = Len(firsts)
       /\ \A n \in DOMAIN firsts :
            LET e == result.endpoints[n]
            IN /\ <<e.method, e.path>> = Key(firsts[n])
               /\ e = Endpoint(firsts[n], document, Resolving)

\* What parse() comes to and makes no endpoint of leaves an error, one each;
\* an endpoint without responses leaves one too.
EveryVisitAccounted ==
  JustParsed =>
    /\ Len(Visited) = Len(result.endpoints)
         + Noted(result.errors,
                 {"invalid path", "invalid method", "invalid details", "duplicate"})
    /\ Noted(result.errors, {"missing responses"}) =
         Cardinality({i \in Firsts(Visited) : ~Visited[i].details.responses})

Gives(url) ==
  LET found == Loaded(source.web[url]) IN ~found.raised /\ found.endpoints # <<>>

\* Tasks come from the first document with endpoints, the given URL before the
\* fallback ones; the URL itself is a task only when there is none.
ResultIsFirstFound ==
  stage = "build" /\ source.kind = "url" =>
    LET given == Loaded(source.web[source.url])
        tried == <<source.url>> \o (IF Hinted(source.url, given.errors)
                                   THEN source.candidates ELSE <<>>)
        hits == {i \in DOMAIN tried : Gives(tried[i])}
    IN IF hits # {}
       THEN result = Loaded(source.web[tried[Min(hits)]]) /\ base = source.base
       ELSE Len(result.endpoints) = 1 /\ base = source.host

Mutated ==
  IF source.kind = "request" THEN <<source.request>>
  ELSE MapSeq(LAMBDA e : Request(e, base), result.endpoints)

\* What two mutations put into the request is the same, or neither puts in
\* anything: an emptied part is not told from an absent one.
SameChange(m, k) ==
  \/ m.part = k.part /\ m[m.part] = k[k.part] /\ m.headers = k.headers
  \/ m[m.part] = Blank[m.part] /\ k[k.part] = Blank[k.part]

\* Dropping copies loses no change: for every mutation that a mutator makes, the
\* engine returns one that puts the same into the request.
NoChangeLost ==
  \A i \in DOMAIN mutations : mutations[i] # <<>> =>
    \A m \in ToSet(AllMutations(Mutated[i])) :
      \E x \in ToSet(mutations[i]) : SameChange(m, x.mutation)

\* A swap of tenants is returned as the gravest there is, though the mutators
\* that run before it change the same header, in a way that counts for less:
\* none of them makes the same request, and so takes its place.
TenantSwapsStayGravest ==
  \A i \in DOMAIN mutations : mutations[i] # <<>> =>
    LET headers == Mutated[i].headers
    IN \A k \in DOMAIN headers : \A m \in ToSet(TenantSwaps(headers, k)) :
         \E x \in ToSet(mutations[i]) :
           x.mutation.headers = m.headers /\ x.severity = 5

\* The words that stand for each severity.
SeverityTable ==
  {[words |-> {"tenant_swap", "privilege_esc"}, severity |-> 5],
   [words |-> {"garbage_token", "remove_header", "remove_param"}, severity |-> 4],
   [words |-> {"method_switch", "path_traversal", "inject"}, severity |-> 3],
   [words |-> {"id_enum", "nullify", "tenant"}, severity |-> 2]}

\* A mutation is as severe as the most severe word in its strategy, names of
\* the request included, though one word may be part of another.
SeverityIsHighestWord ==
  \A i \in DOMAIN mutations : \A n \in DOMAIN mutations[i] :
    LET x == mutations[i][n]
        rows == {row \in SeverityTable : row.words \cap Words(x.mutation.strategy) # {}}
    IN x.severity = Max({1} \cup {row.severity : row \in rows})
=============================================================================
