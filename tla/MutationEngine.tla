--------------------------- MODULE MutationEngine ---------------------------
(***************************************************************************)
(* mutation-engine: the mutated requests the engine makes of one request,  *)
(* without copies and with a severity each.                                *)
(*                                                                         *)
(* A request has a method, a path, and params, headers and a body, which   *)
(* are functions from keys to values.  Keys and values are texts; a text   *)
(* in angle brackets stands for a JSON value that is no string.  A path is *)
(* a sequence of texts: slashes, numbers, and what is between them.        *)
(***************************************************************************)
EXTENDS Integers, FiniteSets, Lists

CONSTANTS
  KeyOrder,    \* all keys, in the order in which a request lists them
  KeyWords,    \* for a key, the words its lower case contains
  NumberOf,    \* the texts that read as a number, and the number
  Digits,      \* for a header value with digits in it: what is before and
               \* after the first of them, and the number they make
  JsonType,    \* typeof for the values of a body
  Capitals,    \* toUpperCase of the texts it changes
  Mentions,    \* for a text, the words of the severity table it contains
  Extensions, JunkSuffixes, Traversals  \* what is appended to a path

ASSUME ListsAssumption ==
  \A s \in {KeyOrder, Extensions, JunkSuffixes, Traversals} : IsSequence(s)

Slash == "/"

\* An absent or empty part of a request.
None == [x \in {} |-> x]

\* A method in its casing: the positions of its capitals.
AsIs(name) == [name |-> name, capitals |-> 1..Len(name)]

\* A mutation changes one part; the other parts of the object are absent.
Blank == [part |-> "", method |-> AsIs(""), path |-> <<>>, params |-> None,
          headers |-> None, body |-> None, strategy |-> <<>>]

Mutation(part, content, strategy) ==
  [f \in DOMAIN Blank |->
     CASE f = "part" -> part
       [] f = "strategy" -> strategy
       [] f = part -> content
       [] OTHER -> Blank[f]]

MapSeq(Op(_), s) == [i \in DOMAIN s |-> Op(s[i])]

KeysOf(fields) == Picked(KeyOrder, {i \in DOMAIN KeyOrder : KeyOrder[i] \in DOMAIN fields})

\* One mutation for each of values: key has it instead of its own.
Swaps(part, fields, key, values, tag) ==
  MapSeq(LAMBDA v : Mutation(part, [fields EXCEPT ![key] = v], <<tag, key, v>>),
         values)

Removal(part, fields, key, tag) ==
  <<Mutation(part, [k \in DOMAIN fields \ {key} |-> fields[k]], <<tag, key>>)>>

(***************************************************************************)
(* Parameters                                                              *)
(***************************************************************************)

IdCandidates(value) ==
  IF value \notin DOMAIN NumberOf THEN <<>>
  ELSE LET n == NumberOf[value]
       IN MapSeq(LAMBDA c : ToString(c), <<n - 1, n + 1, 1, 0, 99999, -1>>)

\* The payloads for the kinds of field that are told apart, in the order in
\* which they are tried.
FieldKinds ==
  <<[words |-> {"id", "user", "account"},
     payloads |-> <<"' OR '1'='1", "1 OR 1=1", "-1", "0", "null">>],
    [words |-> {"query", "search", "filter", "q"},
     payloads |-> <<"' OR '1'='1", "<script>", "onmouseover", "DROP TABLE", "*", "%">>],
    [words |-> {"path", "file", "dir", "url"},
     payloads |-> <<"../etc/passwd", "../system32", "%2e%2e%2f", "/etc/passwd%00">>],
    [words |-> {"role", "permission", "access"},
     payloads |-> <<"admin", "superadmin", "root", "administrator", "true", "1">>],
    [words |-> {"token", "key", "secret"},
     payloads |-> <<"", "null", "undefined", "Bearer fake">>]>>

ParamPayloads(key) ==
  LET first == SelectInSeq(FieldKinds, LAMBDA f : f.words \cap KeyWords[key] # {})
  IN IF first = 0 THEN <<"' OR '1'='1", "<script>", "../etc/passwd", "null">>
     ELSE FieldKinds[first].payloads

NullValues == <<"", "null", "undefined", "0">>

ParamMutations(params) ==
  FlattenSeq(MapSeq(LAMBDA k :
    Swaps("params", params, k, IdCandidates(params[k]), "id_enum")
    \o Removal("params", params, k, "remove_param")
    \o Swaps("params", params, k, ParamPayloads(k), "inject")
    \o Swaps("params", params, k, NullValues, "nullify"),
    KeysOf(params)))

(***************************************************************************)
(* Headers                                                                 *)
(***************************************************************************)

\* The two tampered tokens are the value with its last and with its
\* eleventh character replaced.
GarbageTokens(key, value) ==
  IF "authorization" \notin KeyWords[key] THEN <<>>
  ELSE <<"Bearer fake", "Bearer null", "Bearer undefined", "Bearer 0", "",
         "Bearer onlyonepart", "Bearer !@#$%^&*()", "Bearer aaa",
         value \o " last", value \o " eleventh", "Bearer none", "Bearer admin">>

Privileges(key) ==
  IF "x-user-role" \notin KeyWords[key] THEN <<>>
  ELSE <<"admin", "superadmin", "root", "administrator">>

OtherTenants(number) == <<number - 1, number + 1, 0, 1, 9999>>

\* The first number of an identifying header replaced.
TenantSwaps(headers, key) ==
  IF KeyWords[key] \cap {"id", "tenant", "org"} = {}
     \/ headers[key] \notin DOMAIN Digits THEN <<>>
  ELSE LET d == Digits[headers[key]]
       IN MapSeq(LAMBDA c : Mutation("headers",
            [headers EXCEPT ![key] = d.before \o ToString(c) \o d.after],
            <<"tenant_swap", key, ToString(c)>>),
            OtherTenants(d.number))

ContentTypes(key) ==
  IF "type" \notin KeyWords[key] THEN <<>>
  ELSE <<"text/xml", "text/plain", "application/x-www-form-urlencoded">>

IdSpoofing(headers) ==
  MapSeq(LAMBDA k :
    Mutation("headers",
             [h \in DOMAIN headers \cup {k} |-> IF h = k THEN "127.0.0.1" ELSE headers[h]],
             <<"id_spoof", k, "127.0.0.1">>),
    <<"X-Forwarded-For", "X-Original-IP", "X-Real-IP">>)

HeaderMutations(headers) ==
  FlattenSeq(MapSeq(LAMBDA k :
    Removal("headers", headers, k, "remove_header")
    \o Swaps("headers", headers, k, <<"">>, "blanking_value")
    \o Swaps("headers", headers, k, GarbageTokens(k, headers[k]), "garbage_token")
    \o Swaps("headers", headers, k, Privileges(k), "privelege_esc")
    \o TenantSwaps(headers, k)
    \o Swaps("headers", headers, k, ContentTypes(k), "type_swap"),
    KeysOf(headers))) \o IdSpoofing(headers)

(***************************************************************************)
(* Body                                                                    *)
(***************************************************************************)

BodyPayloads == <<"' OR '1'='1", "../etc/passwd", "<script>", "null", "undefined",
                  "true", "{}", "[]">>

\* _typeConfusion reads typeName, which nothing declares, for every variation
\* it makes; it makes some for strings, numbers and booleans.
TypeConfusionRaises(body) ==
  \E k \in DOMAIN body : JsonType[body[k]] \in {"string", "number", "boolean"}

MassAssignment(body) ==
  LET fields == [isAdmin |-> "<true>", role |-> "admin", verified |-> "<true>",
                 credits |-> "<99999>", balance |-> "<99999>",
                 isPremium |-> "<true>", accessLevel |-> "superadmin"]
  IN <<Mutation("body", fields @@ body, <<"mass_assignment">>)>>

\* The mutations of a body on which _typeConfusion does not raise.
BodyMutations(body) ==
  FlattenSeq(MapSeq(LAMBDA k :
    Swaps("body", body, k, IdCandidates(body[k]), "id_enum")
    \o Removal("body", body, k, "remove_field")
    \o Swaps("body", body, k, BodyPayloads, "inject")
    \o Swaps("body", body, k, NullValues, "nullify"),
    KeysOf(body))) \o MassAssignment(body)

(***************************************************************************)
(* Method                                                                  *)
(***************************************************************************)

Methods == <<"GET", "POST", "PUT", "DELETE", "PATCH", "OPTIONS", "HEAD">>

MethodSwitches(name) ==
  MapSeq(LAMBDA m : Mutation("method", AsIs(m), <<"method_switch", m>>),
         Picked(Methods, {i \in DOMAIN Methods : Methods[i] # name}))

\* All small, then for each letter: it alone small, it alone capital.
CaseSwaps(name) ==
  LET letters == 1..Len(name)
      variants == <<{}>> \o FlattenSeq([i \in letters |-> <<letters \ {i}, {i}>>])
  IN MapSeq(LAMBDA c : Mutation("method", [name |-> name, capitals |-> c],
                                <<"case_swap", name>>),
            variants)

GarbageMethods ==
  MapSeq(LAMBDA m : Mutation("method", AsIs(m), <<"garbage_method", m>>),
         <<"HACK", "", "FAKEMETHOD", "NULL">>)

MethodOverride(name) ==
  <<[Mutation("method", AsIs(name), <<"method_override", "DELETE">>)
       EXCEPT !.headers = [h \in {"X-HTTP-Method-Override"} |-> "DELETE"]]>>

MethodMutations(name) ==
  MethodSwitches(name) \o CaseSwaps(name) \o GarbageMethods \o MethodOverride(name)

(***************************************************************************)
(* Path.  A text of a path contains another one only by being equal to it, *)
(* and a segment is one text, or "v" and a number.                         *)
(***************************************************************************)

PathMutation(path, tag) == Mutation("path", path, <<tag>> \o path)

NumbersIn(path) == {i \in DOMAIN path : path[i] \in DOMAIN NumberOf}

VersionsIn(path) == {i \in NumbersIn(path) : i > 1 /\ path[i - 1] = "v"}

LastOf(S) == CHOOSE i \in S : \A j \in S : j <= i

\* replace() with a text replaces its first occurrence.
FirstLike(path, i, S) ==
  CHOOSE j \in S : path[j] = path[i] /\ \A k \in S : path[k] = path[i] => j <= k

Renumbered(path, S, offsets, tag) ==
  IF S = {} THEN <<>>
  ELSE LET last == LastOf(S)
           n == NumberOf[path[last]]
       IN MapSeq(LAMBDA c : PathMutation(
                   [path EXCEPT ![FirstLike(path, last, S)] = ToString(c)], tag),
                 MapSeq(LAMBDA d : n + d, offsets.relative) \o offsets.absolute)

PathIdEnumeration(path) ==
  Renumbered(path, NumbersIn(path),
             [relative |-> <<-1, 1>>, absolute |-> <<0, 1, 9999>>],
             "path_id_enumeration")

VersionSwitching(path) ==
  Renumbered(path, VersionsIn(path),
             [relative |-> <<-1, 1, 2, 5>>, absolute |-> <<9999>>],
             "version_switching")

Appended(path, suffixes, tag) ==
  MapSeq(LAMBDA x : PathMutation(Append(path, x), tag), suffixes)

AddedExtension(path) == Appended(path, Extensions, "added_extension")
AddingJunk(path) == Appended(path, JunkSuffixes, "adding_junk")
PathTraversal(path) == Appended(path, Traversals, "path_traversal")

UpperCase(text) == IF text \in DOMAIN Capitals THEN Capitals[text] ELSE text

\* Segments that are neither a number nor a version, one at a time.
CaseSwitching(path) ==
  LET words == {i \in DOMAIN path : /\ path[i] # Slash
                                    /\ i \notin NumbersIn(path)
                                    /\ i + 1 \notin VersionsIn(path)}
  IN MapSeq(LAMBDA i : PathMutation(
              [path EXCEPT ![FirstLike(path, i, words)] = UpperCase(path[i])],
              "case_switching"),
            Picked([i \in DOMAIN path |-> i], words))

DoubleSlashing(path) ==
  <<PathMutation(FlattenSeq(MapSeq(LAMBDA x :
      IF x = Slash THEN <<x, x>> ELSE <<x>>, path)), "double_slashing")>>

PathMutations(path) ==
  PathIdEnumeration(path) \o AddedExtension(path) \o AddingJunk(path)
  \o CaseSwitching(path) \o DoubleSlashing(path) \o PathTraversal(path)
  \o VersionSwitching(path)

(***************************************************************************)
(* The engine                                                              *)
(***************************************************************************)

\* Everything the mutators make, in their order.
AllMutations(request) ==
  ParamMutations(request.params)
  \o (IF request.headers = None THEN <<>> ELSE HeaderMutations(request.headers))
  \o (IF request.body = None THEN <<>> ELSE BodyMutations(request.body))
  \o (IF request.method = "" THEN <<>> ELSE MethodMutations(request.method))
  \o (IF request.path = <<>> THEN <<>> ELSE PathMutations(request.path))

\* Mutants: the headers are left out; the method is read without its casing.
FingerprintWithoutHeaders(m) == <<m.method, m.path, m.params, m.body>>
FingerprintUncased(m) == <<m.method.name, m.path, m.params, m.headers, m.body>>

Fingerprint(m) == <<m.method, m.path, m.params, m.headers, m.body>>

\* A mutation whose fingerprint was seen before is dropped.
Deduplicate(mutations) ==
  Picked(mutations, {i \in DOMAIN mutations : \A j \in 1..(i - 1) :
                       Fingerprint(mutations[j]) # Fingerprint(mutations[i])})

\* The words of the severity table in a strategy: those that are its parts,
\* and those inside its parts.
Words(strategy) ==
  ToSet(strategy)
  \cup (IF "path_id_enumeration" \in ToSet(strategy) THEN {"id_enum"} ELSE {})
  \cup (IF "tenant_swap" \in ToSet(strategy) THEN {"tenant"} ELSE {})
  \cup UNION {Mentions[x] : x \in ToSet(strategy) \cap DOMAIN Mentions}

\* Mutant: the weaker words are looked for first.
SeverityWeakestFirst(strategy) ==
  LET has(words) == Words(strategy) \cap words # {}
  IN IF has({"id_enum", "nullify", "tenant"}) THEN 2
     ELSE IF has({"method_switch", "path_traversal", "inject"}) THEN 3
     ELSE IF has({"garbage_token", "remove_header", "remove_param"}) THEN 4
     ELSE IF has({"tenant_swap", "privilege_esc"}) THEN 5
     ELSE 1

Severity(strategy) ==
  LET has(words) == Words(strategy) \cap words # {}
  IN IF has({"tenant_swap", "privilege_esc"}) THEN 5
     ELSE IF has({"garbage_token", "remove_header", "remove_param"}) THEN 4
     ELSE IF has({"method_switch", "path_traversal", "inject"}) THEN 3
     ELSE IF has({"id_enum", "nullify", "tenant"}) THEN 2
     ELSE 1

Mutate(request) ==
  MapSeq(LAMBDA m : [mutation |-> m, severity |-> Severity(m.strategy)],
         Deduplicate(AllMutations(request)))
=============================================================================
