----------------------- MODULE TaskGeneration_proofs -----------------------
(***************************************************************************)
(* Proofs about TaskGeneration for every document, web and request: what   *)
(* the parser finds in a document, where the tasks come from, and what the *)
(* mutation engine keeps.                                                  *)
(***************************************************************************)
EXTENDS TaskGeneration, ListTheorems, FiniteSetTheorems

\* A sequence by its domain is a list.
LEMMA SequenceIsList ==
  ASSUME NEW s, IsSequence(s)
  PROVE  IsList(s)
BY DEF IsSequence, IsList

-----------------------------------------------------------------------------
(* Lists of mutations                                                      *)

Parts == {"method", "path", "params", "headers", "body"}

\* The parts a mutation does not change are absent; one that changes the method
\* may come with headers.
IsMutation(m) ==
  /\ m.part \in Parts
  /\ \A f \in Parts \ {m.part} :
       \/ m[f] = Blank[f]
       \/ m.part = "method" /\ f = "headers" /\ m.method # Blank.method

AreMutations(s) == IsList(s) /\ \A m \in ToSet(s) : IsMutation(m)

\* What a mutator makes is a mutation.
LEMMA MutationIsMutation ==
  ASSUME NEW part \in Parts, NEW content, NEW strategy
  PROVE  IsMutation(Mutation(part, content, strategy))
<1> DEFINE m == Mutation(part, content, strategy)
<1>1. DOMAIN Blank = {"part", "method", "path", "params", "headers", "body", "strategy"}
  BY DEF Blank
<1>2. m = [f \in DOMAIN Blank |->
             CASE f = "part" -> part
               [] f = "strategy" -> strategy
               [] f = part -> content
               [] OTHER -> Blank[f]]
  BY DEF Mutation
<1> HIDE DEF m
<1>3. m.part = part /\ \A f \in Parts \ {part} : m[f] = Blank[f]
  BY <1>1, <1>2 DEF Parts
<1>4. IsMutation(m)
  BY <1>3 DEF IsMutation
<1> QED BY <1>4 DEF m

\* The parts by name.
LEMMA PartsAre ==
  /\ "method" \in Parts /\ "path" \in Parts /\ "params" \in Parts
  /\ "headers" \in Parts /\ "body" \in Parts
BY DEF Parts

\* The empty list is a list of mutations.
LEMMA NoMutations == AreMutations(<<>>)
<1>1. ToSet(<<>>) = {}
  BY DEF ToSet
<1> QED BY <1>1 DEF AreMutations, IsList

\* So is a list of one.
LEMMA OneMutation ==
  ASSUME NEW m, IsMutation(m)
  PROVE  AreMutations(<<m>>)
<1>1. ToSet(<<m>>) = {m}
  BY DEF ToSet
<1>2. <<m>> \in Seq({m})
  OBVIOUS
<1> QED BY <1>1, <1>2 DEF AreMutations, IsList

\* What MapSeq makes of a list, when what it makes are mutations.
LEMMA MappedMutations ==
  ASSUME NEW s, IsList(s), NEW t, t = [i \in DOMAIN s |-> t[i]],
         \A i \in DOMAIN s : IsMutation(t[i])
  PROVE  AreMutations(t)
<1>1. Len(s) \in Nat /\ DOMAIN s = 1 .. Len(s)
  BY ListLength
<1>2. IsList(t)
  BY <1>1, FunctionIsList
<1>3. DOMAIN t = DOMAIN s
  OBVIOUS
<1> QED BY <1>2, <1>3 DEF AreMutations, ToSet

\* So is the concatenation of two.
LEMMA JoinedMutations ==
  ASSUME NEW s, NEW t, AreMutations(s), AreMutations(t)
  PROVE  AreMutations(s \o t)
BY Concatenated DEF AreMutations

\* So are lists of mutations, one for each entry of a list, flattened.
LEMMA FlatMutations ==
  ASSUME NEW s, IsList(s), NEW t, t = [i \in DOMAIN s |-> t[i]],
         \A i \in DOMAIN s : AreMutations(t[i])
  PROVE  AreMutations(FlattenSeq(t))
<1>1. Len(s) \in Nat /\ DOMAIN s = 1 .. Len(s)
  BY ListLength
<1>2. IsList(t) /\ DOMAIN t = DOMAIN s
  BY <1>1, FunctionIsList
<1>3. \A i \in DOMAIN t : IsList(t[i])
  BY <1>2 DEF AreMutations
<1>4. /\ IsList(FlattenSeq(t))
      /\ ToSet(FlattenSeq(t)) = UNION {ToSet(t[i]) : i \in DOMAIN t}
  BY <1>2, <1>3, FlattenElements
<1> QED BY <1>2, <1>4 DEF AreMutations

\* The keys of an object are listed.
LEMMA KeysAreList ==
  ASSUME NEW fields
  PROVE  IsList(KeysOf(fields))
BY ListsAssumption, SequenceIsList, PickedElements DEF KeysOf

\* A key given other values in turn makes mutations.
LEMMA SwapsAreMutations ==
  ASSUME NEW part \in Parts, NEW fields, NEW key, NEW values,
         IsList(values), NEW tag
  PROVE  AreMutations(Swaps(part, fields, key, values, tag))
<1> DEFINE t == Swaps(part, fields, key, values, tag)
<1>1. t = [i \in DOMAIN values |->
             Mutation(part, [fields EXCEPT ![key] = values[i]], <<tag, key, values[i]>>)]
  BY DEF Swaps, MapSeq
<1> HIDE DEF t
<1>2. \A i \in DOMAIN values : IsMutation(t[i])
  BY <1>1, MutationIsMutation, PartsAre
<1>3. t = [i \in DOMAIN values |-> t[i]]
  BY <1>1
<1>4. AreMutations(t)
  BY <1>2, <1>3, MappedMutations
<1> QED BY <1>4 DEF t

\* A key that is removed makes a mutation.
LEMMA RemovalIsMutation ==
  ASSUME NEW part \in Parts, NEW fields, NEW key, NEW tag
  PROVE  AreMutations(Removal(part, fields, key, tag))
BY MutationIsMutation, PartsAre, OneMutation DEF Removal

\* Lists that are written out.
LEMMA ListsWritten ==
  /\ IsList(<<>>)
  /\ \A a : IsList(<<a>>)
  /\ \A a, b : IsList(<<a, b>>)
  /\ \A a, b, c : IsList(<<a, b, c>>)
  /\ \A a, b, c, d : IsList(<<a, b, c, d>>)
  /\ \A a, b, c, d, e : IsList(<<a, b, c, d, e>>)
  /\ \A a, b, c, d, e, f : IsList(<<a, b, c, d, e, f>>)
  /\ \A a, b, c, d, e, f, g : IsList(<<a, b, c, d, e, f, g>>)
  /\ \A a, b, c, d, e, f, g, h : IsList(<<a, b, c, d, e, f, g, h>>)
<1>0. IsList(<<>>)
  BY DEF IsList
<1>1. ASSUME NEW a PROVE IsList(<<a>>)
  <2>1. <<a>> \in Seq({a})
    OBVIOUS
  <2> QED BY <2>1 DEF IsList
<1>2. ASSUME NEW a, NEW b PROVE IsList(<<a, b>>)
  <2>1. <<a, b>> \in Seq({a, b})
    OBVIOUS
  <2> QED BY <2>1 DEF IsList
<1>3. ASSUME NEW a, NEW b, NEW c PROVE IsList(<<a, b, c>>)
  <2>1. <<a, b, c>> \in Seq({a, b, c})
    OBVIOUS
  <2> QED BY <2>1 DEF IsList
<1>4. ASSUME NEW a, NEW b, NEW c, NEW d PROVE IsList(<<a, b, c, d>>)
  <2>1. <<a, b, c, d>> \in Seq({a, b, c, d})
    OBVIOUS
  <2> QED BY <2>1 DEF IsList
<1>5. ASSUME NEW a, NEW b, NEW c, NEW d, NEW e PROVE IsList(<<a, b, c, d, e>>)
  <2>1. <<a, b, c, d, e>> \in Seq({a, b, c, d, e})
    OBVIOUS
  <2> QED BY <2>1 DEF IsList
<1>6. ASSUME NEW a, NEW b, NEW c, NEW d, NEW e, NEW f PROVE IsList(<<a, b, c, d, e, f>>)
  <2>1. <<a, b, c, d, e, f>> \in Seq({a, b, c, d, e, f})
    OBVIOUS
  <2> QED BY <2>1 DEF IsList
<1>7. ASSUME NEW a, NEW b, NEW c, NEW d, NEW e, NEW f, NEW g PROVE IsList(<<a, b, c, d, e, f, g>>)
  <2>1. <<a, b, c, d, e, f, g>> \in Seq({a, b, c, d, e, f, g})
    OBVIOUS
  <2> QED BY <2>1 DEF IsList
<1>8. ASSUME NEW a, NEW b, NEW c, NEW d, NEW e, NEW f, NEW g, NEW h PROVE IsList(<<a, b, c, d, e, f, g, h>>)
  <2>1. <<a, b, c, d, e, f, g, h>> \in Seq({a, b, c, d, e, f, g, h})
    OBVIOUS
  <2> QED BY <2>1 DEF IsList
<1> QED BY <1>0, <1>1, <1>2, <1>3, <1>4, <1>5, <1>6, <1>7, <1>8

\* A function of the entries of a list is a list as long.
LEMMA MappedList ==
  ASSUME NEW s, IsList(s), NEW t, t = [i \in DOMAIN s |-> t[i]]
  PROVE  IsList(t) /\ DOMAIN t = DOMAIN s
<1>1. Len(s) \in Nat /\ DOMAIN s = 1 .. Len(s)
  BY ListLength
<1> QED BY <1>1, FunctionIsList

-----------------------------------------------------------------------------
(* The mutators                                                            *)

\* The values an identifier is replaced by are listed.
LEMMA IdCandidatesAreList ==
  ASSUME NEW value
  PROVE  IsList(IdCandidates(value))
<1> DEFINE n == NumberOf[value]
           numbers == <<n - 1, n + 1, 1, 0, 99999, -1>>
           t == [i \in DOMAIN numbers |-> ToString(numbers[i])]
<1>1. IsList(numbers)
  BY ListsWritten
<1>2. IsList(t)
  <2> HIDE DEF numbers
  <2>1. IsList(numbers) /\ t = [i \in DOMAIN numbers |-> t[i]]
    BY <1>1
  <2> HIDE DEF t
  <2> QED BY <2>1, MappedList
<1>3. IdCandidates(value) = <<>> \/ IdCandidates(value) = t
  BY DEF IdCandidates, MapSeq
<1>4. IsList(<<>>)
  BY ListsWritten
<1> HIDE DEF t
<1> QED BY <1>2, <1>3, <1>4

\* The payloads of a parameter are listed.
LEMMA ParamPayloadsAreList ==
  ASSUME NEW key
  PROVE  IsList(ParamPayloads(key))
<1> DEFINE I == {i \in 1 .. Len(FieldKinds) : FieldKinds[i].words \cap KeyWords[key] # {}}
           first == IF I # {} THEN Min(I) ELSE 0
<1>1. Len(FieldKinds) = 5
  BY DEF FieldKinds
<1>2. \A i \in 1 .. 5 : IsList(FieldKinds[i].payloads)
  <2>4. IsList(FieldKinds[1].payloads)
    BY ListsWritten DEF FieldKinds
  <2>5. IsList(FieldKinds[2].payloads)
    BY ListsWritten DEF FieldKinds
  <2>6. IsList(FieldKinds[3].payloads)
    BY ListsWritten DEF FieldKinds
  <2>7. IsList(FieldKinds[4].payloads)
    BY ListsWritten DEF FieldKinds
  <2>8. IsList(FieldKinds[5].payloads)
    BY ListsWritten DEF FieldKinds
  <2> QED BY <2>4, <2>5, <2>6, <2>7, <2>8
<1>3. first = 0 \/ first \in 1 .. 5
  <2>1. ASSUME I # {} PROVE Min(I) \in 1 .. 5
    <3>1. I \in SUBSET Nat
      BY <1>1
    <3>2. PICK m \in I : \A i \in I : m <= i
      BY <2>1, <3>1, LeastNumber
    <3> QED BY <1>1, <3>2 DEF Min
  <2> QED BY <2>1
<1>4. IsList(<<"' OR '1'='1", "<script>", "../etc/passwd", "null">>)
  BY ListsWritten
<1>5. SelectInSeq(FieldKinds, LAMBDA f : f.words \cap KeyWords[key] # {}) = first
  BY DEF SelectInSeq
<1>6. ParamPayloads(key) = IF first = 0 THEN <<"' OR '1'='1", "<script>", "../etc/passwd", "null">>
                           ELSE FieldKinds[first].payloads
  BY <1>5 DEF ParamPayloads
<1> HIDE DEF first
<1> QED BY <1>2, <1>3, <1>4, <1>6

\* The empty values are listed.
LEMMA NullValuesAreList == IsList(NullValues)
BY ListsWritten DEF NullValues

\* ParameterMutator makes mutations.
LEMMA ParamMutationsAre ==
  ASSUME NEW params
  PROVE  AreMutations(ParamMutations(params))
<1> DEFINE keys == KeysOf(params)
           of(k) == Swaps("params", params, k, IdCandidates(params[k]), "id_enum")
                    \o Removal("params", params, k, "remove_param")
                    \o Swaps("params", params, k, ParamPayloads(k), "inject")
                    \o Swaps("params", params, k, NullValues, "nullify")
           t == [i \in DOMAIN keys |-> of(keys[i])]
<1>1. ASSUME NEW k PROVE AreMutations(of(k))
  BY PartsAre, SwapsAreMutations, RemovalIsMutation, JoinedMutations, IdCandidatesAreList,
     ParamPayloadsAreList, NullValuesAreList
<1>2. ParamMutations(params) = FlattenSeq(t)
  BY DEF ParamMutations, MapSeq
<1>3. t = [i \in DOMAIN keys |-> t[i]] /\ \A i \in DOMAIN keys : AreMutations(t[i])
  <2> HIDE DEF of
  <2> QED BY <1>1
<1>4. IsList(keys)
  BY KeysAreList
<1> HIDE DEF keys, t
<1> QED BY <1>2, <1>3, <1>4, FlatMutations

\* The values HeaderMutator puts into a header are listed.
LEMMA HeaderListsAre ==
  ASSUME NEW key, NEW value
  PROVE  /\ IsList(GarbageTokens(key, value))
         /\ IsList(Privileges(key))
         /\ IsList(ContentTypes(key))
<1>1. ASSUME NEW a, NEW b PROVE IsList(
        <<"Bearer fake", "Bearer null", "Bearer undefined", "Bearer 0", "",
          "Bearer onlyonepart", "Bearer !@#$%^&*()", "Bearer aaa",
          a, b, "Bearer none", "Bearer admin">>)
  <2> DEFINE t == <<"Bearer fake", "Bearer null", "Bearer undefined", "Bearer 0", "",
                    "Bearer onlyonepart", "Bearer !@#$%^&*()", "Bearer aaa",
                    a, b, "Bearer none", "Bearer admin">>
  <2>1. t = [i \in 1 .. 12 |-> t[i]]
    OBVIOUS
  <2> HIDE DEF t
  <2>2. IsList(t)
    BY <2>1, FunctionIsList
  <2> QED BY <2>2 DEF t
<1> QED BY <1>1, ListsWritten DEF GarbageTokens, Privileges, ContentTypes

\* Swapped tenants are mutations.
LEMMA TenantSwapsAre ==
  ASSUME NEW headers, NEW key
  PROVE  AreMutations(TenantSwaps(headers, key))
<1> DEFINE d == Digits[headers[key]]
           numbers == OtherTenants(d.number)
           t == [i \in DOMAIN numbers |->
                   Mutation("headers",
                     [headers EXCEPT ![key] = d.before \o ToString(numbers[i]) \o d.after],
                     <<"tenant_swap", key, ToString(numbers[i])>>)]
<1>1. TenantSwaps(headers, key) = <<>> \/ TenantSwaps(headers, key) = t
  BY DEF TenantSwaps, MapSeq
<1>2. IsList(numbers)
  BY ListsWritten DEF OtherTenants
<1> HIDE DEF numbers
<1>3. \A i \in DOMAIN numbers : IsMutation(t[i])
  BY MutationIsMutation, PartsAre
<1>4. t = [i \in DOMAIN numbers |-> t[i]]
  OBVIOUS
<1> HIDE DEF t
<1>5. AreMutations(t)
  BY <1>2, <1>3, <1>4, MappedMutations
<1> QED BY <1>1, <1>5, NoMutations

\* Spoofed identities are mutations.
LEMMA IdSpoofingAre ==
  ASSUME NEW headers
  PROVE  AreMutations(IdSpoofing(headers))
<1> DEFINE names == <<"X-Forwarded-For", "X-Original-IP", "X-Real-IP">>
           t == [i \in DOMAIN names |->
                   Mutation("headers",
                     [h \in DOMAIN headers \cup {names[i]} |->
                        IF h = names[i] THEN "127.0.0.1" ELSE headers[h]],
                     <<"id_spoof", names[i], "127.0.0.1">>)]
<1>1. IdSpoofing(headers) = t
  BY DEF IdSpoofing, MapSeq
<1>2. IsList(names)
  BY ListsWritten
<1> HIDE DEF names
<1>3. \A i \in DOMAIN names : IsMutation(t[i])
  BY MutationIsMutation, PartsAre
<1>4. t = [i \in DOMAIN names |-> t[i]]
  OBVIOUS
<1> HIDE DEF t
<1> QED BY <1>1, <1>2, <1>3, <1>4, MappedMutations

\* HeaderMutator makes mutations.
LEMMA HeaderMutationsAre ==
  ASSUME NEW headers
  PROVE  AreMutations(HeaderMutations(headers))
<1> DEFINE keys == KeysOf(headers)
           of(k) == Removal("headers", headers, k, "remove_header")
                    \o Swaps("headers", headers, k, <<"">>, "blanking_value")
                    \o Swaps("headers", headers, k, GarbageTokens(k, headers[k]), "garbage_token")
                    \o Swaps("headers", headers, k, Privileges(k), "privelege_esc")
                    \o TenantSwaps(headers, k)
                    \o Swaps("headers", headers, k, ContentTypes(k), "type_swap")
           t == [i \in DOMAIN keys |-> of(keys[i])]
<1>1. ASSUME NEW k PROVE AreMutations(of(k))
  <2>1. IsList(<<"">>)
    BY ListsWritten
  <2> QED BY <2>1, PartsAre, SwapsAreMutations, RemovalIsMutation, JoinedMutations, HeaderListsAre,
             TenantSwapsAre
<1>2. HeaderMutations(headers) = FlattenSeq(t) \o IdSpoofing(headers)
  BY DEF HeaderMutations, MapSeq
<1>3. t = [i \in DOMAIN keys |-> t[i]] /\ \A i \in DOMAIN keys : AreMutations(t[i])
  <2> HIDE DEF of
  <2> QED BY <1>1
<1>4. IsList(keys)
  BY KeysAreList
<1> HIDE DEF keys, t
<1>5. AreMutations(FlattenSeq(t))
  BY <1>3, <1>4, FlatMutations
<1> QED BY <1>2, <1>5, IdSpoofingAre, JoinedMutations

\* BodyMutator makes mutations.
LEMMA BodyMutationsAre ==
  ASSUME NEW body
  PROVE  AreMutations(BodyMutations(body))
<1> DEFINE keys == KeysOf(body)
           of(k) == Swaps("body", body, k, IdCandidates(body[k]), "id_enum")
                    \o Removal("body", body, k, "remove_field")
                    \o Swaps("body", body, k, BodyPayloads, "inject")
                    \o Swaps("body", body, k, NullValues, "nullify")
           t == [i \in DOMAIN keys |-> of(keys[i])]
<1>1. ASSUME NEW k PROVE AreMutations(of(k))
  <2>1. IsList(BodyPayloads)
    BY ListsWritten DEF BodyPayloads
  <2> QED BY <2>1, PartsAre, SwapsAreMutations, RemovalIsMutation, JoinedMutations,
             IdCandidatesAreList, NullValuesAreList
<1>2. BodyMutations(body) = FlattenSeq(t) \o MassAssignment(body)
  BY DEF BodyMutations, MapSeq
<1>3. t = [i \in DOMAIN keys |-> t[i]] /\ \A i \in DOMAIN keys : AreMutations(t[i])
  <2> HIDE DEF of
  <2> QED BY <1>1
<1>4. IsList(keys)
  BY KeysAreList
<1> HIDE DEF keys, t
<1>5. AreMutations(FlattenSeq(t))
  BY <1>3, <1>4, FlatMutations
<1>6. AreMutations(MassAssignment(body))
  BY MutationIsMutation, PartsAre, OneMutation DEF MassAssignment
<1> QED BY <1>2, <1>5, <1>6, JoinedMutations

\* MethodMutator makes mutations.
LEMMA MethodMutationsAre ==
  ASSUME NEW name, Len(name) \in Nat, name # ""
  PROVE  AreMutations(MethodMutations(name))
<1>1. AreMutations(MethodSwitches(name))
  <2> DEFINE others == Picked(Methods, {i \in DOMAIN Methods : Methods[i] # name})
             t == [i \in DOMAIN others |->
                     Mutation("method", AsIs(others[i]), <<"method_switch", others[i]>>)]
  <2>1. MethodSwitches(name) = t
    BY DEF MethodSwitches, MapSeq
  <2>2. IsList(others)
    BY ListsWritten, PickedElements DEF Methods
  <2> HIDE DEF others
  <2>3. \A i \in DOMAIN others : IsMutation(t[i])
    BY MutationIsMutation, PartsAre
  <2>4. t = [i \in DOMAIN others |-> t[i]]
    OBVIOUS
  <2> HIDE DEF t
  <2> QED BY <2>1, <2>2, <2>3, <2>4, MappedMutations
<1>2. AreMutations(CaseSwaps(name))
  <2> DEFINE letters == 1 .. Len(name)
             pairs == [i \in letters |-> <<letters \ {i}, {i}>>]
             variants == <<{}>> \o FlattenSeq(pairs)
             t == [i \in DOMAIN variants |->
                     Mutation("method", [name |-> name, capitals |-> variants[i]],
                              <<"case_swap", name>>)]
  <2>1. CaseSwaps(name) = t
    BY DEF CaseSwaps, MapSeq
  <2>2. IsList(pairs) /\ \A i \in DOMAIN pairs : IsList(pairs[i])
    <3>1. pairs = [i \in 1 .. Len(name) |-> pairs[i]] /\ DOMAIN pairs = letters
      OBVIOUS
    <3>2. \A i \in letters : IsList(pairs[i])
      BY ListsWritten
    <3> HIDE DEF pairs
    <3> QED BY <3>1, <3>2, FunctionIsList
  <2> HIDE DEF pairs
  <2>3. IsList(variants)
    BY <2>2, FlattenElements, ListsWritten, Concatenated
  <2> HIDE DEF variants
  <2>4. \A i \in DOMAIN variants : IsMutation(t[i])
    BY MutationIsMutation, PartsAre
  <2>5. t = [i \in DOMAIN variants |-> t[i]]
    OBVIOUS
  <2> HIDE DEF t
  <2> QED BY <2>1, <2>3, <2>4, <2>5, MappedMutations
<1>3. AreMutations(GarbageMethods)
  <2> DEFINE names == <<"HACK", "", "FAKEMETHOD", "NULL">>
             t == [i \in DOMAIN names |->
                     Mutation("method", AsIs(names[i]), <<"garbage_method", names[i]>>)]
  <2>1. GarbageMethods = t
    BY DEF GarbageMethods, MapSeq
  <2>2. IsList(names)
    BY ListsWritten
  <2> HIDE DEF names
  <2>3. \A i \in DOMAIN names : IsMutation(t[i])
    BY MutationIsMutation, PartsAre
  <2>4. t = [i \in DOMAIN names |-> t[i]]
    OBVIOUS
  <2> HIDE DEF t
  <2> QED BY <2>1, <2>2, <2>3, <2>4, MappedMutations
<1>4. AreMutations(MethodOverride(name))
  <2> DEFINE m == Mutation("method", AsIs(name), <<"method_override", "DELETE">>)
             h == [x \in {"X-HTTP-Method-Override"} |-> "DELETE"]
  <2>1. MethodOverride(name) = <<[m EXCEPT !.headers = h]>>
    BY DEF MethodOverride
  <2>2. /\ m = [f \in DOMAIN Blank |->
                   CASE f = "part" -> "method"
                     [] f = "strategy" -> <<"method_override", "DELETE">>
                     [] f = "method" -> AsIs(name)
                     [] OTHER -> Blank[f]]
        /\ DOMAIN Blank
             = {"part", "method", "path", "params", "headers", "body", "strategy"}
    BY DEF Mutation, Blank
  <2> HIDE DEF m, h
  <2> DEFINE o == [m EXCEPT !.headers = h]
  <2>3. /\ o.part = "method" /\ o.method = AsIs(name)
        /\ \A f \in Parts \ {"method", "headers"} : o[f] = Blank[f]
    BY <2>2 DEF Parts
  <2>4. AsIs(name) # Blank.method
    <3>1. AsIs(name).name = name /\ Blank.method.name = ""
      BY DEF AsIs, Blank
    <3> QED BY <3>1
  <2> HIDE DEF o
  <2>5. IsMutation(o)
    BY <2>3, <2>4, PartsAre DEF IsMutation
  <2> QED BY <2>1, <2>5, OneMutation DEF o
<1> QED BY <1>1, <1>2, <1>3, <1>4, JoinedMutations DEF MethodMutations

\* Renumbered path segments are mutations.
LEMMA RenumberedAre ==
  ASSUME NEW path, NEW S, NEW offsets, IsList(offsets.relative), IsList(offsets.absolute),
         NEW tag
  PROVE  AreMutations(Renumbered(path, S, offsets, tag))
<1> DEFINE last == LastOf(S)
           n == NumberOf[path[last]]
           near == [i \in DOMAIN offsets.relative |-> n + offsets.relative[i]]
           numbers == near \o offsets.absolute
           t == [i \in DOMAIN numbers |->
                   PathMutation([path EXCEPT ![FirstLike(path, last, S)] = ToString(numbers[i])],
                                tag)]
<1>1. IsList(near)
  <2>1. near = [i \in DOMAIN offsets.relative |-> near[i]]
    OBVIOUS
  <2> HIDE DEF near
  <2> QED BY <2>1, MappedList
<1>2. Renumbered(path, S, offsets, tag) = IF S = {} THEN <<>> ELSE t
  BY DEF Renumbered, MapSeq
<1> HIDE DEF near
<1>3. IsList(numbers)
  BY <1>1, Concatenated
<1> HIDE DEF numbers
<1>4. \A i \in DOMAIN numbers : IsMutation(t[i])
  BY MutationIsMutation, PartsAre DEF PathMutation
<1>5. t = [i \in DOMAIN numbers |-> t[i]]
  OBVIOUS
<1> HIDE DEF t
<1>6. AreMutations(t)
  BY <1>3, <1>4, <1>5, MappedMutations
<1> QED BY <1>2, <1>6, NoMutations

\* A path with a suffix appended is a mutation.
LEMMA AppendedAre ==
  ASSUME NEW path, NEW suffixes, IsList(suffixes), NEW tag
  PROVE  AreMutations(Appended(path, suffixes, tag))
<1> DEFINE t == [i \in DOMAIN suffixes |-> PathMutation(Append(path, suffixes[i]), tag)]
<1>1. Appended(path, suffixes, tag) = t
  BY DEF Appended, MapSeq
<1>2. \A i \in DOMAIN suffixes : IsMutation(t[i])
  BY MutationIsMutation, PartsAre DEF PathMutation
<1>3. t = [i \in DOMAIN suffixes |-> t[i]]
  OBVIOUS
<1> HIDE DEF t
<1> QED BY <1>1, <1>2, <1>3, MappedMutations

\* A path with the case of its segments switched is a mutation.
LEMMA CaseSwitchingAre ==
  ASSUME NEW path, IsList(path)
  PROVE  AreMutations(CaseSwitching(path))
<1> DEFINE words == {i \in DOMAIN path : /\ path[i] # Slash
                                         /\ i \notin NumbersIn(path)
                                         /\ i + 1 \notin VersionsIn(path)}
           places == [i \in DOMAIN path |-> i]
           at == Picked(places, words)
           t == [i \in DOMAIN at |->
                   PathMutation([path EXCEPT ![FirstLike(path, at[i], words)]
                                   = UpperCase(path[at[i]])], "case_switching")]
<1>1. CaseSwitching(path) = t
  BY DEF CaseSwitching, MapSeq
<1>2. IsList(places)
  <2>1. places = [i \in DOMAIN path |-> places[i]]
    OBVIOUS
  <2> HIDE DEF places
  <2> QED BY <2>1, MappedList
<1> HIDE DEF words, places
<1>3. IsList(at)
  BY <1>2, PickedElements
<1> HIDE DEF at
<1>4. \A i \in DOMAIN at : IsMutation(t[i])
  BY MutationIsMutation, PartsAre DEF PathMutation
<1>5. t = [i \in DOMAIN at |-> t[i]]
  OBVIOUS
<1> HIDE DEF t
<1> QED BY <1>1, <1>3, <1>4, <1>5, MappedMutations

\* PathMutator makes mutations.
LEMMA PathMutationsAre ==
  ASSUME NEW path, IsList(path)
  PROVE  AreMutations(PathMutations(path))
<1>1. AreMutations(PathIdEnumeration(path)) /\ AreMutations(VersionSwitching(path))
  BY RenumberedAre, ListsWritten DEF PathIdEnumeration, VersionSwitching
<1>2. /\ AreMutations(AddedExtension(path)) /\ AreMutations(AddingJunk(path))
      /\ AreMutations(PathTraversal(path))
  BY AppendedAre, ListsAssumption, SequenceIsList
     DEF AddedExtension, AddingJunk, PathTraversal
<1>3. AreMutations(CaseSwitching(path))
  BY CaseSwitchingAre
<1>4. AreMutations(DoubleSlashing(path))
  BY MutationIsMutation, PartsAre, OneMutation DEF DoubleSlashing, PathMutation
<1> QED BY <1>1, <1>2, <1>3, <1>4, JoinedMutations DEF PathMutations

\* What the engine can be called with.
IsRequest(request) == IsList(request.path) /\ Len(request.method) \in Nat

\* The mutators make a list of mutations of every request.
LEMMA AllMutationsAre ==
  ASSUME NEW request, IsRequest(request)
  PROVE  AreMutations(AllMutations(request))
BY ParamMutationsAre, HeaderMutationsAre, BodyMutationsAre, MethodMutationsAre,
   PathMutationsAre, NoMutations, JoinedMutations
   DEF AllMutations, IsRequest

-----------------------------------------------------------------------------
(* The engine on one request                                               *)

\* Two mutations with the same fingerprint change the same part in the same way,
\* unless there is nothing in the part that either changes.
LEMMA FingerprintIsChange ==
  ASSUME NEW m, NEW k, IsMutation(m), IsMutation(k), Fingerprint(m) = Fingerprint(k)
  PROVE  SameChange(m, k)
<1>1. \A f \in Parts : m[f] = k[f]
  BY DEF Fingerprint, Parts
<1>2. m.part \in Parts /\ k.part \in Parts
  BY DEF IsMutation
<1>3. CASE m.part = k.part
  BY <1>1, <1>2, <1>3, PartsAre DEF SameChange
<1>4. CASE m.part # k.part
  <2>1. ASSUME NEW x, NEW y, IsMutation(x), IsMutation(y), x.part # y.part,
               \A f \in Parts : x[f] = y[f]
        PROVE  y[x.part] = Blank[x.part]
    <3>1. x.part \in Parts \ {y.part}
      BY <2>1 DEF IsMutation
    <3>2. CASE y.part = "method" /\ x.part = "headers" /\ y.method # Blank.method
      <4>1. x.method = Blank.method
        BY <2>1, <3>2, PartsAre DEF IsMutation
      <4> QED BY <2>1, <3>2, <4>1, PartsAre
    <3> QED BY <2>1, <3>1, <3>2 DEF IsMutation
  <2>2. k[m.part] = Blank[m.part] /\ m[k.part] = Blank[k.part]
    BY <1>1, <1>4, <2>1
  <2> QED BY <1>1, <1>2, <2>2 DEF SameChange
<1> QED BY <1>3, <1>4

\* For every mutation there is one among those that are kept with its change.
LEMMA DeduplicateKeepsChanges ==
  ASSUME NEW all, AreMutations(all)
  PROVE  LET kept == Deduplicate(all)
         IN /\ IsList(kept)
            /\ \A j \in DOMAIN all : \E n \in DOMAIN kept : SameChange(all[j], kept[n])
<1> DEFINE firsts == {i \in DOMAIN all : \A j \in 1 .. (i - 1) :
                        Fingerprint(all[j]) # Fingerprint(all[i])}
           kept == Picked(all, firsts)
<1>1. /\ IsList(all) /\ Len(all) \in Nat /\ DOMAIN all = 1 .. Len(all)
      /\ \A i \in DOMAIN all : IsMutation(all[i])
  BY ListLength DEF AreMutations, ToSet
<1>2. IsList(kept) /\ Len(kept) \in Nat /\ DOMAIN kept = 1 .. Len(kept)
  BY <1>1, PickedAt, ListLength
<1>3. PICK at \in [DOMAIN kept -> firsts \cap DOMAIN all] :
        /\ \A k \in DOMAIN kept : kept[k] = all[at[k]]
        /\ \A k, l \in DOMAIN kept : k < l => at[k] < at[l]
        /\ \A i \in firsts \cap DOMAIN all : \E k \in DOMAIN kept : at[k] = i
  <2>1. IsList(all)
    BY <1>1
  <2> HIDE DEF firsts
  <2> QED BY <2>1, PickedAt
<1>4. Deduplicate(all) = kept
  BY DEF Deduplicate
<1> HIDE DEF kept
<1>5. ASSUME NEW j \in DOMAIN all
      PROVE  \E n \in DOMAIN kept : SameChange(all[j], kept[n])
  <2> DEFINE like == {i \in DOMAIN all : Fingerprint(all[i]) = Fingerprint(all[j])}
  <2>1. like \in SUBSET Nat /\ j \in like
    BY <1>1, <1>5
  <2>2. PICK i \in like : \A k \in like : i <= k
    BY <2>1, LeastNumber
  <2>3. i \in DOMAIN all /\ i \in 1 .. j /\ Fingerprint(all[i]) = Fingerprint(all[j])
    BY <1>1, <1>5, <2>1, <2>2
  <2>4. i \in firsts
    <3>1. ASSUME NEW k \in 1 .. (i - 1) PROVE Fingerprint(all[k]) # Fingerprint(all[i])
      <4>1. k \in DOMAIN all /\ ~(i <= k)
        BY <1>1, <2>3
      <4> QED BY <2>2, <2>3, <4>1
    <3> QED BY <2>3, <3>1
  <2>5. PICK n \in DOMAIN kept : at[n] = i
    BY <1>3, <2>3, <2>4
  <2>6. kept[n] = all[i]
    BY <1>3, <2>5
  <2>7. SameChange(all[j], all[i])
    BY <1>1, <1>5, <2>3, FingerprintIsChange
  <2> QED BY <2>6, <2>7
<1> QED BY <1>2, <1>4, <1>5

\* The severity of a strategy is that of its most severe word.
LEMMA SeverityIsHighest ==
  ASSUME NEW strategy
  PROVE  Severity(strategy)
           = Max({1} \cup {row.severity :
                   row \in {r \in SeverityTable : r.words \cap Words(strategy) # {}}})
<1> DEFINE rows == {r \in SeverityTable : r.words \cap Words(strategy) # {}}
           all == {1} \cup {row.severity : row \in rows}
           s == Severity(strategy)
           has(words) == Words(strategy) \cap words # {}
           w5 == {"tenant_swap", "privilege_esc"}
           w4 == {"garbage_token", "remove_header", "remove_param"}
           w3 == {"method_switch", "path_traversal", "inject"}
           w2 == {"id_enum", "nullify", "tenant"}
<1>1. s = IF has(w5) THEN 5 ELSE IF has(w4) THEN 4 ELSE IF has(w3) THEN 3
          ELSE IF has(w2) THEN 2 ELSE 1
  BY DEF Severity
<1>2. SeverityTable = {[words |-> w5, severity |-> 5], [words |-> w4, severity |-> 4],
                       [words |-> w3, severity |-> 3], [words |-> w2, severity |-> 2]}
  BY DEF SeverityTable
<1>3. \A w : w \cap Words(strategy) = Words(strategy) \cap w
  OBVIOUS
<1> HIDE DEF w5, w4, w3, w2
<1>4. ASSUME NEW x
      PROVE  x \in all <=> (\/ x = 1
                            \/ x = 5 /\ has(w5)
                            \/ x = 4 /\ has(w4)
                            \/ x = 3 /\ has(w3)
                            \/ x = 2 /\ has(w2))
  <2>1. x \in all <=> x = 1 \/ \E row \in rows : x = row.severity
    OBVIOUS
  <2>2. \A row : row \in rows
                  <=> row \in SeverityTable /\ Words(strategy) \cap row.words # {}
    BY <1>3
  <2>3. (\E row \in rows : x = row.severity)
          <=> \E row \in SeverityTable : has(row.words) /\ x = row.severity
    BY <2>2
  <2> HIDE DEF all, rows, has
  <2> QED BY <1>2, <2>1, <2>3
<1> HIDE DEF all, has, s
<1>5. s \in all /\ s \in Int /\ \A x \in all : x \in Int /\ s >= x
  BY <1>1, <1>4
<1>6. Max(all) = s
  <2>1. Max(all) \in all /\ \A x \in all : Max(all) >= x
    BY <1>5 DEF Max
  <2>2. Max(all) \in Int /\ Max(all) >= s /\ s >= Max(all)
    BY <1>5, <2>1
  <2> QED BY <1>5, <2>2
<1> QED BY <1>6 DEF all, s

-----------------------------------------------------------------------------
(* Paths                                                                   *)

\* Where the names of a path are: in its order, and a slash between two.
NamesAt(path, n, at) ==
  /\ at \in [1 .. n -> 1 .. Len(path)]
  /\ \A k \in 1 .. n : path[at[k]] # "/"
  /\ \A k \in 1 .. n - 1 : at[k] + 1 < at[k + 1]
  /\ \A i \in 1 .. Len(path) : path[i] # "/" => \E k \in 1 .. n : at[k] = i

\* The names of a path stand at increasing places of it.
LEMMA NamesHavePlaces ==
  ASSUME NEW path, IsList(path), Alternates(path)
  PROVE  /\ IsList(Names(path))
         /\ \E at : /\ NamesAt(path, Len(Names(path)), at)
                    /\ \A k \in 1 .. Len(Names(path)) : Names(path)[k] = path[at[k]]
<1> DEFINE P == {i \in DOMAIN path : path[i] # "/"}
           names == Picked(path, P)
           n == Len(names)
<1>1. PICK at : PicksAt(path, P, names, at)
  <2> HIDE DEF P
  <2> QED BY PickedPositions
<1>2. IsList(names)
  <2> HIDE DEF P
  <2> QED BY PickedElements
<1>3. Names(path) = names
  BY DEF Names
<1> HIDE DEF names
<1>4. /\ n \in Nat /\ DOMAIN names = 1 .. n
      /\ Len(path) \in Nat /\ DOMAIN path = 1 .. Len(path)
  BY <1>2, ListLength
<1>5. /\ at \in [1 .. n -> 1 .. Len(path)]
      /\ \A k \in 1 .. n : path[at[k]] # "/" /\ names[k] = path[at[k]]
      /\ \A k, l \in 1 .. n : k < l => at[k] < at[l]
      /\ \A i \in 1 .. Len(path) : path[i] # "/" => \E k \in 1 .. n : at[k] = i
  BY <1>1, <1>4 DEF PicksAt
<1>6. ASSUME NEW k \in 1 .. n - 1
      PROVE  at[k] + 1 < at[k + 1]
  <2>1. k \in 1 .. n /\ k + 1 \in 1 .. n /\ k < k + 1
    BY <1>4
  <2>2. /\ at[k] \in 1 .. Len(path) /\ at[k + 1] \in 1 .. Len(path)
        /\ at[k] < at[k + 1]
        /\ path[at[k]] # "/" /\ path[at[k + 1]] # "/"
    BY <1>5, <2>1
  <2>3. at[k] + 1 # at[k + 1]
    <3>1. ASSUME at[k] + 1 = at[k + 1] PROVE FALSE
      <4>1. at[k] \in 1 .. (Len(path) - 1)
        BY <1>4, <2>2, <3>1
      <4>2. "/" \in {path[at[k]], path[at[k] + 1]}
        BY <4>1 DEF Alternates
      <4> QED BY <2>2, <3>1, <4>2
    <3> QED BY <3>1
  <2> QED BY <1>4, <2>2, <2>3
<1>7. NamesAt(path, n, at)
  BY <1>5, <1>6 DEF NamesAt
<1> QED BY <1>2, <1>3, <1>5, <1>7

\* Whether a path begins and ends with a slash.
Lead(path) == IF path[1] = "/" THEN 1 ELSE 0
\* Does the path end with a slash?
Trail(path) == IF path[Len(path)] = "/" THEN 1 ELSE 0

\* What is left of a path when runs of slashes are collapsed: for each name
\* a slash before it, but for the first name of a path that begins with it,
\* and a slash at the end of a path that ends with one.
LEMMA CollapsedIs ==
  ASSUME NEW path, IsList(path), NEW n \in Nat \ {0}, NEW at, NamesAt(path, n, at)
  PROVE  CollapseSlashes(path) =
           [j \in 1 .. 2 * n + Lead(path) + Trail(path) - 1 |->
              IF (j - Lead(path)) % 2 = 0 THEN "/"
              ELSE path[at[(j - Lead(path) + 1) \div 2]]]
<1> DEFINE lead == Lead(path)
           tail == Trail(path)
<1>0. /\ lead \in {0, 1} /\ lead = (IF path[1] = "/" THEN 1 ELSE 0)
      /\ tail \in {0, 1} /\ tail = (IF path[Len(path)] = "/" THEN 1 ELSE 0)
  BY DEF Lead, Trail
<1> USE <1>0
<1> HIDE DEF lead, tail
<1> DEFINE L == Len(path)
           K == {i \in DOMAIN path : ~(i > 1 /\ path[i - 1] = "/" /\ path[i] = "/")}
           M == 2 * n + lead + tail - 1
           half(j) == (j - lead + 1) \div 2
           place(j) == IF (j - lead) % 2 # 0 THEN at[half(j)]
                       ELSE IF j = lead THEN 1 ELSE at[half(j)] + 1
           b == [j \in 1 .. M |-> place(j)]
<1>1. /\ L \in Nat /\ DOMAIN path = 1 .. L
      /\ at \in [1 .. n -> 1 .. L]
      /\ \A k \in 1 .. n : path[at[k]] # "/" /\ at[k] \in 1 .. L
      /\ \A k \in 1 .. n - 1 : at[k] + 1 < at[k + 1]
      /\ \A i \in 1 .. L : path[i] # "/" => \E k \in 1 .. n : at[k] = i
  BY ListLength DEF NamesAt
<1>2. \A k, l \in 1 .. n : k < l => at[k] < at[l]
  <2>1. \A k \in 1 .. n - 1 : at[k] < at[k + 1]
    <3>1. ASSUME NEW k \in 1 .. n - 1 PROVE at[k] < at[k + 1]
      <4>1. at[k] + 1 < at[k + 1] /\ k \in 1 .. n /\ k + 1 \in 1 .. n
        BY <1>1
      <4>2. at[k] \in Nat /\ at[k + 1] \in Nat
        BY <1>1, <4>1
      <4> QED BY <4>1, <4>2
    <3> QED BY <3>1
  <2>2. at \in [1 .. n -> Int]
    BY <1>1
  <2> QED BY <2>1, <2>2, GrowingNumbers
\* A position of the result belongs to a name, is the first slash, or is the
\* slash after a name.
<1>3. ASSUME NEW j \in 1 .. M
      PROVE  \/ /\ (j - lead) % 2 # 0 /\ half(j) \in 1 .. n /\ j = 2 * half(j) + lead - 1
                /\ place(j) = at[half(j)]
             \/ (j - lead) % 2 = 0 /\ j = lead /\ j = 1 /\ lead = 1 /\ place(j) = 1
             \/ /\ (j - lead) % 2 = 0 /\ j # lead
                /\ half(j) \in 1 .. n /\ j = 2 * half(j) + lead
                /\ (half(j) = n => tail = 1)
                /\ place(j) = at[half(j)] + 1
  OBVIOUS
<1> HIDE DEF place
<1>4. lead = 1 => at[1] > 1
  <2>1. 1 \in 1 .. n /\ at[1] \in 1 .. L /\ path[at[1]] # "/"
    BY <1>1
  <2> QED BY <2>1
<1>5. tail = 1 => \A k \in 1 .. n : at[k] < L
  BY <1>1
<1>6. ASSUME NEW k \in 1 .. n, k # n \/ tail = 1
      PROVE  /\ at[k] + 1 \in 1 .. L /\ path[at[k] + 1] = "/"
             /\ at[k] + 1 \in K
  <2>1. at[k] \in 1 .. L /\ at[k] < L
    <3>1. CASE k = n
      BY <1>1, <1>5, <1>6, <3>1
    <3>2. CASE k # n
      <4>1. k \in 1 .. n - 1 /\ k + 1 \in 1 .. n
        BY <3>2
      <4>2. at[k] + 1 < at[k + 1] /\ at[k + 1] \in 1 .. L /\ at[k] \in 1 .. L
        BY <1>1, <4>1
      <4> QED BY <1>1, <4>2
    <3> QED BY <3>1, <3>2
  <2>2. at[k] + 1 \in 1 .. L /\ (at[k] + 1) - 1 = at[k] /\ path[at[k]] # "/"
    BY <1>1, <2>1
  <2>3. at[k] + 1 \in K
    BY <1>1, <2>2
  <2>4. path[at[k] + 1] = "/"
    <3>1. ASSUME path[at[k] + 1] # "/" PROVE FALSE
      <4>1. PICK l \in 1 .. n : at[l] = at[k] + 1
        BY <1>1, <2>2, <3>1
      <4>2. k < l
        <5>1. ASSUME l <= k PROVE FALSE
          <6>1. l = k \/ at[l] < at[k]
            BY <1>2, <5>1
          <6> QED BY <1>1, <2>1, <4>1, <6>1
        <5> QED BY <5>1
      <4>3. k \in 1 .. n - 1 /\ k + 1 \in 1 .. n /\ (k + 1 = l \/ k + 1 < l)
        BY <4>2
      <4>4. at[k] + 1 < at[k + 1] /\ (k + 1 = l \/ at[k + 1] < at[l])
        BY <1>1, <1>2, <4>3
      <4>5. at[k + 1] \in 1 .. L
        BY <1>1, <4>3
      <4> QED BY <2>1, <4>1, <4>4, <4>5
    <3> QED BY <3>1
  <2> QED BY <2>2, <2>3, <2>4
<1>7. ASSUME NEW k \in 1 .. n
      PROVE  at[k] \in K
  BY <1>1
<1>8. lead = 1 => 1 \in K /\ 1 \in 1 .. L
  <2>1. 1 \in 1 .. n /\ at[1] \in 1 .. L
    BY <1>1
  <2>2. 1 \in 1 .. L
    BY <1>1, <2>1
  <2> QED BY <1>1, <2>2
<1> HIDE DEF K
<1>9. b \in [1 .. M -> K \cap DOMAIN path]
  <2>1. ASSUME NEW j \in 1 .. M PROVE place(j) \in K \cap DOMAIN path
    <3>1. CASE (j - lead) % 2 # 0
      <4>1. half(j) \in 1 .. n /\ place(j) = at[half(j)]
        BY <1>3, <3>1
      <4> QED BY <1>1, <1>7, <4>1
    <3>2. CASE (j - lead) % 2 = 0 /\ j = lead
      <4>1. lead = 1 /\ place(j) = 1
        BY <1>3, <3>2
      <4> QED BY <1>1, <1>8, <4>1
    <3>3. CASE (j - lead) % 2 = 0 /\ j # lead
      <4>1. half(j) \in 1 .. n /\ place(j) = at[half(j)] + 1 /\ (half(j) = n => tail = 1)
        BY <1>3, <3>3
      <4> QED BY <1>1, <1>6, <4>1
    <3> QED BY <3>1, <3>2, <3>3
  <2> QED BY <2>1
<1>10. \A j \in 1 .. M - 1 : b[j] < b[j + 1]
  <2>1. ASSUME NEW j \in 1 .. M - 1 PROVE place(j) < place(j + 1)
    <3>1. j \in 1 .. M /\ j + 1 \in 1 .. M
      OBVIOUS
    <3>2. CASE (j - lead) % 2 # 0
      <4>1. /\ half(j) \in 1 .. n /\ place(j) = at[half(j)] /\ j = 2 * half(j) + lead - 1
        BY <1>3, <3>1, <3>2
      <4>2. ((j + 1) - lead) % 2 = 0 /\ j + 1 # lead
        BY <3>2, <4>1
      <4>3. place(j + 1) = at[half(j + 1)] + 1 /\ half(j + 1) = half(j)
        BY <1>3, <3>1, <4>1, <4>2
      <4>4. at[half(j)] \in Nat
        BY <1>1, <4>1
      <4> QED BY <4>1, <4>3, <4>4
    <3>3. CASE (j - lead) % 2 = 0
      <4>1. ((j + 1) - lead) % 2 # 0
        BY <3>3
      <4>2. /\ half(j + 1) \in 1 .. n /\ place(j + 1) = at[half(j + 1)]
            /\ j + 1 = 2 * half(j + 1) + lead - 1
        BY <1>3, <3>1, <4>1
      <4>3. CASE j = lead
        <5>1. place(j) = 1 /\ half(j + 1) = 1 /\ lead = 1
          BY <1>3, <3>1, <3>3, <4>2, <4>3
        <5> QED BY <1>1, <1>4, <4>2, <5>1
      <4>4. CASE j # lead
        <5>1. /\ half(j) \in 1 .. n /\ j = 2 * half(j) + lead
              /\ place(j) = at[half(j)] + 1
          BY <1>3, <3>1, <3>3, <4>4
        <5>2. half(j + 1) = half(j) + 1
          BY <4>2, <5>1
        <5>3. half(j) \in 1 .. n - 1
          BY <4>2, <5>1, <5>2
        <5> QED BY <1>1, <4>2, <5>1, <5>2, <5>3
      <4> QED BY <4>3, <4>4
    <3> QED BY <3>2, <3>3
  <2> QED BY <2>1
<1>11. ASSUME NEW i \in K \cap DOMAIN path
       PROVE  \E j \in 1 .. M : b[j] = i
  <2>1. CASE path[i] # "/"
    <3>1. PICK k \in 1 .. n : at[k] = i
      BY <1>1, <1>11, <2>1
    <3> DEFINE j == 2 * k + lead - 1
    <3>2. j \in 1 .. M /\ (j - lead) % 2 # 0 /\ half(j) = k
      OBVIOUS
    <3> HIDE DEF j
    <3>3. place(j) = at[k]
      BY <1>3, <3>2
    <3> QED BY <3>1, <3>2, <3>3
  <2>2. CASE path[i] = "/" /\ i = 1
    <3>1. lead = 1 /\ 1 \in 1 .. M /\ (1 - lead) % 2 = 0
      BY <2>2
    <3>2. place(1) = 1
      BY <1>3, <3>1
    <3> QED BY <2>2, <3>1, <3>2
  <2>3. CASE path[i] = "/" /\ i # 1
    <3>1. i - 1 \in 1 .. L /\ path[i - 1] # "/" /\ i \in 1 .. L
      BY <1>1, <1>11, <2>3 DEF K
    <3>2. PICK k \in 1 .. n : at[k] = i - 1
      BY <1>1, <3>1
    <3>3. k = n => tail = 1
      <4>1. ASSUME k = n, path[L] # "/" PROVE FALSE
        <5>0. L \in 1 .. L
          BY <1>1, <3>1
        <5>1. PICK l \in 1 .. n : at[l] = L
          BY <1>1, <4>1, <5>0
        <5>2. l = k \/ at[l] < at[k]
          BY <1>2, <4>1
        <5>3. at[k] < L /\ at[k] # L
          BY <1>1, <2>3, <3>1, <3>2, <4>1
        <5> QED BY <1>1, <3>1, <3>2, <5>1, <5>2, <5>3
      <4> QED BY <4>1
    <3> DEFINE j == 2 * k + lead
    <3>4. j \in 1 .. M /\ (j - lead) % 2 = 0 /\ half(j) = k /\ j # lead
      BY <3>3
    <3> HIDE DEF j
    <3>5. place(j) = at[k] + 1
      BY <1>3, <3>4
    <3>6. at[k] + 1 = i
      BY <3>1, <3>2
    <3> QED BY <3>4, <3>5, <3>6
  <2> QED BY <2>1, <2>2, <2>3
<1>12. CollapseSlashes(path) = [j \in 1 .. M |-> path[b[j]]]
  <2>1. M \in Nat
    OBVIOUS
  <2>2. CollapseSlashes(path) = Picked(path, K)
    BY DEF CollapseSlashes, K
  <2> HIDE DEF b, M
  <2>3. K \in SUBSET DOMAIN path /\ K \cap DOMAIN path = K
    BY DEF K
  <2>4. Enumerates(M, b, K)
    BY <1>9, <1>10, <1>11, <2>3 DEF Enumerates
  <2> QED BY <2>1, <2>2, <2>3, <2>4, PickedIs
<1>13. ASSUME NEW j \in 1 .. M
       PROVE  path[b[j]] = IF (j - lead) % 2 = 0 THEN "/" ELSE path[at[(j - lead + 1) \div 2]]
  <2>1. CASE (j - lead) % 2 # 0
    BY <1>3, <2>1
  <2>2. CASE j = lead
    BY <1>3, <2>2
  <2>3. CASE (j - lead) % 2 = 0 /\ j # lead
    BY <1>3, <1>6, <2>3
  <2> QED BY <2>1, <2>2, <2>3
<1> QED BY <1>12, <1>13 DEF lead, tail

\* A path of slashes only becomes the root.
LEMMA NoNamesNoSlashes ==
  ASSUME NEW path, IsList(path), path # <<>>, \A i \in DOMAIN path : path[i] = "/"
  PROVE  CollapseSlashes(path) = <<"/">>
<1> DEFINE K == {i \in DOMAIN path : ~(i > 1 /\ path[i - 1] = "/" /\ path[i] = "/")}
           b == [k \in 1 .. 1 |-> 1]
<1>1. Len(path) \in Nat \ {0} /\ DOMAIN path = 1 .. Len(path)
  BY ListLength, EmptySeq DEF IsList
<1>2. K = {1}
  BY <1>1
<1>3. Enumerates(1, b, K)
  BY <1>2 DEF Enumerates
<1>4. K \in SUBSET DOMAIN path
  OBVIOUS
<1>5. Picked(path, K) = [k \in 1 .. 1 |-> path[b[k]]]
  <2> HIDE DEF K, b
  <2> QED BY <1>3, <1>4, PickedIs
<1>6. [k \in 1 .. 1 |-> path[b[k]]] = <<"/">>
  BY <1>1
<1> QED BY <1>5, <1>6 DEF CollapseSlashes

\* A path in normal form is the canonical one.
LEMMA NormalIsCanonical ==
  ASSUME NEW path, IsList(path), Alternates(path)
  PROVE  NormalizePath(path) = Canonical(path) /\ IsList(Canonical(path))
<1> DEFINE names == Names(path)
           n == Len(names)
           one == CollapseSlashes(path)
<1>1. PICK at : NamesAt(path, n, at) /\ \A k \in 1 .. n : names[k] = path[at[k]]
  BY NamesHavePlaces
<1>2. /\ IsList(names) /\ n \in Nat /\ DOMAIN names = 1 .. n /\ (n = 0 <=> names = <<>>)
      /\ Len(path) \in Nat /\ DOMAIN path = 1 .. Len(path)
  BY NamesHavePlaces, ListLength, EmptySeq DEF IsList
<1> HIDE DEF names
<1>3. CASE n = 0
  <2>1. Canonical(path) = <<"/">>
    BY <1>2, <1>3 DEF Canonical, names
  <2>2. NormalizePath(path) = <<"/">>
    <3>1. CASE path = <<>>
      BY <3>1 DEF NormalizePath
    <3>2. CASE path # <<>>
      <4>1. \A i \in DOMAIN path : path[i] = "/"
        BY <1>1, <1>2, <1>3 DEF NamesAt
      <4>2. one = <<"/">>
        BY <3>2, <4>1, NoNamesNoSlashes
      <4>3. Len(<<"/">>) = 1 /\ Head(<<"/">>) = "/"
        OBVIOUS
      <4> HIDE DEF one
      <4>4. NormalizePath(path)
              = LET cut == IF Len(one) > 1 THEN RStrip(one) ELSE one
                IN IF Head(cut) # "/" THEN <<"/">> \o cut ELSE cut
        BY <3>2 DEF NormalizePath, one
      <4> QED BY <4>2, <4>3, <4>4
    <3> QED BY <3>1, <3>2
  <2> QED BY <2>1, <2>2, ListsWritten
<1>4. CASE n # 0
  <2> DEFINE lead == Lead(path)
             tail == Trail(path)
             M == 2 * n + lead + tail - 1
             m == 2 * n + lead - 1
             cut == IF Len(one) > 1 THEN RStrip(one) ELSE one
             canonical == [i \in 1 .. (2 * n) |-> IF i % 2 = 1 THEN "/" ELSE names[i \div 2]]
  <2>1. n \in Nat \ {0} /\ lead \in {0, 1} /\ tail \in {0, 1}
    BY <1>2, <1>4 DEF Lead, Trail
  <2>2. one = [j \in 1 .. M |->
                 IF (j - lead) % 2 = 0 THEN "/" ELSE path[at[(j - lead + 1) \div 2]]]
    <3> HIDE DEF n
    <3> QED BY <1>1, <2>1, CollapsedIs
  <2>3. /\ \A k \in 1 .. n : at[k] \in 1 .. Len(path) /\ path[at[k]] # "/" /\ names[k] = path[at[k]]
    BY <1>1 DEF NamesAt
  <2>4. path # <<>>
    <3>1. 1 \in 1 .. n /\ at[1] \in 1 .. Len(path)
      BY <1>2, <1>4, <2>3
    <3>2. Len(<<>>) = 0
      OBVIOUS
    <3> QED BY <3>1, <3>2
  <2>5. NormalizePath(path) = IF Head(cut) # "/" THEN <<"/">> \o cut ELSE cut
    BY <2>4 DEF NormalizePath
  <2>6. Canonical(path) = canonical
    BY <1>2, <1>4 DEF Canonical, names
  <2> HIDE DEF one, lead, tail, n
  <2>7. M \in Nat /\ m \in 1 .. M /\ m \in Nat
    BY <2>1
  <2>8. IsList(one) /\ Len(one) = M /\ DOMAIN one = 1 .. M
    <3>1. one = [j \in 1 .. M |-> one[j]]
      BY <2>2
    <3> HIDE DEF M
    <3> QED BY <2>7, <3>1, FunctionIsList, ListLength
  <2>9. \A j \in 1 .. m : one[j] = IF (j - lead) % 2 = 0 THEN "/" ELSE names[(j - lead + 1) \div 2]
    <3>1. ASSUME NEW j \in 1 .. m, (j - lead) % 2 # 0
          PROVE  one[j] = names[(j - lead + 1) \div 2]
      <4>1. (j - lead + 1) \div 2 \in 1 .. n /\ j \in 1 .. M
        BY <2>1, <2>7, <3>1
      <4> QED BY <2>2, <2>3, <3>1, <4>1
    <3>2. ASSUME NEW j \in 1 .. m, (j - lead) % 2 = 0
          PROVE  one[j] = "/"
      BY <2>1, <2>2, <2>7, <3>2
    <3> QED BY <3>1, <3>2
  <2>10. one[m] # "/" /\ \A j \in 1 .. M : j > m => one[j] = "/"
    <3>1. (m - lead) % 2 # 0 /\ (m - lead + 1) \div 2 = n
      BY <2>1
    <3>2. one[m] = names[n]
      BY <2>1, <2>7, <2>9, <3>1
    <3>3. ASSUME NEW j \in 1 .. M, j > m PROVE (j - lead) % 2 = 0
      BY <2>1, <3>3
    <3>4. \A j \in 1 .. M : j > m => one[j] = "/"
      BY <2>2, <3>3
    <3>5. n \in 1 .. n
      BY <2>1
    <3>6. names[n] # "/"
      BY <2>3, <3>5
    <3> QED BY <3>2, <3>4, <3>6
  <2> HIDE DEF M, m
  <2>11. cut = [j \in 1 .. m |-> one[j]]
    <3>1. CASE Len(one) > 1
      <4> DEFINE R == {i \in DOMAIN one : \E j \in i .. Len(one) : one[j] # "/"}
                 b == [k \in 1 .. m |-> k]
      <4>1. R = 1 .. m
        <5>1. ASSUME NEW i \in 1 .. m PROVE i \in R
          BY <2>7, <2>8, <2>10
        <5>2. ASSUME NEW i \in R PROVE i \in 1 .. m
          <6>1. PICK j \in i .. M : one[j] # "/" /\ i \in 1 .. M
            BY <2>8
          <6>2. j \in 1 .. M /\ ~(j > m)
            BY <2>7, <2>10, <6>1
          <6> QED BY <2>7, <6>1, <6>2
        <5> QED BY <5>1, <5>2
      <4>2. Enumerates(m, b, R)
        BY <2>7, <4>1 DEF Enumerates
      <4>3. R \in SUBSET DOMAIN one
        OBVIOUS
      <4>4. Picked(one, R) = [k \in 1 .. m |-> one[b[k]]]
        <5> HIDE DEF R, b
        <5> QED BY <2>7, <2>8, <4>2, <4>3, PickedIs
      <4>5. cut = Picked(one, R)
        BY <3>1 DEF RStrip
      <4> QED BY <4>4, <4>5
    <3>2. CASE ~(Len(one) > 1)
      <4>1. M = m
        BY <2>1, <2>7, <2>8, <3>2 DEF M, m
      <4>2. one = [j \in 1 .. M |-> one[j]]
        BY <2>2, <2>8
      <4> QED BY <3>2, <4>1, <4>2
    <3> QED BY <3>1, <3>2
  <2> HIDE DEF cut
  <2>12. IsList(cut) /\ Len(cut) = m /\ DOMAIN cut = 1 .. m
    <3>1. cut = [j \in 1 .. m |-> cut[j]]
      BY <2>11
    <3> QED BY <2>7, <3>1, FunctionIsList, ListLength
  <2>13. Head(cut) = one[1]
    <3>1. PICK S : cut \in Seq(S)
      BY <2>12 DEF IsList
    <3>2. cut # <<>> /\ 1 \in 1 .. m
      BY <2>7, <2>12
    <3>3. Head(cut) = cut[1]
      BY <3>1, <3>2
    <3> QED BY <2>11, <3>2, <3>3
  <2>14. CASE lead = 1
    <3>1. Head(cut) = "/" /\ m = 2 * n
      BY <2>1, <2>7, <2>9, <2>13, <2>14 DEF m
    <3>2. \A j \in 1 .. m : one[j] = canonical[j]
      BY <2>1, <2>9, <2>14, <3>1
    <3>3. cut = canonical
      BY <2>11, <3>1, <3>2
    <3> QED BY <2>5, <2>6, <2>12, <3>1, <3>3
  <2>15. CASE lead = 0
    <3>1. Head(cut) # "/" /\ m = 2 * n - 1
      <4>1. one[1] = names[1]
        BY <2>1, <2>7, <2>9, <2>15
      <4> QED BY <2>1, <2>3, <2>13, <2>15, <4>1 DEF m
    <3> DEFINE whole == <<"/">> \o cut
    <3>2. /\ IsList(whole) /\ Len(whole) = 2 * n
          /\ whole[1] = "/" /\ \A j \in 1 .. m : whole[1 + j] = cut[j]
      <4>1. IsList(<<"/">>) /\ Len(<<"/">>) = 1 /\ <<"/">>[1] = "/"
        BY ListsWritten
      <4>2. /\ IsList(whole) /\ Len(whole) = Len(<<"/">>) + Len(cut)
            /\ \A i \in 1 .. Len(<<"/">>) : whole[i] = <<"/">>[i]
            /\ \A i \in 1 .. Len(cut) : whole[Len(<<"/">>) + i] = cut[i]
        BY <2>12, <4>1, Concatenated
      <4> HIDE DEF whole
      <4> QED BY <2>1, <2>7, <2>12, <3>1, <4>1, <4>2
    <3> HIDE DEF whole
    <3>3. \A j \in 1 .. 2 * n : whole[j] = canonical[j]
      <4>1. ASSUME NEW j \in 1 .. 2 * n, j # 1 PROVE whole[j] = canonical[j]
        <5>1. j - 1 \in 1 .. m /\ 1 + (j - 1) = j /\ (j - 1) - lead + 1 = j
              /\ (((j - 1) - lead) % 2 = 0 <=> j % 2 = 1)
          BY <2>1, <2>15, <3>1, <4>1
        <5>2. whole[j] = one[j - 1]
          BY <2>11, <3>2, <5>1
        <5> QED BY <2>9, <5>1, <5>2
      <4>2. canonical[1] = "/"
        BY <2>1
      <4> QED BY <3>2, <4>1, <4>2
    <3>4. whole = [j \in 1 .. 2 * n |-> whole[j]]
      <4>1. PICK S : whole \in Seq(S)
        BY <3>2 DEF IsList
      <4> QED BY <3>2, <4>1
    <3>5. whole = canonical
      BY <3>3, <3>4
    <3> QED BY <2>5, <2>6, <3>1, <3>2, <3>5 DEF whole
  <2> QED BY <2>1, <2>14, <2>15
<1> QED BY <1>3, <1>4

-----------------------------------------------------------------------------
(* Visits                                                                  *)

\* What parse() needs of an operation of a document.
IsVisit(v) ==
  \/ v.is = "path"
  \/ /\ v.is = "operation"
     /\ IsList(v.path) /\ Alternates(v.path)
     /\ v.details.is # "junk" => IsList(v.details.parameters.list)

IsEntry(entry) ==
  entry.is # "junk" =>
    /\ IsList(entry.path) /\ Alternates(entry.path)
    /\ IsList(entry.operations)
    /\ \A j \in DOMAIN entry.operations :
         entry.operations[j].details.is # "junk" =>
           IsList(entry.operations[j].details.parameters.list)

VisitsOf(entry) ==
  IF entry.is = "junk" THEN <<[is |-> "path", path |-> entry.path]>>
  ELSE [j \in DOMAIN entry.operations |->
          [is |-> "operation", path |-> entry.path,
           method |-> entry.operations[j].method,
           details |-> entry.operations[j].details]]

\* What is looked through of one path of a document.
LEMMA EntryIsVisited ==
  ASSUME NEW entry, IsEntry(entry)
  PROVE  IsList(VisitsOf(entry)) /\ \A v \in ToSet(VisitsOf(entry)) : IsVisit(v)
<1>1. CASE entry.is = "junk"
  <2> DEFINE v == [is |-> "path", path |-> entry.path]
  <2>1. VisitsOf(entry) = <<v>> /\ v.is = "path"
    BY <1>1 DEF VisitsOf
  <2> HIDE DEF v
  <2>2. ToSet(<<v>>) = {v} /\ IsList(<<v>>)
    BY ListsWritten DEF ToSet
  <2> QED BY <2>1, <2>2 DEF IsVisit
<1>2. CASE entry.is # "junk"
  <2> DEFINE t == [j \in DOMAIN entry.operations |->
                     [is |-> "operation", path |-> entry.path,
                      method |-> entry.operations[j].method,
                      details |-> entry.operations[j].details]]
  <2>1. VisitsOf(entry) = t
    BY <1>2 DEF VisitsOf
  <2>2. IsList(entry.operations)
    BY <1>2 DEF IsEntry
  <2>3. \A j \in DOMAIN entry.operations : IsVisit(t[j])
    BY <1>2 DEF IsVisit, IsEntry
  <2>4. t = [j \in DOMAIN entry.operations |-> t[j]]
    OBVIOUS
  <2> HIDE DEF t
  <2>5. IsList(t) /\ DOMAIN t = DOMAIN entry.operations
    BY <2>2, <2>4, MappedList
  <2> QED BY <2>1, <2>3, <2>5 DEF ToSet
<1> QED BY <1>1, <1>2

\* The entries of a document with paths are listed.
LEMMA EntriesAre ==
  ASSUME NEW d, IsDocument(d), HasPaths(d)
  PROVE  IsList(d.paths) /\ \A i \in DOMAIN d.paths : IsEntry(d.paths[i])
BY SequenceIsList DEF IsDocument, IsEntry

\* The list of all that is looked through.
LEMMA VisitsAre ==
  ASSUME NEW d, IsDocument(d), HasPaths(d)
  PROVE  IsList(Visits(d)) /\ \A i \in DOMAIN Visits(d) : IsVisit(Visits(d)[i])
<1> DEFINE t == [i \in DOMAIN d.paths |-> VisitsOf(d.paths[i])]
<1>1. Visits(d) = FlattenSeq(t)
  BY DEF Visits, VisitsOf
<1>2. IsList(d.paths) /\ \A i \in DOMAIN d.paths : IsEntry(d.paths[i])
  BY EntriesAre
<1>3. \A i \in DOMAIN d.paths : IsList(t[i]) /\ \A v \in ToSet(t[i]) : IsVisit(v)
  BY <1>2, EntryIsVisited
<1>4. t = [i \in DOMAIN d.paths |-> t[i]]
  OBVIOUS
<1> HIDE DEF t
<1>5. IsList(t) /\ DOMAIN t = DOMAIN d.paths
  BY <1>2, <1>4, MappedList
<1>6. /\ IsList(FlattenSeq(t))
      /\ ToSet(FlattenSeq(t)) = UNION {ToSet(t[i]) : i \in DOMAIN t}
  BY <1>3, <1>5, FlattenElements
<1>7. \A v \in ToSet(FlattenSeq(t)) : IsVisit(v)
  BY <1>3, <1>5, <1>6
<1> QED BY <1>1, <1>6, <1>7 DEF ToSet

-----------------------------------------------------------------------------
(* Endpoints                                                               *)

\* The body parameter is none or one of the parameters.
LEMMA BodyParamPlace ==
  ASSUME NEW params, IsList(params.list)
  PROVE  BodyParam(params) = 0 \/ BodyParam(params) \in DOMAIN params.list
<1> DEFINE I == {i \in 1 .. Len(params.list) : params.list[i].is = "junk" \/ params.list[i].in = "body"}
           first == IF I # {} THEN Min(I) ELSE 0
<1>1. SelectInSeq(params.list, LAMBDA p : p.is = "junk" \/ p.in = "body") = first
  BY DEF SelectInSeq
<1>2. BodyParam(params) = first
  BY <1>1 DEF BodyParam
<1>3. Len(params.list) \in Nat /\ DOMAIN params.list = 1 .. Len(params.list)
  BY ListLength
<1>4. ASSUME I # {} PROVE Min(I) \in DOMAIN params.list
  <2>1. I \in SUBSET Nat
    BY <1>3
  <2>2. PICK m \in I : \A i \in I : m <= i
    BY <1>4, <2>1, LeastNumber
  <2> QED BY <1>3, <2>2 DEF Min
<1> QED BY <1>2, <1>4

\* The parameters that are looked at are listed.
LEMMA LookedAtIsList ==
  ASSUME NEW body, NEW params, IsList(params.list)
  PROVE  IsList(LookedAt(body, params))
<1>1. CASE BodyParam(params) \in DOMAIN params.list
  <2> DEFINE n == BodyParam(params)
             t == SubSeq(params.list, 1, n)
  <2>1. Len(params.list) \in Nat /\ DOMAIN params.list = 1 .. Len(params.list)
    BY ListLength
  <2>2. PICK S : params.list \in Seq(S)
    BY DEF IsList
  <2> HIDE DEF n
  <2>3. t \in Seq(S)
    BY <1>1, <2>1, <2>2 DEF n
  <2>4. IsList(t)
    <3> HIDE DEF t
    <3>1. Len(t) \in Nat /\ t = [i \in 1 .. Len(t) |-> t[i]]
      BY <2>3
    <3> QED BY <3>1, FunctionIsList
  <2> QED BY <2>4, ListsWritten DEF LookedAt, n
<1>2. CASE BodyParam(params) = 0
  BY <1>2, ListsWritten DEF LookedAt
<1> QED BY <1>1, <1>2, BodyParamPlace

\* What is made of an operation of the document.
Describes(e, v, d, resolves) ==
  /\ <<e.method, e.path>> = Key(v)
  /\ e = Endpoint(v, d, resolves)

\* What the bridges need of an endpoint.
IsEndpoint(e) == IsList(e.path) /\ Len(e.method) \in Nat

\* The endpoint made of a visit is one, and describes it.
LEMMA EndpointFits ==
  ASSUME NEW v, IsVisit(v), v.is # "path", v.details.is # "junk",
         UpperMethod(v.method) \in ValidMethods, NEW d, NEW resolves
  PROVE  LET e == Endpoint(v, d, resolves)
         IN /\ Describes(e, v, d, resolves)
            /\ IsEndpoint(e)
            /\ e.raises \in BOOLEAN
            /\ IsList(e.notes) /\ \A i \in DOMAIN e.notes : e.notes[i] = "unresolved"
<1> DEFINE seen(node) == IF resolves THEN ResolveRef(node) ELSE node
           list == v.details.parameters.list
           params == [is |-> v.details.parameters.is,
                      list |-> [i \in DOMAIN list |-> seen(list[i])]]
           met == <<v.details.body>> \o LookedAt(seen(v.details.body), params) \o list
           lost == Picked(met, {i \in DOMAIN met : resolves /\ Unresolvable(met[i])})
           body == ExtractBodySchema(UpperMethod(v.method), seen(v.details.body), params)
           refs == [i \in DOMAIN lost |-> "unresolved"]
           schema == IF resolves /\ body.schema = "dangling" THEN <<"unresolved">> ELSE <<>>
           notes == refs \o schema
           e == Endpoint(v, d, resolves)
<1>1. /\ e.method = UpperMethod(v.method) /\ e.path = NormalizePath(v.path)
      /\ e.auth = CheckAuth(v.details, d) /\ e.notes = notes /\ e.raises = body.raises
  BY DEF Endpoint
<1>2. body.raises \in BOOLEAN
  BY DEF ExtractBodySchema
<1>3. IsList(list) /\ IsList(v.path) /\ Alternates(v.path)
  BY DEF IsVisit
<1>4. IsList(params.list)
  <2> DEFINE t == [i \in DOMAIN list |-> seen(list[i])]
  <2>1. t = [i \in DOMAIN list |-> t[i]] /\ params.list = t
    OBVIOUS
  <2> HIDE DEF t, params
  <2> QED BY <1>3, <2>1, MappedList
<1>5. IsList(met)
  <2> HIDE DEF params, seen, list
  <2>1. IsList(LookedAt(seen(v.details.body), params)) /\ IsList(<<v.details.body>>)
    BY <1>4, LookedAtIsList, ListsWritten
  <2> QED BY <1>3, <2>1, Concatenated
<1>6. IsList(lost)
  <2> HIDE DEF met
  <2> QED BY <1>5, PickedElements
<1>7. IsList(notes) /\ \A i \in DOMAIN notes : notes[i] = "unresolved"
  <2> HIDE DEF lost, body
  <2>1. refs = [i \in DOMAIN lost |-> refs[i]] /\ DOMAIN refs = DOMAIN lost
    OBVIOUS
  <2>2. \A i \in DOMAIN refs : refs[i] = "unresolved"
    OBVIOUS
  <2>3. IsList(schema) /\ \A i \in DOMAIN schema : schema[i] = "unresolved"
    BY ListsWritten
  <2> HIDE DEF refs, schema
  <2>4. IsList(refs)
    BY <1>6, <2>1, <2>2, MappedList
  <2>5. IsList(refs \o schema)
    BY <2>3, <2>4, Concatenated
  <2>6. /\ Len(refs) \in Nat /\ DOMAIN refs = 1 .. Len(refs)
        /\ Len(schema) \in Nat /\ DOMAIN schema = 1 .. Len(schema)
    BY <2>3, <2>4, ListLength
  <2>7. \A i \in DOMAIN (refs \o schema) : (refs \o schema)[i] = "unresolved"
    BY <2>2, <2>3, <2>6
  <2> QED BY <2>5, <2>7
<1> HIDE DEF e, body, notes, refs, schema
<1>8. NormalizePath(v.path) = Canonical(v.path) /\ IsList(Canonical(v.path))
  BY <1>3, NormalIsCanonical
<1>9. Len(UpperMethod(v.method)) \in Nat
  BY MethodsAssumption
<1>10. Describes(e, v, d, resolves) /\ IsEndpoint(e)
  <2>1. e = Endpoint(v, d, resolves)
    BY DEF e
  <2> QED BY <1>1, <1>8, <1>9, <2>1 DEF Describes, IsEndpoint, Key
<1> QED BY <1>1, <1>2, <1>7, <1>10 DEF e

-----------------------------------------------------------------------------
(* What parse() has after each visit                                       *)

\* What holds of 0, and of i + 1 when it holds of i, holds at the end.
LEMMA FromZero ==
  ASSUME NEW n \in Nat, NEW H, 0 \in H,
         \A i \in 0 .. n - 1 : i \in H => i + 1 \in H
  PROVE  n \in H
<1>1. CASE n = 0
  BY <1>1
<1>2. CASE n # 0
  <2>1. 1 \in H
    <3>1. 0 \in 0 .. n - 1 /\ 0 + 1 = 1
      BY <1>2
    <3> QED BY <3>1
  <2>2. \A i \in 1 .. n - 1 : i \in H => i + 1 \in H
    OBVIOUS
  <2>3. 1 .. n \subseteq H /\ n \in 1 .. n
    BY <1>2, <2>1, <2>2, UpTo
  <2> QED BY <2>3
<1> QED BY <1>1, <1>2

\* The results f of the loops of parse(), one visit at a time.
Steps(f, visits, d, resolves) ==
  /\ f[0] = NoResult(<<>>)
  /\ \A n \in 0 .. Len(visits) - 1 :
       f[n + 1] = Visit(f[n], visits[n + 1], d, resolves)

\* The function `after` that Parse defines by recursion on the visits exists: it takes
\* one step for each of them, and Parse is its last value.
LEMMA ParseSteps ==
  ASSUME NEW d, HasPaths(d), IsList(Visits(d)), NEW resolves, d.has \notin {"none", "junk"}
  PROVE  \E f : /\ Steps(f, Visits(d), d, resolves)
                /\ Parse(d, resolves) = f[Len(Visits(d))]
<1> DEFINE visits == Visits(d)
           L == Len(visits)
           next(r, n) == Visit(r, visits[n], d, resolves)
           first == NoResult(<<>>)
           Fits(n, f) == f = [i \in 0 .. n |-> IF i = 0 THEN first ELSE next(f[i - 1], i)]
           H == {n \in 0 .. L : \E f : Fits(n, f)}
           after == CHOOSE f : Fits(L, f)
<1>1. L \in Nat
  BY ListLength
<1>2. Parse(d, resolves) = after[L]
  BY DEF Parse, HasPaths
<1> HIDE DEF next, first, L
<1>3. 0 \in H
  <2> DEFINE f == [i \in 0 .. 0 |-> first]
  <2>1. f = [i \in 0 .. 0 |-> IF i = 0 THEN first ELSE next(f[i - 1], i)]
    OBVIOUS
  <2>2. Fits(0, f)
    BY <2>1
  <2>3. \E g : Fits(0, g)
    <3> HIDE DEF f, Fits
    <3> QED BY <2>2
  <2> HIDE DEF Fits
  <2> QED BY <1>1, <2>3
<1>4. ASSUME NEW n \in 0 .. L - 1, n \in H
      PROVE  n + 1 \in H
  <2>1. PICK f : Fits(n, f)
    BY <1>4
  <2> DEFINE g == [i \in 0 .. n + 1 |-> IF i = n + 1 THEN next(f[n], i) ELSE f[i]]
  <2>2. ASSUME NEW i \in 0 .. n + 1
        PROVE  g[i] = IF i = 0 THEN first ELSE next(g[i - 1], i)
    <3>1. CASE i = n + 1
      <4>1. i # 0 /\ i - 1 = n /\ n # n + 1 /\ n \in 0 .. n + 1
        BY <3>1, <1>1
      <4>2. g[i] = next(f[n], i) /\ g[n] = f[n]
        BY <3>1, <4>1
      <4> QED BY <4>1, <4>2
    <3>2. CASE i # n + 1
      <4>1. i \in 0 .. n /\ (i # 0 => i - 1 \in 0 .. n)
        BY <3>2, <1>1
      <4>2. f[i] = IF i = 0 THEN first ELSE next(f[i - 1], i)
        BY <4>1, <2>1
      <4>3. g[i] = f[i] /\ (i # 0 => g[i - 1] = f[i - 1])
        BY <3>2, <4>1, <1>1
      <4> QED BY <4>2, <4>3
    <3> QED BY <3>1, <3>2
  <2>3. Fits(n + 1, g)
    <3> HIDE DEF g
    <3>1. g = [i \in 0 .. n + 1 |-> g[i]]
      BY DEF g
    <3> QED BY <2>2, <3>1
  <2>4. n + 1 \in 0 .. L
    BY <1>1
  <2>5. \E h : Fits(n + 1, h)
    <3> HIDE DEF g, Fits
    <3> QED BY <2>3
  <2> HIDE DEF Fits
  <2> QED BY <2>4, <2>5
<1>5. L \in H
  <2> HIDE DEF H
  <2> QED BY <1>1, <1>3, <1>4, FromZero
<1>6. Fits(L, after)
  BY <1>5
<1>7. after[0] = first
  <2>1. 0 \in 0 .. L
    BY <1>1
  <2> HIDE DEF after
  <2> QED BY <1>6, <2>1
<1>8. ASSUME NEW n \in 0 .. L - 1
      PROVE  after[n + 1] = next(after[n], n + 1)
  <2>1. n + 1 \in 0 .. L /\ n + 1 # 0 /\ (n + 1) - 1 = n
    BY <1>1
  <2> HIDE DEF after
  <2> QED BY <1>6, <2>1
<1> HIDE DEF after
<1>9. Steps(after, visits, d, resolves)
  BY <1>7, <1>8 DEF Steps, first, next, L
<1> QED BY <1>2, <1>9 DEF L

(* Errors, counted                                                         *)

\* Places of a list can be counted.
LEMMA PlacesAreFinite ==
  ASSUME NEW n \in Nat, NEW P \in SUBSET (1 .. n)
  PROVE  IsFiniteSet(P) /\ Cardinality(P) \in Nat
<1>1. IsFiniteSet(1 .. n)
  BY FS_Interval
<1>2. IsFiniteSet(P)
  BY <1>1, FS_Subset
<1> QED BY <1>2, FS_CardinalityType

\* The empty list has no notes.
LEMMA NoneNoted ==
  ASSUME NEW kinds
  PROVE  Noted(<<>>, kinds) = 0
<1>1. {i \in DOMAIN <<>> : <<>>[i] \in kinds} = {}
  OBVIOUS
<1> QED BY <1>1, FS_EmptySet DEF Noted

\* A list with an entry appended is a list.
LEMMA AppendedIsList ==
  ASSUME NEW s, IsList(s), NEW x
  PROVE  IsList(Append(s, x))
<1>1. PICK S : s \in Seq(S)
  BY DEF IsList
<1>2. s \in Seq(S \cup {x}) /\ x \in S \cup {x}
  BY <1>1
<1> DEFINE t == Append(s, x)
<1>3. t \in Seq(S \cup {x})
  BY <1>2
<1> HIDE DEF t
<1>4. Len(t) \in Nat /\ t = [i \in 1 .. Len(t) |-> t[i]]
  BY <1>3
<1>5. IsList(t)
  BY <1>4, FunctionIsList
<1> QED BY <1>5 DEF t

\* A note counts as one more of its kind and changes no other count.
LEMMA OneMoreNoted ==
  ASSUME NEW errors, IsList(errors), NEW kind, NEW kinds
  PROVE  /\ IsList(Append(errors, kind))
         /\ Noted(errors, kinds) \in Nat
         /\ Noted(Append(errors, kind), kinds)
              = Noted(errors, kinds) + (IF kind \in kinds THEN 1 ELSE 0)
<1> DEFINE n == Len(errors)
           more == Append(errors, kind)
           P == {i \in DOMAIN errors : errors[i] \in kinds}
           Q == {i \in DOMAIN more : more[i] \in kinds}
<1>1. PICK S : errors \in Seq(S)
  BY DEF IsList
<1>2. n \in Nat /\ DOMAIN errors = 1 .. n
  BY ListLength
<1>3. /\ Len(more) = n + 1 /\ DOMAIN more = 1 .. n + 1
      /\ more[n + 1] = kind /\ \A i \in 1 .. n : more[i] = errors[i]
      /\ more = [i \in 1 .. n + 1 |-> more[i]]
  <2>1. errors \in Seq(S \cup {kind}) /\ kind \in S \cup {kind}
    BY <1>1
  <2>2. /\ more \in Seq(S \cup {kind}) /\ Len(more) = n + 1 /\ more[n + 1] = kind
        /\ \A i \in 1 .. n : more[i] = errors[i]
    BY <1>2, <2>1
  <2> HIDE DEF more
  <2>3. DOMAIN more = 1 .. Len(more) /\ more = [i \in 1 .. Len(more) |-> more[i]]
    BY <2>2
  <2> QED BY <2>2, <2>3
<1> HIDE DEF n, more
<1>4. IsList(more)
  BY <1>2, <1>3, FunctionIsList
<1>5. ASSUME NEW i PROVE i \in Q <=> i \in P \/ (kind \in kinds /\ i = n + 1)
  <2>1. i \in 1 .. n + 1 <=> i \in 1 .. n \/ i = n + 1
    BY <1>2
  <2>2. i \in Q <=> i \in 1 .. n + 1 /\ more[i] \in kinds
    BY <1>3
  <2>3. i \in P <=> i \in 1 .. n /\ errors[i] \in kinds
    BY <1>2
  <2>4. n + 1 \notin 1 .. n
    BY <1>2
  <2> HIDE DEF P, Q
  <2> QED BY <1>3, <2>1, <2>2, <2>3, <2>4
<1>6. P \in SUBSET (1 .. n) /\ n + 1 \notin P
  BY <1>2
<1>9. IsFiniteSet(P) /\ Cardinality(P) \in Nat
  <2> HIDE DEF P
  <2> QED BY <1>2, <1>6, PlacesAreFinite
<1> HIDE DEF P, Q
<1>7. Cardinality(P \cup {n + 1}) = Cardinality(P) + 1
  BY <1>6, <1>9, FS_AddElement
<1>10. Q = IF kind \in kinds THEN P \cup {n + 1} ELSE P
  BY <1>5
<1>8. Cardinality(Q) = Cardinality(P) + (IF kind \in kinds THEN 1 ELSE 0)
  BY <1>9, <1>10, <1>7
<1> QED BY <1>4, <1>9, <1>8 DEF Noted, P, Q, more

\* Notes of other kinds change no count.
LEMMA NoMoreNoted ==
  ASSUME NEW errors, IsList(errors), NEW notes, IsList(notes), NEW kinds,
         \A i \in DOMAIN notes : notes[i] \notin kinds
  PROVE  Noted(errors \o notes, kinds) = Noted(errors, kinds)
<1> DEFINE more == errors \o notes
<1>1. /\ Len(errors) \in Nat /\ DOMAIN errors = 1 .. Len(errors)
      /\ Len(notes) \in Nat /\ DOMAIN notes = 1 .. Len(notes)
  BY ListLength
<1>2. /\ DOMAIN more = 1 .. Len(errors) + Len(notes)
      /\ \A i \in 1 .. Len(errors) : more[i] = errors[i]
      /\ \A i \in DOMAIN more :
              \/ i \in DOMAIN errors /\ more[i] = errors[i]
              \/ i - Len(errors) \in DOMAIN notes /\ more[i] = notes[i - Len(errors)]
  BY Concatenated
<1> HIDE DEF more
<1>3. {i \in DOMAIN more : more[i] \in kinds} = {i \in DOMAIN errors : errors[i] \in kinds}
  BY <1>1, <1>2
<1> QED BY <1>3 DEF Noted, more

-----------------------------------------------------------------------------
(* What parse() has found after n visits                                   *)

\* The notes in place of an endpoint, and the note beside one.
Kinds == {"invalid path", "invalid method", "invalid details", "duplicate"}
Silence == {"missing responses"}

\* The results of a parser.
IsResult(r) ==
  /\ r = [raised |-> r.raised, endpoints |-> r.endpoints, errors |-> r.errors,
          seen |-> r.seen]
  /\ r.raised \in BOOLEAN
  /\ IsList(r.endpoints) /\ IsList(r.errors)
  /\ \A k \in DOMAIN r.endpoints : IsEndpoint(r.endpoints[k])

\* The keys seen are those of the visits that were taken for operations.
SeenAre(r, visits, n) ==
  r.seen = {Key(visits[i]) : i \in Operations(visits) \cap (1 .. n)}

\* Endpoint k is the operation at b[k], and those are the first ones.
FirstsAre(r, visits, n, d, resolves, b) ==
  /\ Enumerates(Len(r.endpoints), b, Firsts(visits) \cap (1 .. n))
  /\ \A k \in 1 .. Len(r.endpoints) : Describes(r.endpoints[k], visits[b[k]], d, resolves)

\* The visits without responses among the first n.
Silent(visits, n) ==
  {i \in Firsts(visits) \cap (1 .. n) : ~visits[i].details.responses}

\* Each visit is an endpoint or a note, and each without responses is noted.
Counted(r, visits, n) ==
  /\ n = Len(r.endpoints) + Noted(r.errors, Kinds)
  /\ Noted(r.errors, Silence) = Cardinality(Silent(visits, n))

\* Until an exception ends it, the parser knows the operations it has met and
\* has their first ones for endpoints; the errors account for the rest.
Accounts(r, visits, n, d, resolves) ==
  /\ IsResult(r)
  /\ ~r.raised => /\ SeenAre(r, visits, n)
                  /\ \E b : FirstsAre(r, visits, n, d, resolves, b)
                  /\ Counted(r, visits, n)

\* Before the first visit all is accounted for.
LEMMA NothingAccounts ==
  ASSUME NEW visits, NEW d, NEW resolves
  PROVE  Accounts(NoResult(<<>>), visits, 0, d, resolves)
<1> DEFINE none == <<>>
           r == NoResult(none)
           b == [k \in 1 .. 0 |-> k]
<1>1. /\ r.raised = FALSE /\ r.endpoints = none /\ r.errors = none /\ r.seen = {}
      /\ r = [raised |-> r.raised, endpoints |-> r.endpoints, errors |-> r.errors,
              seen |-> r.seen]
  BY DEF NoResult
<1>2. IsList(none) /\ DOMAIN none = {} /\ Len(none) = 0
  BY ListsWritten
<1>3. 1 .. 0 = {}
  OBVIOUS
<1>4. Noted(none, Kinds) = 0 /\ Noted(none, Silence) = 0
  BY NoneNoted
<1>5. Silent(visits, 0) = {} /\ Cardinality({}) = 0
  BY FS_EmptySet DEF Silent
<1> HIDE DEF none, r
<1>6. IsResult(r)
  BY <1>1, <1>2 DEF IsResult
<1>7. SeenAre(r, visits, 0)
  BY <1>1, <1>3 DEF SeenAre
<1>8. FirstsAre(r, visits, 0, d, resolves, b)
  BY <1>1, <1>2, <1>3 DEF FirstsAre, Enumerates
<1>9. Counted(r, visits, 0)
  <2>1. Len(r.endpoints) = 0 /\ Noted(r.errors, Kinds) = 0
    BY <1>1, <1>2, <1>4
  <2>2. 0 = Len(r.endpoints) + Noted(r.errors, Kinds)
    BY <2>1
  <2>3. Noted(r.errors, Silence) = Cardinality(Silent(visits, 0))
    BY <1>1, <1>4, <1>5
  <2> QED BY <2>2, <2>3 DEF Counted
<1>10. Accounts(r, visits, 0, d, resolves)
  <2> HIDE DEF b
  <2> QED BY <1>6, <1>7, <1>8, <1>9 DEF Accounts
<1> QED BY <1>10 DEF r, none

\* An error, for a visit that makes no endpoint.
LEMMA NoteAccounts ==
  ASSUME NEW visits, NEW n \in Nat, NEW d, NEW resolves, NEW r,
         Accounts(r, visits, n, d, resolves), ~r.raised,
         n + 1 \notin Firsts(visits),
         n + 1 \in Operations(visits) => Key(visits[n + 1]) \in r.seen,
         NEW kind \in Kinds
  PROVE  Accounts(Note(r, kind), visits, n + 1, d, resolves)
<1> DEFINE s == Note(r, kind)
<1>1. /\ IsResult(r) /\ SeenAre(r, visits, n) /\ Counted(r, visits, n)
      /\ \E b : FirstsAre(r, visits, n, d, resolves, b)
  BY DEF Accounts
<1>2. /\ s.raised = r.raised /\ s.endpoints = r.endpoints /\ s.seen = r.seen
      /\ s.errors = Append(r.errors, kind)
      /\ s = [raised |-> s.raised, endpoints |-> s.endpoints, errors |-> s.errors,
              seen |-> s.seen]
  BY <1>1 DEF Note, IsResult
<1> HIDE DEF s
<1>3. /\ IsList(s.errors)
      /\ Noted(r.errors, Kinds) \in Nat
      /\ Noted(s.errors, Kinds) = Noted(r.errors, Kinds) + 1
      /\ Noted(r.errors, Silence) \in Nat
      /\ Noted(s.errors, Silence) = Noted(r.errors, Silence)
  <2>1. IsList(r.errors) /\ kind \in Kinds /\ kind \notin Silence
    BY <1>1 DEF IsResult, Kinds, Silence
  <2>2. \A K : /\ IsList(Append(r.errors, kind))
               /\ Noted(r.errors, K) \in Nat
               /\ Noted(Append(r.errors, kind), K)
                    = Noted(r.errors, K) + (IF kind \in K THEN 1 ELSE 0)
    BY <2>1, OneMoreNoted
  <2> QED BY <1>2, <2>1, <2>2
<1>4. IsResult(s)
  BY <1>1, <1>2, <1>3 DEF IsResult
<1>5. Firsts(visits) \cap (1 .. n + 1) = Firsts(visits) \cap (1 .. n)
  OBVIOUS
<1>6. SeenAre(s, visits, n + 1)
  <2>1. ASSUME NEW key
        PROVE  (\E i \in Operations(visits) \cap (1 .. n + 1) : key = Key(visits[i]))
                 <=> (\E i \in Operations(visits) \cap (1 .. n) : key = Key(visits[i]))
    <3>1. ASSUME NEW i \in Operations(visits) \cap (1 .. n + 1), key = Key(visits[i])
          PROVE  \E j \in Operations(visits) \cap (1 .. n) : key = Key(visits[j])
      <4>1. CASE i = n + 1
        BY <1>1, <3>1, <4>1 DEF SeenAre
      <4>2. CASE i # n + 1
        <5>1. i \in Operations(visits) \cap (1 .. n)
          BY <4>2
        <5> QED BY <3>1, <5>1
      <4> QED BY <4>1, <4>2
    <3> QED BY <3>1
  <2> QED BY <1>1, <1>2, <2>1 DEF SeenAre
<1>7. \E b : FirstsAre(s, visits, n + 1, d, resolves, b)
  BY <1>1, <1>2, <1>5 DEF FirstsAre
<1>8. Counted(s, visits, n + 1)
  <2>1. Silent(visits, n + 1) = Silent(visits, n)
    BY <1>5 DEF Silent
  <2>2. Len(r.endpoints) \in Nat
    BY <1>1, ListLength DEF IsResult
  <2> QED BY <1>1, <1>2, <1>3, <2>1, <2>2 DEF Counted
<1>9. Accounts(s, visits, n + 1, d, resolves)
  BY <1>4, <1>6, <1>7, <1>8 DEF Accounts
<1> QED BY <1>9 DEF s

\* One more number, greater than the others.
LEMMA OneMoreEnumerated ==
  ASSUME NEW n \in Nat, NEW F, n + 1 \in F, NEW m \in Nat,
         NEW b, Enumerates(m, b, F \cap (1 .. n))
  PROVE  Enumerates(m + 1, [k \in 1 .. m + 1 |-> IF k = m + 1 THEN n + 1 ELSE b[k]],
                    F \cap (1 .. n + 1))
<1> DEFINE c == [k \in 1 .. m + 1 |-> IF k = m + 1 THEN n + 1 ELSE b[k]]
<1>1. /\ b \in [1 .. m -> F \cap (1 .. n)]
      /\ \A k \in 1 .. m - 1 : b[k] < b[k + 1]
      /\ \A i \in F \cap (1 .. n) : \E k \in 1 .. m : b[k] = i
  BY DEF Enumerates
<1>2. c[m + 1] = n + 1 /\ \A k \in 1 .. m : c[k] = b[k] /\ k \in 1 .. m + 1
  OBVIOUS
<1>3. c \in [1 .. m + 1 -> F \cap (1 .. n + 1)]
  <2>1. ASSUME NEW k \in 1 .. m + 1 PROVE c[k] \in F \cap (1 .. n + 1)
    <3>1. CASE k = m + 1
      BY <1>2, <3>1
    <3>2. CASE k # m + 1
      <4>1. k \in 1 .. m
        BY <3>2
      <4> QED BY <1>1, <1>2, <4>1
    <3> QED BY <3>1, <3>2
  <2> QED BY <2>1
<1> HIDE DEF c
<1>4. ASSUME NEW k \in 1 .. (m + 1) - 1 PROVE c[k] < c[k + 1]
  <2>1. k \in 1 .. m /\ b[k] \in 1 .. n
    BY <1>1
  <2>2. CASE k = m
    BY <1>2, <2>1, <2>2
  <2>3. CASE k # m
    <3>1. k \in 1 .. m - 1 /\ k + 1 \in 1 .. m
      BY <2>1, <2>3
    <3> QED BY <1>1, <1>2, <2>1, <3>1
  <2> QED BY <2>2, <2>3
<1>5. ASSUME NEW i \in F \cap (1 .. n + 1) PROVE \E k \in 1 .. m + 1 : c[k] = i
  <2>1. CASE i = n + 1
    <3>1. m + 1 \in 1 .. m + 1
      OBVIOUS
    <3> QED BY <1>2, <2>1, <3>1
  <2>2. CASE i # n + 1
    <3>1. i \in F \cap (1 .. n)
      BY <2>2
    <3>2. PICK k \in 1 .. m : b[k] = i
      BY <1>1, <3>1
    <3> QED BY <1>2, <3>2
  <2> QED BY <2>1, <2>2
<1>6. Enumerates(m + 1, c, F \cap (1 .. n + 1))
  BY <1>3, <1>4, <1>5 DEF Enumerates
<1> QED BY <1>6 DEF c

\* The references of an endpoint that lead nowhere.
AreNotes(notes) == IsList(notes) /\ \A i \in DOMAIN notes : notes[i] = "unresolved"

\* What is noted of the responses of a visit.
Answered(r, v) == IF v.details.responses THEN r ELSE Note(r, "missing responses")

\* A note that responses are missing is no note in place of an endpoint.
LEMMA SilenceNoted ==
  ASSUME NEW errors, IsList(errors)
  PROVE  /\ Noted(errors, Kinds) \in Nat /\ Noted(errors, Silence) \in Nat
         /\ Noted(Append(errors, "missing responses"), Kinds) = Noted(errors, Kinds)
         /\ Noted(Append(errors, "missing responses"), Silence) = Noted(errors, Silence) + 1
<1> DEFINE word == "missing responses"
<1>1. word \notin Kinds /\ word \in Silence
  BY DEF Kinds, Silence
<1> HIDE DEF word
<1>2. /\ Noted(errors, Kinds) \in Nat
      /\ Noted(Append(errors, word), Kinds) = Noted(errors, Kinds) + (IF word \in Kinds THEN 1 ELSE 0)
  BY OneMoreNoted
<1>3. /\ Noted(errors, Silence) \in Nat
      /\ Noted(Append(errors, word), Silence) = Noted(errors, Silence) + (IF word \in Silence THEN 1 ELSE 0)
  BY OneMoreNoted
<1>4. /\ Noted(Append(errors, word), Kinds) = Noted(errors, Kinds)
      /\ Noted(Append(errors, word), Silence) = Noted(errors, Silence) + 1
  BY <1>1, <1>2, <1>3
<1> QED BY <1>2, <1>3, <1>4 DEF word

\* The endpoint an operation makes when no other has its method and path.
LEMMA AddAccounts ==
  ASSUME NEW visits, NEW n \in Nat, NEW d, NEW resolves, NEW r,
         Accounts(r, visits, n, d, resolves), ~r.raised,
         n + 1 \in Firsts(visits),
         NEW e, IsEndpoint(e), Describes(e, visits[n + 1], d, resolves),
         AreNotes(e.notes)
  PROVE  Accounts(Add(Answered(r, visits[n + 1]), e), visits, n + 1, d, resolves)
<1> DEFINE noted == Answered(r, visits[n + 1])
           s == Add(noted, e)
           m == Len(r.endpoints)
           silent == ~visits[n + 1].details.responses
<1>1. /\ IsResult(r) /\ SeenAre(r, visits, n) /\ Counted(r, visits, n)
      /\ \E b : FirstsAre(r, visits, n, d, resolves, b)
  BY DEF Accounts
<1>2. /\ noted.raised = r.raised /\ noted.endpoints = r.endpoints /\ noted.seen = r.seen
      /\ noted.errors = IF silent THEN Append(r.errors, "missing responses") ELSE r.errors
      /\ noted = [raised |-> noted.raised, endpoints |-> noted.endpoints,
                  errors |-> noted.errors, seen |-> noted.seen]
  BY <1>1 DEF Answered, Note, IsResult
<1> HIDE DEF noted
<1>3. /\ s.raised = r.raised /\ s.endpoints = Append(r.endpoints, e)
      /\ s.errors = noted.errors \o e.notes
      /\ s.seen = r.seen \cup {<<e.method, e.path>>}
      /\ s = [raised |-> s.raised, endpoints |-> s.endpoints, errors |-> s.errors,
              seen |-> s.seen]
  <2> DEFINE key == <<e.method, e.path>>
  <2>1. s = [noted EXCEPT !.endpoints = Append(noted.endpoints, e),
                          !.errors = noted.errors \o e.notes,
                          !.seen = noted.seen \cup {key}]
    BY DEF Add
  <2> HIDE DEF key, s
  <2>2. /\ s.raised = noted.raised /\ s.endpoints = Append(noted.endpoints, e)
        /\ s.errors = noted.errors \o e.notes /\ s.seen = noted.seen \cup {key}
        /\ s = [raised |-> s.raised, endpoints |-> s.endpoints, errors |-> s.errors,
                seen |-> s.seen]
    BY <1>2, <2>1
  <2> QED BY <1>2, <2>2 DEF key
<1> HIDE DEF s, silent
<1>4. /\ IsList(s.endpoints) /\ m \in Nat /\ Len(s.endpoints) = m + 1
      /\ DOMAIN s.endpoints = 1 .. m + 1
      /\ \A k \in 1 .. m : s.endpoints[k] = r.endpoints[k]
      /\ s.endpoints[m + 1] = e /\ DOMAIN r.endpoints = 1 .. m
  <2>1. PICK S : r.endpoints \in Seq(S)
    BY <1>1 DEF IsResult, IsList
  <2>2. IsList(Append(r.endpoints, e))
    BY <1>1, AppendedIsList DEF IsResult
  <2>3. r.endpoints \in Seq(S \cup {e}) /\ e \in S \cup {e}
    BY <2>1
  <2>4. IsList(r.endpoints)
    BY <1>1 DEF IsResult
  <2> QED BY <1>3, <2>2, <2>3, <2>4, ListLength
<1>5. IsList(r.errors) /\ IsList(noted.errors)
  <2>1. IsList(r.errors)
    BY <1>1 DEF IsResult
  <2>2. IsList(Append(r.errors, "missing responses"))
    BY <2>1, AppendedIsList
  <2> QED BY <1>2, <2>1, <2>2
<1>6. IsList(s.errors)
  BY <1>3, <1>5, Concatenated DEF AreNotes
<1>7. IsResult(s)
  <2>1. \A k \in DOMAIN s.endpoints : IsEndpoint(s.endpoints[k])
    <3>1. ASSUME NEW k \in 1 .. m + 1 PROVE k = m + 1 \/ k \in 1 .. m
      BY <1>4
    <3> QED BY <1>1, <1>4, <3>1 DEF IsResult
  <2> QED BY <1>1, <1>3, <1>4, <1>6, <2>1 DEF IsResult
<1>8. /\ Noted(r.errors, Kinds) \in Nat /\ Noted(s.errors, Kinds) = Noted(r.errors, Kinds)
      /\ Noted(r.errors, Silence) \in Nat
      /\ Noted(s.errors, Silence) = Noted(r.errors, Silence) + (IF silent THEN 1 ELSE 0)
  <2> DEFINE word == "missing responses"
  <2>1. /\ "unresolved" \notin Kinds /\ "unresolved" \notin Silence
        /\ word \notin Kinds /\ word \in Silence
    BY DEF Kinds, Silence
  <2>7. noted.errors = IF silent THEN Append(r.errors, word) ELSE r.errors
    BY <1>2
  <2> HIDE DEF word
  <2>2. \A K : "unresolved" \notin K => Noted(s.errors, K) = Noted(noted.errors, K)
    BY <1>3, <1>5, NoMoreNoted DEF AreNotes
  <2>3. /\ Noted(Append(r.errors, word), Kinds) = Noted(r.errors, Kinds)
        /\ Noted(Append(r.errors, word), Silence) = Noted(r.errors, Silence) + 1
    BY <1>5, SilenceNoted DEF word
  <2>4. Noted(r.errors, Kinds) \in Nat /\ Noted(r.errors, Silence) \in Nat
    BY <1>5, SilenceNoted
  <2>8. /\ Noted(s.errors, Kinds) = Noted(noted.errors, Kinds)
        /\ Noted(s.errors, Silence) = Noted(noted.errors, Silence)
    BY <2>1, <2>2
  <2>5. CASE silent
    <3>1. noted.errors = Append(r.errors, word)
      BY <2>5, <2>7
    <3> QED BY <2>3, <2>4, <2>5, <2>8, <3>1
  <2>6. CASE ~silent
    <3>1. noted.errors = r.errors
      BY <2>6, <2>7
    <3> QED BY <2>4, <2>6, <2>8, <3>1
  <2> QED BY <2>4, <2>5, <2>6
<1>9. n + 1 \in Operations(visits) /\ <<e.method, e.path>> = Key(visits[n + 1])
  BY DEF Firsts, Describes
<1>10. SeenAre(s, visits, n + 1)
  <2>1. Operations(visits) \cap (1 .. n + 1) = (Operations(visits) \cap (1 .. n)) \cup {n + 1}
    BY <1>9
  <2> QED BY <1>1, <1>3, <1>9, <2>1 DEF SeenAre
<1>11. \E b : FirstsAre(s, visits, n + 1, d, resolves, b)
  <2>1. PICK b : FirstsAre(r, visits, n, d, resolves, b)
    BY <1>1
  <2> DEFINE c == [k \in 1 .. m + 1 |-> IF k = m + 1 THEN n + 1 ELSE b[k]]
  <2>2. Enumerates(m, b, Firsts(visits) \cap (1 .. n))
    BY <2>1 DEF FirstsAre
  <2> HIDE DEF m
  <2>3. Enumerates(m + 1, c, Firsts(visits) \cap (1 .. n + 1))
    BY <1>4, <2>2, OneMoreEnumerated
  <2>4. ASSUME NEW k \in 1 .. m + 1
        PROVE  Describes(s.endpoints[k], visits[c[k]], d, resolves)
    <3>1. CASE k = m + 1
      <4>1. c[k] = n + 1 /\ s.endpoints[k] = e
        BY <1>4, <3>1
      <4> QED BY <4>1
    <3>2. CASE k # m + 1
      <4>1. k \in 1 .. m /\ c[k] = b[k] /\ s.endpoints[k] = r.endpoints[k]
        BY <1>4, <3>2
      <4> QED BY <2>1, <4>1 DEF FirstsAre, m
    <3> QED BY <3>1, <3>2
  <2> HIDE DEF c
  <2>5. FirstsAre(s, visits, n + 1, d, resolves, c)
    BY <1>4, <2>3, <2>4 DEF FirstsAre
  <2> QED BY <2>5
<1>12. Counted(s, visits, n + 1)
  <2>1. Silent(visits, n) \in SUBSET (1 .. n)
    BY DEF Silent
  <2>2. IsFiniteSet(Silent(visits, n)) /\ Cardinality(Silent(visits, n)) \in Nat
    BY <2>1, PlacesAreFinite
  <2>3. Silent(visits, n + 1) = IF silent THEN Silent(visits, n) \cup {n + 1} ELSE Silent(visits, n)
    <3>1. Firsts(visits) \cap (1 .. n + 1) = (Firsts(visits) \cap (1 .. n)) \cup {n + 1}
      OBVIOUS
    <3> QED BY <3>1 DEF Silent, silent
  <2>4. n + 1 \notin Silent(visits, n)
    BY <2>1
  <2>5. Cardinality(Silent(visits, n) \cup {n + 1}) = Cardinality(Silent(visits, n)) + 1
    BY <2>2, <2>4, FS_AddElement
  <2>6. Noted(s.errors, Silence) = Cardinality(Silent(visits, n + 1))
    BY <1>1, <1>8, <2>2, <2>3, <2>5 DEF Counted
  <2>7. n + 1 = Len(s.endpoints) + Noted(s.errors, Kinds)
    BY <1>1, <1>4, <1>8 DEF Counted
  <2> QED BY <2>6, <2>7 DEF Counted
<1>13. Accounts(s, visits, n + 1, d, resolves)
  BY <1>7, <1>10, <1>11, <1>12 DEF Accounts
<1> QED BY <1>13 DEF s, noted

\* An operation whose endpoint cannot be made ends the parsing.
LEMMA RaisingAccounts ==
  ASSUME NEW visits, NEW n, NEW d, NEW resolves, NEW r, IsResult(r), NEW v
  PROVE  Accounts([Answered(r, v) EXCEPT !.raised = TRUE], visits, n, d, resolves)
<1> DEFINE s == [Answered(r, v) EXCEPT !.raised = TRUE]
<1>1. IsList(r.errors)
  BY DEF IsResult
<1>2. IsList(Append(r.errors, "missing responses"))
  BY <1>1, AppendedIsList
<1>3. /\ s.raised = TRUE /\ s.endpoints = r.endpoints
      /\ s.errors = r.errors \/ s.errors = Append(r.errors, "missing responses")
      /\ s = [raised |-> s.raised, endpoints |-> s.endpoints, errors |-> s.errors,
              seen |-> s.seen]
  <2> DEFINE noted == Answered(r, v)
  <2>1. /\ noted.endpoints = r.endpoints
        /\ noted.errors = r.errors \/ noted.errors = Append(r.errors, "missing responses")
        /\ noted = [raised |-> noted.raised, endpoints |-> noted.endpoints,
                    errors |-> noted.errors, seen |-> noted.seen]
    <3>1. r = [raised |-> r.raised, endpoints |-> r.endpoints, errors |-> r.errors,
               seen |-> r.seen]
      BY DEF IsResult
    <3> QED BY <3>1 DEF Answered, Note
  <2> HIDE DEF noted
  <2>2. s = [noted EXCEPT !.raised = TRUE]
    BY DEF noted
  <2> HIDE DEF s
  <2> QED BY <2>1, <2>2
<1> HIDE DEF s
<1>4. IsResult(s)
  BY <1>1, <1>2, <1>3 DEF IsResult
<1>5. Accounts(s, visits, n, d, resolves)
  BY <1>3, <1>4 DEF Accounts
<1> QED BY <1>5 DEF s

\* One visit.
LEMMA VisitAccounts ==
  ASSUME NEW visits, IsList(visits), NEW n \in Nat, n + 1 \in DOMAIN visits, IsVisit(visits[n + 1]),
         NEW d, NEW resolves, NEW r, Accounts(r, visits, n, d, resolves)
  PROVE  Accounts(Visit(r, visits[n + 1], d, resolves), visits, n + 1, d, resolves)
<1> DEFINE v == visits[n + 1]
           e == Endpoint(v, d, resolves)
           key == <<e.method, e.path>>
           s == Visit(r, v, d, resolves)
<1>1. CASE r.raised
  <2>1. s = r
    BY <1>1 DEF Visit
  <2>2. Accounts(r, visits, n + 1, d, resolves)
    BY <1>1 DEF Accounts
  <2> QED BY <2>1, <2>2
<1>2. CASE ~r.raised /\ v.is = "path"
  <2>1. s = Note(r, "invalid path")
    BY <1>2 DEF Visit
  <2>2. n + 1 \notin Operations(visits) /\ "invalid path" \in Kinds
    BY <1>2 DEF Operations, Kinds
  <2>3. n + 1 \notin Firsts(visits)
    BY <2>2 DEF Firsts
  <2> QED BY <1>2, <2>1, <2>2, <2>3, NoteAccounts
<1>3. CASE ~r.raised /\ v.is # "path" /\ UpperMethod(v.method) \notin ValidMethods
  <2>1. s = Note(r, "invalid method")
    BY <1>3 DEF Visit
  <2>2. n + 1 \notin Operations(visits) /\ "invalid method" \in Kinds
    BY <1>3 DEF Operations, Kinds
  <2>3. n + 1 \notin Firsts(visits)
    BY <2>2 DEF Firsts
  <2> QED BY <1>3, <2>1, <2>2, <2>3, NoteAccounts
<1>4. CASE /\ ~r.raised /\ v.is # "path" /\ UpperMethod(v.method) \in ValidMethods
           /\ v.details.is = "junk"
  <2>1. s = Note(r, "invalid details")
    BY <1>4 DEF Visit
  <2>2. n + 1 \notin Operations(visits) /\ "invalid details" \in Kinds
    BY <1>4 DEF Operations, Kinds
  <2>3. n + 1 \notin Firsts(visits)
    BY <2>2 DEF Firsts
  <2> QED BY <1>4, <2>1, <2>2, <2>3, NoteAccounts
<1>5. CASE /\ ~r.raised /\ v.is # "path" /\ UpperMethod(v.method) \in ValidMethods
           /\ v.details.is # "junk"
  <2>1. /\ Describes(e, v, d, resolves) /\ IsEndpoint(e) /\ e.raises \in BOOLEAN /\ AreNotes(e.notes)
    BY <1>5, EndpointFits DEF AreNotes
  <2>2. s = IF key \in r.seen THEN Note(r, "duplicate")
            ELSE IF e.raises THEN [Answered(r, v) EXCEPT !.raised = TRUE]
            ELSE Add(Answered(r, v), e)
    <3> HIDE DEF e
    <3>1. s = LET noted == IF v.details.responses THEN r ELSE Note(r, "missing responses")
              IN IF key \in r.seen THEN Note(r, "duplicate")
                 ELSE IF e.raises THEN [noted EXCEPT !.raised = TRUE]
                 ELSE Add(noted, e)
      BY <1>5 DEF Visit, e
    <3> QED BY <3>1 DEF Answered
  <2>3. n + 1 \in Operations(visits) /\ key = Key(v)
    BY <1>5, <2>1 DEF Operations, Describes, IsVisit
  <2>4. IsResult(r) /\ SeenAre(r, visits, n)
    BY <1>5 DEF Accounts
  <2> HIDE DEF e, key, s
  <2>5. CASE key \in r.seen
    <3>1. PICK i \in Operations(visits) \cap (1 .. n) : key = Key(visits[i])
      BY <2>4, <2>5 DEF SeenAre
    <3>2. i < n + 1
      OBVIOUS
    <3>3. n + 1 \notin Firsts(visits)
      BY <2>3, <3>1, <3>2 DEF Firsts
    <3>4. "duplicate" \in Kinds
      BY DEF Kinds
    <3>5. s = Note(r, "duplicate")
      BY <2>2, <2>5
    <3>6. Key(visits[n + 1]) \in r.seen
      BY <2>3, <2>5
    <3>7. Accounts(Note(r, "duplicate"), visits, n + 1, d, resolves)
      BY <1>5, <3>3, <3>4, <3>6, NoteAccounts
    <3> QED BY <3>5, <3>7 DEF s
  <2>6. CASE key \notin r.seen /\ e.raises
    <3>1. s = [Answered(r, v) EXCEPT !.raised = TRUE]
      BY <2>2, <2>6
    <3> QED BY <2>4, <3>1, RaisingAccounts DEF s
  <2>7. CASE key \notin r.seen /\ ~e.raises
    <3>1. s = Add(Answered(r, v), e)
      BY <2>2, <2>7
    <3>2. ASSUME NEW j \in Operations(visits), j < n + 1, Key(visits[j]) = Key(v)
          PROVE  FALSE
      <4>1. j \in 1 .. Len(visits) /\ Len(visits) \in Nat
        BY ListLength DEF Operations
      <4>2. j \in 1 .. n
        BY <3>2, <4>1
      <4> QED BY <2>3, <2>4, <2>7, <3>2, <4>2 DEF SeenAre
    <3>3. n + 1 \in Firsts(visits)
      BY <2>3, <3>2 DEF Firsts
    <3> QED BY <1>5, <2>1, <3>1, <3>3, AddAccounts DEF s
  <2> QED BY <2>1, <2>5, <2>6, <2>7 DEF s
<1> QED BY <1>1, <1>2, <1>3, <1>4, <1>5

\* All visits.
LEMMA ParseAccounts ==
  ASSUME NEW d, HasPaths(d), IsDocument(d), NEW resolves
  PROVE  /\ Accounts(Parse(d, resolves), Visits(d), Len(Visits(d)), d, resolves)
         /\ IsList(Visits(d)) /\ Len(Visits(d)) \in Nat
<1> DEFINE visits == Visits(d)
           L == Len(visits)
<1>1. IsList(visits) /\ \A i \in DOMAIN visits : IsVisit(visits[i])
  BY VisitsAre
<1>2. L \in Nat /\ DOMAIN visits = 1 .. L
  BY <1>1, ListLength
<1>3. PICK f : Steps(f, visits, d, resolves) /\ Parse(d, resolves) = f[L]
  <2>1. d.has \notin {"none", "junk"}
    BY DEF HasPaths
  <2> QED BY <1>1, <2>1, ParseSteps
<1> HIDE DEF visits, L
<1> DEFINE H == {n \in 0 .. L : Accounts(f[n], visits, n, d, resolves)}
<1>4. 0 \in H
  <2>1. f[0] = NoResult(<<>>)
    BY <1>3 DEF Steps
  <2> QED BY <1>2, <2>1, NothingAccounts
<1>5. ASSUME NEW n \in 0 .. L - 1, n \in H PROVE n + 1 \in H
  <2>1. /\ n \in Nat /\ n + 1 \in 0 .. L /\ n + 1 \in DOMAIN visits
        /\ Accounts(f[n], visits, n, d, resolves)
    BY <1>2, <1>5
  <2>2. f[n + 1] = Visit(f[n], visits[n + 1], d, resolves)
    BY <1>3 DEF Steps, L
  <2>3. Accounts(f[n + 1], visits, n + 1, d, resolves)
    BY <1>1, <2>1, <2>2, VisitAccounts
  <2> QED BY <2>1, <2>3
<1>6. L \in H
  <2> HIDE DEF H
  <2> QED BY <1>2, <1>4, <1>5, FromZero
<1> QED BY <1>1, <1>2, <1>3, <1>6 DEF visits, L

-----------------------------------------------------------------------------
(* What the bridges make of what parse() has found                         *)

\* The result of no document is a result, without endpoints.
LEMMA NoResultIsResult ==
  ASSUME NEW errors, IsList(errors)
  PROVE  /\ IsResult(NoResult(errors)) /\ NoResult(errors).endpoints = <<>>
         /\ NoResult(errors).raised = FALSE
<1> DEFINE none == <<>>
           r == NoResult(errors)
<1>1. /\ r.raised = FALSE /\ r.endpoints = none /\ r.errors = errors
      /\ r = [raised |-> r.raised, endpoints |-> r.endpoints, errors |-> r.errors,
              seen |-> r.seen]
  BY DEF NoResult
<1>2. IsList(none) /\ DOMAIN none = {}
  BY ListsWritten
<1> HIDE DEF r, none
<1>3. IsResult(r)
  BY <1>1, <1>2 DEF IsResult
<1> QED BY <1>1, <1>3 DEF r, none

\* What parse() finds in a document, or the loader that has none.
FoundIn(d, r, resolves) ==
  /\ IsResult(r)
  /\ HasPaths(d) => Accounts(r, Visits(d), Len(Visits(d)), d, resolves)
  /\ ~HasPaths(d) => r.endpoints = <<>> /\ r.raised = FALSE

\* Parse accounts for the document it is given.
LEMMA ParseFinds ==
  ASSUME NEW d, IsDocument(d), NEW resolves
  PROVE  FoundIn(d, Parse(d, resolves), resolves)
<1>1. CASE HasPaths(d)
  BY <1>1, ParseAccounts DEF FoundIn, Accounts
<1>2. CASE ~HasPaths(d)
  <2>1. \/ Parse(d, resolves) = NoResult(<<>>)
        \/ Parse(d, resolves) = NoResult(<<"missing paths">>)
        \/ Parse(d, resolves) = NoResult(<<"invalid paths">>)
    BY <1>2 DEF Parse, HasPaths, IsDocument
  <2>2. IsList(<<>>) /\ IsList(<<"missing paths">>) /\ IsList(<<"invalid paths">>)
    BY ListsWritten
  <2>3. PICK errors : Parse(d, resolves) = NoResult(errors) /\ IsList(errors)
    BY <2>1, <2>2
  <2> QED BY <1>2, <2>3, NoResultIsResult DEF FoundIn
<1> QED BY <1>1, <1>2

\* An error accounts for the empty document.
LEMMA ErrorFinds ==
  ASSUME NEW d, d.is = "empty", NEW error, NEW resolves
  PROVE  FoundIn(d, NoResult(<<error>>), resolves)
<1>1. IsList(<<error>>) /\ ~HasPaths(d)
  BY ListsWritten DEF HasPaths
<1> QED BY <1>1, NoResultIsResult DEF FoundIn

\* Whatever the answer is, the result accounts for its document.
LEMMA LoadedFinds ==
  ASSUME NEW answer, IsAnswer(answer)
  PROVE  FoundIn(answer.document, Loaded(answer), TRUE)
BY ParseFinds, ErrorFinds DEF IsAnswer, Loaded

\* With no endpoint there is no operation that describes one.
LEMMA NoneFound ==
  ASSUME NEW d, IsDocument(d), HasPaths(d), NEW resolves, NEW r,
         FoundIn(d, r, resolves), ~r.raised, r.endpoints = <<>>
  PROVE  Operations(Visits(d)) = {}
<1> DEFINE visits == Visits(d)
           L == Len(visits)
           Ops == Operations(visits)
<1>1. IsList(visits) /\ L \in Nat /\ DOMAIN visits = 1 .. L
  BY VisitsAre, ListLength
<1>2. PICK b : FirstsAre(r, visits, L, d, resolves, b)
  BY DEF FoundIn, Accounts
<1>3. Len(r.endpoints) = 0
  OBVIOUS
<1>4. Firsts(visits) \cap (1 .. L) = {}
  BY <1>2, <1>3 DEF FirstsAre, Enumerates
<1> HIDE DEF visits, L
<1>5. Ops \in SUBSET (1 .. L)
  BY <1>1 DEF Operations
<1>6. ASSUME Ops # {} PROVE FALSE
  <2> HIDE DEF Ops
  <2>1. PICK m \in Ops : \A j \in Ops : m <= j
    <3>1. Ops \in SUBSET Nat
      BY <1>5
    <3> QED BY <1>6, <3>1, LeastNumber
  <2>2. m \in Firsts(visits)
    <3>1. \A j \in Ops : ~(j < m)
      BY <1>5, <2>1
    <3> QED BY <3>1, <2>1 DEF Firsts, Ops
  <2> QED BY <1>4, <1>5, <2>1, <2>2
<1> QED BY <1>6 DEF visits

\* The URL of a task is a list of texts.
LEMMA TargetUrlIsList ==
  ASSUME NEW at, IsList(at), NEW path, IsList(path)
  PROVE  IsList(TargetUrl(at, path))
<1>1. IsList(RStrip(at)) /\ IsList(LStrip(path)) /\ IsList(<<"/">>)
  BY PickedElements, ListsWritten DEF RStrip, LStrip
<1>2. IsList(RStrip(at) \o <<"/">> \o LStrip(path))
  BY <1>1, Concatenated
<1> QED BY <1>2 DEF TargetUrl

\* The request the bridge makes of an endpoint is one the engine takes.
LEMMA RequestFits ==
  ASSUME NEW e, IsEndpoint(e), NEW at, IsList(at)
  PROVE  IsRequest(Request(e, at))
<1>1. Request(e, at).path = TargetUrl(at, e.path) /\ Request(e, at).method = e.method
  BY DEF Request
<1> QED BY <1>1, TargetUrlIsList DEF IsEndpoint, IsRequest

\* What the engine returns for a request.
LEMMA MutateKeeps ==
  ASSUME NEW request, IsRequest(request)
  PROVE  LET all == AllMutations(request)
             kept == Deduplicate(all)
             xs == Mutate(request)
         IN /\ IsList(xs) /\ DOMAIN xs = DOMAIN kept
            /\ \A n \in DOMAIN xs : xs[n] = [mutation |-> kept[n],
                                             severity |-> Severity(kept[n].strategy)]
            /\ \A j \in DOMAIN all : \E n \in DOMAIN kept : SameChange(all[j], kept[n])
<1> DEFINE all == AllMutations(request)
           kept == Deduplicate(all)
           xs == Mutate(request)
<1>1. AreMutations(all)
  BY AllMutationsAre
<1>2. xs = [n \in DOMAIN kept |-> [mutation |-> kept[n],
                                   severity |-> Severity(kept[n].strategy)]]
  BY DEF Mutate, MapSeq
<1> HIDE DEF all, kept, xs
<1>3. /\ IsList(kept)
      /\ \A j \in DOMAIN all : \E n \in DOMAIN kept : SameChange(all[j], kept[n])
  BY <1>1, DeduplicateKeepsChanges DEF kept
<1>4. xs = [n \in DOMAIN kept |-> xs[n]]
  BY <1>2
<1>5. IsList(xs) /\ DOMAIN xs = DOMAIN kept
  BY <1>3, <1>4, MappedList
<1>6. \A n \in DOMAIN xs : xs[n] = [mutation |-> kept[n],
                                    severity |-> Severity(kept[n].strategy)]
  BY <1>2, <1>5
<1> QED BY <1>3, <1>5, <1>6 DEF all, kept, xs

\* Of the fallback URLs, each once, the first one with a property comes of the
\* first one that has it.
LEMMA FirstOfUnique ==
  ASSUME NEW urls, IsList(urls), NEW G,
         NEW n \in DOMAIN UniquePaths(urls), UniquePaths(urls)[n] \in G,
         \A i \in 1 .. n - 1 : UniquePaths(urls)[i] \notin G
  PROVE  \E p \in DOMAIN urls : /\ urls[p] = UniquePaths(urls)[n]
                                /\ \A j \in 1 .. p - 1 : urls[j] \notin G
<1> DEFINE P == {i \in DOMAIN urls : \A j \in 1 .. (i - 1) : urls[j] # urls[i]}
           C == UniquePaths(urls)
<1>1. C = Picked(urls, P) /\ P \cap DOMAIN urls = P
  BY DEF UniquePaths
<1>2. Len(urls) \in Nat /\ DOMAIN urls = 1 .. Len(urls)
  BY ListLength
<1>3. IsList(C) /\ Len(C) \in Nat /\ DOMAIN C = 1 .. Len(C)
  <2> HIDE DEF P, C
  <2> QED BY <1>1, PickedElements, ListLength
<1>4. PICK at \in [DOMAIN C -> P] :
        /\ \A k \in DOMAIN C : C[k] = urls[at[k]]
        /\ \A k, l \in DOMAIN C : k < l => at[k] < at[l]
        /\ \A i \in P : \E k \in DOMAIN C : at[k] = i
  <2> HIDE DEF P, C
  <2> QED BY <1>1, PickedAt
<1>5. n \in DOMAIN C /\ C[n] \in G /\ \A i \in 1 .. n - 1 : C[i] \notin G
  OBVIOUS
<1> HIDE DEF C
<1> DEFINE p == at[n]
<1>6. p \in DOMAIN urls /\ urls[p] = C[n]
  BY <1>4, <1>5
<1>7. ASSUME NEW j \in 1 .. p - 1, urls[j] \in G PROVE FALSE
  <2> DEFINE T == {i \in DOMAIN urls : urls[i] = urls[j]}
  <2>1. j \in T /\ T \in SUBSET Nat
    BY <1>2, <1>6
  <2>2. PICK q \in T : \A i \in T : q <= i
    <3> HIDE DEF T
    <3> QED BY <2>1, LeastNumber
  <2>3. q \in P
    <3>1. ASSUME NEW i \in 1 .. q - 1, urls[i] = urls[q] PROVE FALSE
      <4>1. i \in T
        BY <1>2, <2>2, <3>1
      <4>2. q <= i
        BY <2>2, <4>1
      <4> QED BY <1>2, <2>2, <4>2
    <3> QED BY <2>2, <3>1
  <2>4. q <= j /\ q < p /\ urls[q] \in G
    BY <1>2, <1>6, <1>7, <2>1, <2>2
  <2> HIDE DEF P, T, p
  <2>5. PICK k \in DOMAIN C : at[k] = q
    BY <1>4, <2>3
  <2>6. k < n
    <3>1. ~(n < k) /\ n # k
      <4>1. q \in Nat /\ p \in Nat
        BY <1>2, <1>6, <2>3 DEF P
      <4> QED BY <1>4, <1>5, <2>4, <2>5, <4>1 DEF p
    <3> QED BY <1>3, <1>5, <2>5, <3>1
  <2>7. k \in 1 .. n - 1 /\ C[k] = urls[q]
    BY <1>3, <1>4, <1>5, <2>5, <2>6
  <2> QED BY <1>5, <2>4, <2>7
<1> HIDE DEF p
<1>8. \E x \in DOMAIN urls : urls[x] = C[n] /\ \A j \in 1 .. x - 1 : urls[j] \notin G
  BY <1>6, <1>7
<1> QED BY <1>8 DEF C

\* Duplicates are dropped from the URLs, nothing else.
LEMMA UniqueAreAll ==
  ASSUME NEW urls, IsList(urls)
  PROVE  IsList(UniquePaths(urls)) /\ ToSet(UniquePaths(urls)) = ToSet(urls)
<1> DEFINE P == {i \in DOMAIN urls : \A j \in 1 .. (i - 1) : urls[j] # urls[i]}
<1>1. UniquePaths(urls) = Picked(urls, P) /\ P \cap DOMAIN urls = P
  BY DEF UniquePaths
<1>2. Len(urls) \in Nat /\ DOMAIN urls = 1 .. Len(urls)
  BY ListLength
<1>3. IsList(UniquePaths(urls)) /\ ToSet(UniquePaths(urls)) = {urls[i] : i \in P}
  <2> HIDE DEF P
  <2> QED BY <1>1, PickedElements
<1>4. ASSUME NEW j \in DOMAIN urls PROVE \E i \in P : urls[i] = urls[j]
  <2> DEFINE T == {i \in DOMAIN urls : urls[i] = urls[j]}
  <2>1. j \in T /\ T \in SUBSET Nat
    BY <1>2
  <2>2. PICK q \in T : \A i \in T : q <= i
    <3> HIDE DEF T
    <3> QED BY <2>1, LeastNumber
  <2>3. q \in P
    <3>1. ASSUME NEW i \in 1 .. q - 1, urls[i] = urls[q] PROVE FALSE
      <4>1. i \in T
        BY <1>2, <2>2, <3>1
      <4>2. q <= i
        BY <2>2, <4>1
      <4> QED BY <1>2, <2>2, <4>2
    <3> QED BY <2>2, <3>1
  <2> QED BY <2>2, <2>3
<1>5. P \subseteq DOMAIN urls
  OBVIOUS
<1> HIDE DEF P
<1> QED BY <1>3, <1>4, <1>5 DEF ToSet

-----------------------------------------------------------------------------
(* The invariant                                                           *)

\* What a source holds, by its kind.
LEMMA SourceIs ==
  ASSUME NEW s \in Sources
  PROVE  /\ s.kind = "url" =>
              /\ IsList(s.base) /\ IsList(s.host) /\ IsList(s.path)
              /\ IsList(s.candidates) /\ IsAnswer(s.web[s.url])
              /\ \A url \in ToSet(s.candidates) : IsAnswer(s.web[url])
         /\ s.kind = "text" => IsList(s.base) /\ IsAnswer(s.answer)
         /\ s.kind = "script" => IsAnswer(s.answer)
         /\ s.kind = "request" => IsRequest(s.request)
BY SourcesAssumption, SequenceIsList DEF IsRequest

\* What is loaded from the given URL, and the URLs to be probed after it.
Given == Loaded(source.web[source.url])

\* The fallback URLs of a given URL that hints at more.
Candidates ==
  IF Hinted(source.url, Given.errors) THEN UniquePaths(source.candidates) ELSE <<>>

\* What goes with each stage.
Stages ==
  /\ source \in Sources
  /\ stage \in {"load", "probe", "build", "generated", "done", "saved", "mutated", "raised"}
  /\ stage = "probe" => source.kind = "url"
  /\ stage \in {"build", "generated", "done"} => source.kind \in {"url", "text"}
  /\ stage = "mutated" => source.kind = "request"
  /\ stage \notin {"done", "mutated"} => mutations = <<>> /\ fuzz = <<>>

\* Base and endpoints are what the engine can take.
Fits ==
  /\ IsList(base) /\ IsList(result.endpoints)
  /\ \A k \in DOMAIN result.endpoints : IsEndpoint(result.endpoints[k])

\* The parser at hand has found what there is in its document, unless the URL
\* itself is taken for an endpoint: then there is nothing in it.
Found ==
  stage \in {"probe", "build", "saved"} =>
    /\ IsDocument(document) /\ ~result.raised
    /\ FoundIn(document, result, Resolving) \/ Operations(Visited) = {}

\* The URLs that are gone gave nothing, and the others are left.
Probing ==
  stage = "probe" =>
    /\ result = Given /\ FoundIn(document, result, Resolving) /\ result.endpoints = <<>>
    /\ base = source.base
    /\ IsList(left)
    /\ LET gone == Len(Candidates) - Len(left)
       IN /\ gone \in Nat
          /\ \A i \in 1 .. Len(left) : left[i] = Candidates[gone + i]
          /\ \A i \in 1 .. gone : ~Gives(Candidates[i])

\* Each request was mutated by the engine, or left out.
AllMutated ==
  mutations # <<>> =>
    /\ \A i \in DOMAIN Mutated : IsRequest(Mutated[i])
    /\ DOMAIN mutations = DOMAIN Mutated
    /\ \A i \in DOMAIN mutations : mutations[i] \in {<<>>, Mutate(Mutated[i])}

\* The inductive invariant.
TInv ==
  Stages /\ Fits /\ Found /\ Probing /\ ResultIsFirstFound /\ AllMutated

\* The initial state satisfies the invariant.
LEMMA InitTInv == Init => TInv
<1> SUFFICES ASSUME Init PROVE TInv
  OBVIOUS
<1> DEFINE none == <<>>
<1>1. /\ source \in Sources /\ stage = "load" /\ mutations = none /\ fuzz = none
      /\ base = none /\ result = NoResult(none)
  BY DEF Init
<1>2. IsList(none) /\ DOMAIN none = {}
  BY ListsWritten
<1>3. result.endpoints = none
  BY <1>1, <1>2, NoResultIsResult
<1>4. Stages
  BY <1>1 DEF Stages
<1> HIDE DEF none
<1>5. Fits
  BY <1>1, <1>2, <1>3 DEF Fits
<1>6. Found /\ Probing /\ ResultIsFirstFound
  BY <1>1 DEF Found, Probing, ResultIsFirstFound
<1>7. AllMutated
  BY <1>1 DEF AllMutated, none
<1> QED BY <1>4, <1>5, <1>6, <1>7 DEF TInv

\* Every step keeps the stages and what they go with.
LEMMA StepStages ==
  ASSUME TInv, [Next]_vars
  PROVE  Stages'
<1>0. Stages
  BY DEF TInv
<1>1. CASE LoadUrl
  BY <1>0, <1>1 DEF Stages, LoadUrl
<1>2. CASE Probe
  BY <1>0, <1>2 DEF Stages, Probe
<1>3. CASE SingleEndpoint
  BY <1>0, <1>3 DEF Stages, SingleEndpoint
<1>4. CASE LoadText
  BY <1>0, <1>4 DEF Stages, LoadText
<1>5. CASE GenerateTasks
  BY <1>0, <1>5 DEF Stages, GenerateTasks
<1>6. CASE DiscoverAndSave
  BY <1>0, <1>6 DEF Stages, DiscoverAndSave
<1>7. CASE GenerateMutations
  BY <1>0, <1>7 DEF Stages, GenerateMutations
<1>8. CASE MutateRequest
  BY <1>0, <1>8 DEF Stages, MutateRequest
<1>9. CASE UNCHANGED vars
  BY <1>0, <1>9 DEF Stages, vars
<1> QED BY <1>1, <1>2, <1>3, <1>4, <1>5, <1>6, <1>7, <1>8, <1>9 DEF Next

\* What a load leaves behind.
LEMMA LoadFinds ==
  ASSUME NEW answer, IsAnswer(answer), Parsed(answer)
  PROVE  /\ FoundIn(document', result', TRUE) /\ IsDocument(document')
         /\ IsList(result'.endpoints)
         /\ \A k \in DOMAIN result'.endpoints : IsEndpoint(result'.endpoints[k])
<1>1. document' = answer.document /\ result' = Loaded(answer)
  BY DEF Parsed
<1>2. FoundIn(document', result', TRUE) /\ IsDocument(document')
  BY <1>1, LoadedFinds DEF IsAnswer
<1> QED BY <1>2 DEF FoundIn, IsResult

\* What the script's parser leaves behind.
LEMMA ScriptFinds ==
  ASSUME Stages, DiscoverAndSave
  PROVE  FoundIn(document', result', FALSE) /\ IsDocument(document')
<1>1. IsAnswer(source.answer) /\ document' = source.answer.document
  BY SourceIs DEF Stages, DiscoverAndSave
<1>2. CASE source.answer.error \in {"", "not an object"}
  <2>1. result' = Parse(document', FALSE)
    BY <1>1, <1>2 DEF DiscoverAndSave
  <2> QED BY <1>1, <2>1, ParseFinds DEF IsAnswer
<1>3. CASE source.answer.error \notin {"", "not an object"}
  <2>1. result' = NoResult(<<source.answer.error>>)
    BY <1>3 DEF DiscoverAndSave
  <2>2. document'.is = "empty"
    BY <1>1, <1>3 DEF IsAnswer
  <2> QED BY <1>1, <2>1, <2>2, ErrorFinds DEF IsAnswer
<1> QED BY <1>2, <1>3

\* The URLs to probe are candidates of the source.
LEMMA CandidatesAre ==
  ASSUME Stages, source.kind = "url"
  PROVE  /\ IsList(Candidates) /\ Len(Candidates) \in Nat
         /\ DOMAIN Candidates = 1 .. Len(Candidates)
         /\ \A i \in DOMAIN Candidates : Candidates[i] \in ToSet(source.candidates)
<1>1. IsList(source.candidates)
  BY SourceIs DEF Stages
<1>2. IsList(Candidates) /\ ToSet(Candidates) \subseteq ToSet(source.candidates)
  <2>1. IsList(<<>>) /\ ToSet(<<>>) = {}
    BY ListsWritten DEF ToSet
  <2> QED BY <1>1, <2>1, UniqueAreAll DEF Candidates
<1>3. Len(Candidates) \in Nat /\ DOMAIN Candidates = 1 .. Len(Candidates)
  BY <1>2, ListLength
<1> QED BY <1>2, <1>3 DEF ToSet

\* The URL that is probed is the next one of the candidates.
LEMMA ProbedIsNext ==
  ASSUME Stages, Probing, stage = "probe", left # <<>>
  PROVE  LET gone == Len(Candidates) - Len(left)
         IN /\ gone \in Nat /\ gone + 1 \in DOMAIN Candidates
            /\ Head(left) = Candidates[gone + 1]
            /\ IsList(Tail(left)) /\ Len(Tail(left)) = Len(left) - 1
            /\ \A i \in 1 .. Len(Tail(left)) : Tail(left)[i] = left[i + 1]
<1> DEFINE gone == Len(Candidates) - Len(left)
           rest == Tail(left)
<1>1. /\ IsList(left) /\ gone \in Nat
      /\ \A i \in 1 .. Len(left) : left[i] = Candidates[gone + i]
  BY DEF Probing
<1>2. source.kind = "url" /\ Len(Candidates) \in Nat /\ DOMAIN Candidates = 1 .. Len(Candidates)
  BY CandidatesAre DEF Stages
<1>3. PICK S : left \in Seq(S)
  BY <1>1 DEF IsList
<1>4. Len(left) \in Nat \ {0} /\ Head(left) = left[1]
  BY <1>3
<1>5. /\ rest \in Seq(S) /\ Len(rest) = Len(left) - 1
      /\ \A i \in 1 .. Len(rest) : rest[i] = left[i + 1]
  BY <1>3, <1>4
<1> HIDE DEF rest
<1>6. IsList(rest)
  <2>1. Len(rest) \in Nat /\ rest = [i \in 1 .. Len(rest) |-> rest[i]]
    BY <1>5
  <2> QED BY <2>1, FunctionIsList
<1>7. 1 \in 1 .. Len(left) /\ gone + 1 \in 1 .. Len(Candidates)
  BY <1>1, <1>2, <1>4
<1>8. Head(left) = Candidates[gone + 1]
  BY <1>1, <1>4, <1>7
<1> QED BY <1>1, <1>2, <1>5, <1>6, <1>7, <1>8 DEF rest

\* The web has an answer for the URL that is probed next.
LEMMA ProbedIsAnswer ==
  ASSUME Stages, Probing, stage = "probe", left # <<>>
  PROVE  IsAnswer(source.web[Head(left)])
<1>1. source \in Sources /\ source.kind = "url"
  BY DEF Stages
<1>2. Head(left) \in ToSet(source.candidates)
  BY <1>1, ProbedIsNext, CandidatesAre
<1> QED BY <1>1, <1>2, SourceIs

\* Every step keeps result and source of the kinds the engine takes.
LEMMA StepFits ==
  ASSUME TInv, [Next]_vars
  PROVE  Fits'
<1>0. Stages /\ Fits /\ Probing
  BY DEF TInv
<1>1. CASE LoadUrl
  <2>1. /\ source \in Sources /\ source.kind = "url" /\ Parsed(source.web[source.url])
        /\ base' = source.base
    BY <1>0, <1>1 DEF LoadUrl, Stages
  <2> QED BY <2>1, SourceIs, LoadFinds DEF Fits
<1>2. CASE Probe
  <2>1. \/ UNCHANGED <<result, base>>
        \/ Parsed(source.web[Head(left)]) /\ UNCHANGED base
    BY <1>2 DEF Probe
  <2>2. IsAnswer(source.web[Head(left)])
    BY <1>0, <1>2, ProbedIsAnswer DEF Probe
  <2> QED BY <1>0, <2>1, <2>2, LoadFinds DEF Fits
<1>3. CASE SingleEndpoint
  <2> DEFINE none == <<>>
             e == [raises |-> FALSE, method |-> "GET",
                   path |-> IF source.path = <<>> THEN <<"/">> ELSE source.path,
                   required |-> FALSE, schema |-> "none", auth |-> FALSE,
                   parameters |-> none, notes |-> none]
  <2>1. /\ source \in Sources /\ source.kind = "url" /\ base' = source.host
        /\ result' = [result EXCEPT !.endpoints = <<e>>]
    BY <1>0, <1>3 DEF SingleEndpoint, Stages
  <2>2. IsEndpoint(e)
    <3>1. IsList(e.path)
      BY <2>1, SourceIs, ListsWritten
    <3>2. Len(e.method) \in Nat
      BY MethodsAssumption
    <3> QED BY <3>1, <3>2 DEF IsEndpoint
  <2>3. result.endpoints = <<>> /\ IsResult(result)
    BY <1>0, <1>3 DEF SingleEndpoint, Probing, FoundIn
  <2> HIDE DEF e
  <2>4. result'.endpoints = <<e>>
    BY <2>1, <2>3 DEF IsResult
  <2>5. IsList(<<e>>) /\ \A k \in DOMAIN <<e>> : <<e>>[k] = e
    BY ListsWritten
  <2> QED BY <2>1, <2>2, <2>4, <2>5, SourceIs DEF Fits
<1>4. CASE LoadText
  <2>1. /\ source \in Sources /\ source.kind = "text" /\ Parsed(source.answer)
        /\ base' = source.base
    BY <1>0, <1>4 DEF LoadText, Stages
  <2> QED BY <2>1, SourceIs, LoadFinds DEF Fits
<1>5. CASE DiscoverAndSave
  <2>1. source \in Sources /\ base' = base /\ IsResult(result')
    BY <1>0, <1>5, ScriptFinds DEF DiscoverAndSave, Stages, FoundIn
  <2> QED BY <1>0, <2>1 DEF Fits, IsResult
<1>6. CASE GenerateTasks \/ GenerateMutations \/ MutateRequest \/ UNCHANGED vars
  <2>1. UNCHANGED <<result, base>>
    BY <1>6 DEF GenerateTasks, GenerateMutations, MutateRequest, vars
  <2> QED BY <1>0, <2>1 DEF Fits
<1> QED BY <1>1, <1>2, <1>3, <1>4, <1>5, <1>6 DEF Next

\* Every step keeps the result that of the document at hand.
LEMMA StepFound ==
  ASSUME TInv, [Next]_vars
  PROVE  Found'
<1>0. Stages /\ Found /\ Probing
  BY DEF TInv
<1>1. CASE LoadUrl
  <2>1. /\ source \in Sources /\ source.kind = "url" /\ Parsed(source.web[source.url])
        /\ stage' \in {"probe", "build", "saved"} => ~result'.raised
        /\ Resolving' = TRUE
    BY <1>0, <1>1 DEF LoadUrl, Stages, Resolving
  <2> QED BY <2>1, SourceIs, LoadFinds DEF Found
<1>2. CASE Probe
  <2>1. stage = "probe" /\ left # <<>> /\ source' = source /\ Resolving' = TRUE
    BY <1>0, <1>2 DEF Probe, Stages, Resolving
  <2>2. CASE UNCHANGED <<stage, document, result>>
    BY <1>0, <2>1, <2>2 DEF Found, Visited, Resolving
  <2>3. CASE Parsed(source.web[Head(left)]) /\ ~result'.raised
    <3>1. IsAnswer(source.web[Head(left)])
      BY <1>0, <2>1, ProbedIsAnswer
    <3> QED BY <2>1, <2>3, <3>1, LoadFinds DEF Found
  <2>4. \/ UNCHANGED <<stage, document, result>>
        \/ Parsed(source.web[Head(left)]) /\ ~result'.raised
    BY <1>2 DEF Probe, Parsed
  <2> QED BY <2>2, <2>3, <2>4
<1>3. CASE SingleEndpoint
  <2>1. stage = "probe" /\ document' = document
    BY <1>3 DEF SingleEndpoint
  <2>2. /\ IsDocument(document) /\ ~result.raised
        /\ FoundIn(document, result, Resolving) /\ result.endpoints = <<>>
    BY <1>0, <2>1 DEF Found, Probing
  <2>3. Operations(Visited) = {}
    <3>1. CASE HasPaths(document)
      BY <2>2, <3>1, NoneFound DEF Visited
    <3>2. CASE ~HasPaths(document)
      <4>1. DOMAIN <<>> = {}
        OBVIOUS
      <4> QED BY <3>2, <4>1 DEF Visited, Operations
    <3> QED BY <3>1, <3>2
  <2>4. result'.raised = result.raised
    BY <1>3, <2>2 DEF SingleEndpoint, FoundIn, IsResult
  <2>5. Visited' = Visited
    BY <2>1 DEF Visited
  <2> QED BY <2>1, <2>2, <2>3, <2>4, <2>5 DEF Found
<1>4. CASE LoadText
  <2>1. /\ source \in Sources /\ source.kind = "text" /\ Parsed(source.answer)
        /\ stage' \in {"probe", "build", "saved"} => ~result'.raised
        /\ Resolving' = TRUE
    BY <1>0, <1>4 DEF LoadText, Stages, Resolving
  <2> QED BY <2>1, SourceIs, LoadFinds DEF Found
<1>5. CASE DiscoverAndSave
  <2>1. /\ stage' \in {"probe", "build", "saved"} => ~result'.raised
        /\ Resolving' = FALSE
    BY <1>5 DEF DiscoverAndSave, Resolving
  <2> QED BY <1>0, <1>5, <2>1, ScriptFinds DEF Found
<1>6. CASE GenerateTasks \/ GenerateMutations \/ MutateRequest
  BY <1>6 DEF GenerateTasks, GenerateMutations, MutateRequest, Found
<1>7. CASE UNCHANGED vars
  BY <1>0, <1>7 DEF vars, Found, Visited, Resolving
<1> QED BY <1>1, <1>2, <1>3, <1>4, <1>5, <1>6, <1>7 DEF Next

\* Every step keeps what was probed without success and what is left.
LEMMA StepProbing ==
  ASSUME TInv, [Next]_vars
  PROVE  Probing'
<1>0. Stages /\ Probing
  BY DEF TInv
<1>1. CASE LoadUrl
  <2>1. /\ source \in Sources /\ source.kind = "url" /\ Parsed(source.web[source.url])
        /\ source' = source /\ base' = source.base /\ Resolving' = TRUE
    BY <1>0, <1>1 DEF LoadUrl, Stages, Resolving
  <2>2. result' = Given /\ Given' = Given /\ Candidates' = Candidates
    BY <2>1 DEF Parsed, Given, Candidates
  <2>3. FoundIn(document', result', TRUE)
    BY <2>1, SourceIs, LoadFinds
  <2>4. stage' = "probe" => left' = Candidates /\ result'.endpoints = <<>>
    BY <1>1, <2>2 DEF LoadUrl, Candidates
  <2>5. /\ IsList(Candidates) /\ Len(Candidates) - Len(Candidates) = 0
        /\ \A i \in 1 .. Len(Candidates) : 0 + i = i
    BY <1>0, <2>1, CandidatesAre
  <2>6. ASSUME stage' = "probe"
        PROVE  LET gone == Len(Candidates) - Len(left')
               IN /\ gone \in Nat
                  /\ \A i \in 1 .. Len(left') : left'[i] = Candidates[gone + i]
                  /\ \A i \in 1 .. gone : ~Gives(Candidates[i])'
    BY <2>4, <2>5, <2>6
  <2> QED BY <2>1, <2>2, <2>3, <2>4, <2>5, <2>6 DEF Probing
<1>2. CASE Probe
  <2> DEFINE found == Loaded(source.web[Head(left)])
             gone == Len(Candidates) - Len(left)
  <2>1. stage = "probe" /\ left # <<>> /\ source' = source /\ base' = base
    BY <1>2 DEF Probe
  <2>2. CASE ~found.raised /\ found.endpoints # <<>>
    BY <1>2, <2>2 DEF Probe, Probing
  <2>3. CASE ~(~found.raised /\ found.endpoints # <<>>)
    <3>1. left' = Tail(left) /\ UNCHANGED <<stage, document, result>>
      BY <1>2, <2>3 DEF Probe
    <3>2. ~Gives(Head(left))
      BY <2>3 DEF Gives
    <3>3. /\ Candidates' = Candidates /\ Given' = Given /\ Resolving' = Resolving
          /\ \A u : Gives(u)' <=> Gives(u)
      BY <2>1 DEF Candidates, Given, Gives, Resolving
    <3>4. /\ gone \in Nat /\ gone + 1 \in DOMAIN Candidates
          /\ Head(left) = Candidates[gone + 1]
          /\ IsList(Tail(left)) /\ Len(Tail(left)) = Len(left) - 1
          /\ \A i \in 1 .. Len(Tail(left)) : Tail(left)[i] = left[i + 1]
      BY <1>0, <2>1, ProbedIsNext
    <3>5. /\ \A i \in 1 .. Len(left) : left[i] = Candidates[gone + i]
          /\ \A i \in 1 .. gone : ~Gives(Candidates[i])
          /\ result = Given /\ FoundIn(document, result, Resolving) /\ result.endpoints = <<>>
          /\ base = source.base /\ IsList(left)
      BY <1>0, <2>1 DEF Probing
    <3>6. Len(left) \in Nat /\ Len(Candidates) \in Nat
      BY <1>0, <2>1, <3>5, ListLength, CandidatesAre DEF Stages
    <3> DEFINE rest == Tail(left)
    <3>7. Len(Candidates) - Len(rest) = gone + 1 /\ gone + 1 \in Nat
      <4>1. Len(rest) = Len(left) - 1 /\ gone \in Nat
        BY <3>4
      <4> HIDE DEF rest
      <4> QED BY <3>6, <4>1
    <3>8. ASSUME NEW i \in 1 .. Len(rest) PROVE rest[i] = Candidates[(gone + 1) + i]
      <4>1. i + 1 \in 1 .. Len(left) /\ gone + (i + 1) = (gone + 1) + i
        BY <3>4, <3>6
      <4> QED BY <3>4, <3>5, <4>1
    <3>9. ASSUME NEW i \in 1 .. gone + 1 PROVE ~Gives(Candidates[i])
      <4>1. CASE i = gone + 1
        BY <3>2, <3>4, <4>1
      <4>2. CASE i # gone + 1
        <5>1. i \in 1 .. gone
          BY <3>4, <4>2
        <5> QED BY <3>5, <5>1
      <4> QED BY <4>1, <4>2
    <3> HIDE DEF gone, rest
    <3>10. LET g == Len(Candidates) - Len(rest)
           IN /\ g \in Nat
              /\ \A i \in 1 .. Len(rest) : rest[i] = Candidates[g + i]
              /\ \A i \in 1 .. g : ~Gives(Candidates[i])
      BY <3>7, <3>8, <3>9
    <3>11. left' = rest /\ IsList(rest)
      BY <3>1, <3>4 DEF rest
    <3> QED BY <2>1, <3>1, <3>3, <3>5, <3>10, <3>11 DEF Probing
  <2> QED BY <2>2, <2>3
<1>3. CASE SingleEndpoint \/ LoadText \/ GenerateTasks \/ DiscoverAndSave
           \/ GenerateMutations \/ MutateRequest
  BY <1>3 DEF SingleEndpoint, LoadText, GenerateTasks, DiscoverAndSave,
              GenerateMutations, MutateRequest, Probing
<1>4. CASE UNCHANGED vars
  BY <1>0, <1>4 DEF vars, Probing, Given, Candidates, Gives, Resolving
<1> QED BY <1>1, <1>2, <1>3, <1>4 DEF Next

\* The URLs there are, in the order in which they are tried, and the places
\* of those with endpoints.
More == IF Hinted(source.url, Given.errors) THEN source.candidates ELSE <<>>
\* The URLs that are tried, in order, and those that give endpoints.
Tried == <<source.url>> \o More
Hits == {i \in DOMAIN Tried : Gives(Tried[i])}

\* A list with an entry before it.
LEMMA Prefixed ==
  ASSUME NEW x, NEW s, IsList(s)
  PROVE  /\ DOMAIN (<<x>> \o s) = 1 .. Len(s) + 1
         /\ (<<x>> \o s)[1] = x
         /\ \A j \in 1 .. Len(s) : (<<x>> \o s)[j + 1] = s[j]
<1> DEFINE one == <<x>>
           t == one \o s
<1>1. IsList(one) /\ Len(one) = 1 /\ one[1] = x
  BY ListsWritten
<1> HIDE DEF one
<1>2. Len(s) \in Nat
  BY ListLength
<1>3. /\ DOMAIN t = 1 .. Len(one) + Len(s)
      /\ \A i \in 1 .. Len(one) : t[i] = one[i]
      /\ \A i \in 1 .. Len(s) : t[Len(one) + i] = s[i]
  <2>1. IsList(one)
    BY <1>1
  <2>2. DOMAIN t = 1 .. Len(one) + Len(s)
    BY <2>1, Concatenated
  <2>3. \A i \in 1 .. Len(one) : t[i] = one[i]
    BY <2>1, Concatenated
  <2>4. \A i \in 1 .. Len(s) : t[Len(one) + i] = s[i]
    BY <2>1, Concatenated
  <2> QED BY <2>2, <2>3, <2>4
<1>4. \A j \in 1 .. Len(s) : 1 + j = j + 1
  OBVIOUS
<1> HIDE DEF t
<1>5. /\ DOMAIN t = 1 .. Len(s) + 1 /\ t[1] = x
      /\ \A j \in 1 .. Len(s) : t[j + 1] = s[j]
  BY <1>1, <1>2, <1>3, <1>4
<1> QED BY <1>5 DEF t, one

\* The URLs tried are the given one and then the others.
LEMMA TriedAre ==
  ASSUME Stages, source.kind = "url"
  PROVE  /\ IsList(More) /\ Len(More) \in Nat /\ DOMAIN Tried = 1 .. Len(More) + 1
         /\ Tried[1] = source.url
         /\ \A j \in 1 .. Len(More) : Tried[j + 1] = More[j]
<1>1. IsList(More)
  BY SourceIs, ListsWritten DEF Stages, More
<1> QED BY <1>1, Prefixed, ListLength DEF Tried

\* The least of the numbers is the one that is taken.
LEMMA MinIs ==
  ASSUME NEW S \in SUBSET Nat, NEW m \in S, \A j \in S : m <= j
  PROVE  Min(S) = m
<1>1. Min(S) \in S /\ \A j \in S : Min(S) <= j
  BY DEF Min
<1>2. Min(S) <= m /\ m <= Min(S) /\ Min(S) \in Nat /\ m \in Nat
  BY <1>1
<1> QED BY <1>2

\* If the given URL has endpoints, it is the first that has.
LEMMA GivenHits ==
  ASSUME Stages, source.kind = "url", Gives(source.url)
  PROVE  Hits # {} /\ Tried[Min(Hits)] = source.url
<1>1. /\ Len(More) \in Nat /\ DOMAIN Tried = 1 .. Len(More) + 1
      /\ Tried[1] = source.url
  BY TriedAre
<1>2. 1 \in Hits /\ Hits \in SUBSET Nat /\ \A j \in Hits : 1 <= j
  BY <1>1 DEF Hits
<1>3. Min(Hits) = 1
  BY <1>2, MinIs
<1> QED BY <1>1, <1>2, <1>3

\* Who probes has found the given URL without endpoints.
LEMMA GivenMisses ==
  ASSUME Stages, Probing, stage = "probe"
  PROVE  source.kind = "url" /\ ~Gives(source.url)
BY DEF Stages, Probing, Gives, Given

\* The URL that ends the probing is the first that has endpoints.
LEMMA ProbedHits ==
  ASSUME Stages, Probing, stage = "probe", left # <<>>, Gives(Head(left))
  PROVE  Hits # {} /\ Tried[Min(Hits)] = Head(left)
<1> DEFINE gone == Len(Candidates) - Len(left)
           G == {u \in ToSet(source.candidates) : Gives(u)}
           n == gone + 1
<1>1. source.kind = "url" /\ ~Gives(source.url)
  BY GivenMisses
<1>2. gone \in Nat /\ n \in DOMAIN Candidates /\ Head(left) = Candidates[n]
  BY ProbedIsNext
<1>3. \A i \in 1 .. gone : ~Gives(Candidates[i])
  BY DEF Probing
<1>4. \A i \in DOMAIN Candidates : Candidates[i] \in ToSet(source.candidates)
  BY <1>1, CandidatesAre
<1>5. Hinted(source.url, Given.errors)
  <2>1. DOMAIN <<>> = {}
    OBVIOUS
  <2> QED BY <1>2, <2>1 DEF Candidates
<1>6. More = source.candidates /\ Candidates = UniquePaths(source.candidates)
  BY <1>5 DEF More, Candidates
<1>7. PICK p \in DOMAIN More : More[p] = Candidates[n] /\ \A j \in 1 .. p - 1 : More[j] \notin G
  <2>1. IsList(source.candidates)
    BY <1>1, SourceIs DEF Stages
  <2>2. Candidates[n] \in G
    BY <1>2, <1>4
  <2>3. \A i \in 1 .. n - 1 : Candidates[i] \notin G
    <3>1. \A i \in 1 .. n - 1 : i \in 1 .. gone
      BY <1>2
    <3> QED BY <1>3, <3>1
  <2> HIDE DEF G, n
  <2> QED BY <1>2, <1>6, <2>1, <2>2, <2>3, FirstOfUnique
<1>8. /\ IsList(More) /\ Len(More) \in Nat /\ DOMAIN Tried = 1 .. Len(More) + 1
      /\ Tried[1] = source.url
      /\ \A j \in 1 .. Len(More) : Tried[j + 1] = More[j]
  BY <1>1, TriedAre
<1>9. DOMAIN More = 1 .. Len(More) /\ p \in 1 .. Len(More) /\ p + 1 \in 1 .. Len(More) + 1
  BY <1>7, <1>8, ListLength
<1>10. Tried[p + 1] = Head(left) /\ p + 1 \in Hits
  BY <1>2, <1>7, <1>8, <1>9 DEF Hits
<1>11. ASSUME NEW j \in Hits, ~(p + 1 <= j) PROVE FALSE
  <2>1. j \in 1 .. Len(More) + 1 /\ Gives(Tried[j])
    BY <1>8, <1>11 DEF Hits
  <2>2. j # 1
    BY <1>1, <1>8, <2>1
  <2>3. j - 1 \in 1 .. p - 1 /\ j - 1 \in 1 .. Len(More) /\ (j - 1) + 1 = j
    BY <1>8, <1>9, <1>11, <2>1, <2>2
  <2>4. Tried[j] = More[j - 1] /\ More[j - 1] \notin G
    BY <1>7, <1>8, <2>3
  <2>5. More[j - 1] \in ToSet(source.candidates)
    BY <1>6, <1>9, <2>3 DEF ToSet
  <2> QED BY <2>1, <2>4, <2>5
<1>12. Hits \in SUBSET Nat
  BY <1>8 DEF Hits
<1>13. Min(Hits) = p + 1
  BY <1>10, <1>11, <1>12, MinIs
<1> QED BY <1>10, <1>13

\* When nothing is left to probe, no URL has endpoints.
LEMMA NoneHits ==
  ASSUME Stages, Probing, stage = "probe", left = <<>>
  PROVE  Hits = {}
<1>1. source.kind = "url" /\ ~Gives(source.url)
  BY GivenMisses
<1>2. Len(Candidates) \in Nat /\ DOMAIN Candidates = 1 .. Len(Candidates)
  BY <1>1, CandidatesAre
<1>3. \A i \in DOMAIN Candidates : ~Gives(Candidates[i])
  <2>1. Len(left) = 0
    OBVIOUS
  <2>2. Len(Candidates) - Len(left) = Len(Candidates)
    BY <1>2, <2>1
  <2> QED BY <1>2, <2>2 DEF Probing
<1>4. /\ IsList(More) /\ Len(More) \in Nat /\ DOMAIN Tried = 1 .. Len(More) + 1
      /\ Tried[1] = source.url
      /\ \A j \in 1 .. Len(More) : Tried[j + 1] = More[j]
  BY <1>1, TriedAre
<1>5. ASSUME NEW i \in Hits PROVE FALSE
  <2>1. i \in 1 .. Len(More) + 1 /\ Gives(Tried[i])
    BY <1>4, <1>5 DEF Hits
  <2>2. i # 1
    BY <1>1, <1>4, <2>1
  <2>3. i - 1 \in 1 .. Len(More) /\ (i - 1) + 1 = i
    BY <1>4, <2>1, <2>2
  <2>4. Tried[i] = More[i - 1]
    BY <1>4, <2>3
  <2>5. More[i - 1] \in ToSet(Candidates)
    <3>1. DOMAIN <<>> = {}
      OBVIOUS
    <3>2. DOMAIN More = 1 .. Len(More)
      BY <1>4, ListLength
    <3>3. Hinted(source.url, Given.errors)
      <4>1. Len(<<>>) = 0
        OBVIOUS
      <4> QED BY <2>3, <4>1 DEF More
    <3>4. More = source.candidates /\ Candidates = UniquePaths(More) /\ IsList(More)
      BY <1>4, <3>3 DEF More, Candidates
    <3>5. ToSet(Candidates) = ToSet(More)
      BY <3>4, UniqueAreAll
    <3> QED BY <2>3, <3>2, <3>5 DEF ToSet
  <2> QED BY <1>3, <2>1, <2>4, <2>5 DEF ToSet
<1> QED BY <1>5

\* Every step keeps the result that of the first URL with endpoints.
LEMMA StepFirstFound ==
  ASSUME TInv, [Next]_vars
  PROVE  ResultIsFirstFound'
<1>0. Stages /\ Probing /\ ResultIsFirstFound
  BY DEF TInv
<1>1. ASSUME source' = source, stage' = "build", source.kind = "url",
             IF Hits # {} THEN /\ result' = Loaded(source.web[Tried[Min(Hits)]])
                               /\ base' = source.base
             ELSE Len(result'.endpoints) = 1 /\ base' = source.host
      PROVE  ResultIsFirstFound'
  BY <1>1 DEF ResultIsFirstFound, Hits, Tried, More, Given, Gives
<1>2. CASE LoadUrl
  <2>1. CASE stage' = "build"
    <3>1. /\ source.kind = "url" /\ source' = source /\ base' = source.base
          /\ result' = Loaded(source.web[source.url])
      BY <1>2 DEF LoadUrl, Parsed
    <3>2. ~result'.raised /\ result'.endpoints # <<>>
      BY <1>2, <2>1 DEF LoadUrl
    <3>3. Gives(source.url)
      BY <3>1, <3>2 DEF Gives
    <3>4. Hits # {} /\ Tried[Min(Hits)] = source.url
      BY <1>0, <3>1, <3>3, GivenHits
    <3> QED BY <1>1, <2>1, <3>1, <3>4
  <2> QED BY <2>1 DEF ResultIsFirstFound
<1>3. CASE Probe
  <2>1. CASE stage' = "build"
    <3>1. /\ stage = "probe" /\ left # <<>> /\ source' = source /\ base' = base
          /\ source.kind = "url" /\ base = source.base
      BY <1>0, <1>3 DEF Probe, Probing, Stages
    <3>2. result' = Loaded(source.web[Head(left)]) /\ Gives(Head(left))
      BY <1>3, <2>1 DEF Probe, Parsed, Gives
    <3>3. Hits # {} /\ Tried[Min(Hits)] = Head(left)
      BY <1>0, <3>1, <3>2, ProbedHits
    <3> QED BY <1>1, <2>1, <3>1, <3>2, <3>3
  <2> QED BY <2>1 DEF ResultIsFirstFound
<1>4. CASE SingleEndpoint
  <2>1. /\ stage = "probe" /\ left = <<>> /\ source' = source /\ base' = source.host
        /\ source.kind = "url" /\ IsResult(result) /\ stage' = "build"
    BY <1>0, <1>4 DEF SingleEndpoint, Stages, Probing, FoundIn
  <2>2. Len(result'.endpoints) = 1
    BY <1>4, <2>1 DEF SingleEndpoint, IsResult
  <2>3. Hits = {}
    BY <1>0, <2>1, NoneHits
  <2> QED BY <1>1, <2>1, <2>2, <2>3
<1>5. CASE LoadText
  BY <1>5 DEF LoadText, ResultIsFirstFound
<1>6. CASE GenerateTasks \/ DiscoverAndSave \/ GenerateMutations \/ MutateRequest
  BY <1>6 DEF GenerateTasks, DiscoverAndSave, GenerateMutations, MutateRequest,
              ResultIsFirstFound
<1>7. CASE UNCHANGED vars
  BY <1>0, <1>7 DEF vars, ResultIsFirstFound, Gives
<1> QED BY <1>2, <1>3, <1>4, <1>5, <1>6, <1>7 DEF Next

\* Until the engine is called nothing is mutated.
LEMMA NoneMutatedBefore ==
  ASSUME Stages, stage \notin {"done", "mutated"}, mutations' = mutations, fuzz' = fuzz
  PROVE  mutations' = <<>> /\ fuzz' = <<>>
BY DEF Stages

\* The requests of the endpoints.
Requests == [i \in DOMAIN result.endpoints |-> Request(result.endpoints[i], base)]

\* The requests the bridge sends are ones the engine takes.
LEMMA RequestsFit ==
  ASSUME Fits
  PROVE  /\ IsList(Requests) /\ DOMAIN Requests = DOMAIN result.endpoints
         /\ \A i \in DOMAIN Requests : IsRequest(Requests[i])
<1>1. Requests = [i \in DOMAIN result.endpoints |-> Requests[i]]
  BY DEF Requests
<1>2. IsList(Requests) /\ DOMAIN Requests = DOMAIN result.endpoints
  <2> DEFINE t == Requests
             s == result.endpoints
  <2>1. IsList(s) /\ t = [i \in DOMAIN s |-> t[i]]
    BY <1>1 DEF Fits
  <2> HIDE DEF t, s
  <2>2. IsList(t) /\ DOMAIN t = DOMAIN s
    BY <2>1, MappedList
  <2> QED BY <2>2 DEF t, s
<1>3. \A i \in DOMAIN result.endpoints : IsRequest(Request(result.endpoints[i], base))
  BY RequestFits DEF Fits
<1> QED BY <1>2, <1>3 DEF Requests

\* What the mutation bridge gets: nothing, or what the engine makes of the
\* requests it answers.
LEMMA BridgeMutates ==
  ASSUME Stages, GenerateMutations
  PROVE  \/ mutations' = <<>>
         \/ \E answered : mutations' = Printed(Requests, answered)
<1>1. MapSeq(LAMBDA e : Request(e, base), result.endpoints) = Requests
  BY DEF MapSeq, Requests
<1>2. stage = "generated"
  BY DEF GenerateMutations
<1>3. \/ UNCHANGED <<mutations, fuzz>>
      \/ \E answered : mutations' = Printed(Requests, answered)
  BY <1>1 DEF GenerateMutations
<1> QED BY <1>2, <1>3, NoneMutatedBefore

\* Every step keeps the mutations those of the requests, in order.
LEMMA StepAllMutated ==
  ASSUME TInv, [Next]_vars
  PROVE  AllMutated'
<1>0. Stages /\ Fits /\ AllMutated
  BY DEF TInv
<1>1. CASE GenerateMutations
  <2>1. source' = source /\ base' = base /\ result' = result /\ source.kind # "request"
    BY <1>0, <1>1 DEF GenerateMutations, Stages
  <2>2. Mutated = Requests
    BY <2>1 DEF Mutated, Requests, MapSeq
  <2>3. Mutated' = Mutated
    BY <2>1 DEF Mutated, MapSeq
  <2>4. CASE mutations' = <<>>
    BY <2>4 DEF AllMutated
  <2>5. ASSUME NEW answered, mutations' = Printed(Requests, answered)
        PROVE  AllMutated'
    <3>1. /\ DOMAIN mutations' = DOMAIN Requests
          /\ \A i \in DOMAIN Requests : mutations'[i] \in {<<>>, Mutate(Requests[i])}
      BY <2>5 DEF Printed
    <3> QED BY <1>0, <2>2, <2>3, <3>1, RequestsFit DEF AllMutated
  <2> QED BY <1>0, <1>1, <2>4, <2>5, BridgeMutates
<1>2. CASE MutateRequest
  <2> DEFINE one == <<source.request>>
  <2>1. source' = source /\ source.kind = "request" /\ stage = "load"
    BY <1>2 DEF MutateRequest
  <2>2. Mutated' = one
    BY <2>1 DEF Mutated
  <2>3. IsRequest(source.request)
    BY <1>0, <2>1, SourceIs DEF Stages
  <2>4. mutations' = mutations \/ mutations' = <<Mutate(source.request)>>
    BY <1>2 DEF MutateRequest
  <2>5. mutations = <<>>
    BY <1>0, <2>1 DEF Stages
  <2>6. /\ DOMAIN <<Mutate(source.request)>> = DOMAIN one
        /\ \A i \in DOMAIN one : <<Mutate(source.request)>>[i] = Mutate(one[i])
    OBVIOUS
  <2>7. \A i \in DOMAIN one : one[i] = source.request
    OBVIOUS
  <2> HIDE DEF one
  <2>8. \A i \in DOMAIN one : IsRequest(one[i])
    BY <2>3, <2>7
  <2> QED BY <2>2, <2>4, <2>5, <2>6, <2>8, Zenon DEF AllMutated
<1>3. CASE LoadUrl \/ Probe \/ SingleEndpoint \/ LoadText \/ GenerateTasks \/ DiscoverAndSave
  <2>1. stage \notin {"done", "mutated"} /\ mutations' = mutations /\ fuzz' = fuzz
    BY <1>3 DEF LoadUrl, Probe, SingleEndpoint, LoadText, GenerateTasks, DiscoverAndSave
  <2> QED BY <1>0, <2>1, NoneMutatedBefore DEF AllMutated
<1>4. CASE UNCHANGED vars
  <2>1. mutations' = mutations /\ Mutated' = Mutated
    BY <1>4 DEF vars, Mutated, MapSeq
  <2> QED BY <1>0, <2>1 DEF AllMutated
<1> QED BY <1>1, <1>2, <1>3, <1>4 DEF Next

\* The invariant is inductive.
LEMMA StepTInv == TInv /\ [Next]_vars => TInv'
BY StepStages, StepFits, StepFound, StepProbing, StepFirstFound, StepAllMutated
   DEF TInv

\* It always holds.
LEMMA AlwaysTInv == Spec => []TInv
BY InitTInv, StepTInv, PTL DEF Spec

-----------------------------------------------------------------------------
(* The theorems                                                            *)

\* Tasks come from the first document with endpoints among the given URL and
\* the fallback ones, and from the URL itself only when there is none
\* (DiscoveryBridge.generate_tasks_from_spec and its fallback URLs).
THEOREM TasksFromFirstFound == Spec => []ResultIsFirstFound
<1>1. TInv => ResultIsFirstFound
  BY DEF TInv
<1> QED BY <1>1, AlwaysTInv, PTL

\* The mutations of a request are those Mutate makes of it, or none.
LEMMA MutationsAre ==
  ASSUME TInv, NEW i \in DOMAIN mutations
  PROVE  IsRequest(Mutated[i]) /\ mutations[i] \in {<<>>, Mutate(Mutated[i])}
<1>1. DOMAIN <<>> = {}
  OBVIOUS
<1>2. mutations # <<>>
  BY <1>1
<1> QED BY <1>2 DEF TInv, AllMutated

\* Whatever the request, the engine drops no mutation that is the only one to
\* change what it changes (MutationEngine._deduplicate, whose fingerprint does
\* not say which part was changed).
THEOREM ChangesAreKept == Spec => []NoChangeLost
<1>1. TInv => NoChangeLost
  <2> SUFFICES ASSUME TInv, NEW i \in DOMAIN mutations, mutations[i] # <<>>,
                      NEW m \in ToSet(AllMutations(Mutated[i]))
               PROVE  \E x \in ToSet(mutations[i]) : SameChange(m, x.mutation)
    BY DEF NoChangeLost
  <2> DEFINE all == AllMutations(Mutated[i])
             kept == Deduplicate(all)
             xs == mutations[i]
  <2>1. IsRequest(Mutated[i]) /\ xs = Mutate(Mutated[i])
    BY MutationsAre
  <2>2. /\ DOMAIN xs = DOMAIN kept
        /\ \A n \in DOMAIN xs : xs[n] = [mutation |-> kept[n],
                                         severity |-> Severity(kept[n].strategy)]
        /\ \A j \in DOMAIN all : \E n \in DOMAIN kept : SameChange(all[j], kept[n])
    BY <2>1, MutateKeeps
  <2> HIDE DEF kept, xs
  <2>3. PICK j \in DOMAIN all : m = all[j]
    BY DEF ToSet
  <2> HIDE DEF all
  <2>4. PICK n \in DOMAIN xs : SameChange(m, kept[n])
    BY <2>2, <2>3
  <2>5. xs[n].mutation = kept[n] /\ xs[n] \in ToSet(xs)
    BY <2>2 DEF ToSet
  <2> QED BY <2>4, <2>5 DEF xs
<1> QED BY <1>1, AlwaysTInv, PTL

\* Whatever the request, the severity of a mutation is that of the gravest
\* word in its strategy (MutationEngine._assignSeverity).
THEOREM GravestWordCounts == Spec => []SeverityIsHighestWord
<1>1. TInv => SeverityIsHighestWord
  <2> SUFFICES ASSUME TInv, NEW i \in DOMAIN mutations, NEW n \in DOMAIN mutations[i]
               PROVE  LET x == mutations[i][n]
                          rows == {row \in SeverityTable :
                                     row.words \cap Words(x.mutation.strategy) # {}}
                      IN x.severity = Max({1} \cup {row.severity : row \in rows})
    BY DEF SeverityIsHighestWord
  <2> DEFINE first == Deduplicate(AllMutations(Mutated[i]))
             x == mutations[i][n]
             m == first[n]
  <2>1. IsRequest(Mutated[i]) /\ mutations[i] = Mutate(Mutated[i])
    <3>1. mutations[i] # <<>>
      OBVIOUS
    <3> QED BY <3>1, MutationsAre
  <2>2. x = [mutation |-> m, severity |-> Severity(m.strategy)]
    BY <2>1, MutateKeeps
  <2> HIDE DEF x, m
  <2>3. x.mutation = m /\ x.severity = Severity(m.strategy)
    BY <2>2
  <2> QED BY <2>3, SeverityIsHighest DEF x
<1> QED BY <1>1, AlwaysTInv, PTL

\* What is known of a document just parsed, when there is an endpoint in it.
LEMMA JustParsedAccounts ==
  ASSUME TInv, JustParsed
  PROVE  /\ IsList(Visited) /\ Len(Visited) \in Nat /\ DOMAIN Visited = 1 .. Len(Visited)
         /\ IsList(result.endpoints)
         /\ \E b : FirstsAre(result, Visited, Len(Visited), document, Resolving, b)
         /\ Counted(result, Visited, Len(Visited))
         /\ Firsts(Visited) \cap (1 .. Len(Visited)) = Firsts(Visited)
<1>1. HasPaths(document)
  <2>1. DOMAIN <<>> = {}
    OBVIOUS
  <2> QED BY <2>1 DEF JustParsed, Visited, Operations
<1>2. Visited = Visits(document)
  BY <1>1 DEF Visited
<1>3. IsDocument(document) /\ ~result.raised /\ FoundIn(document, result, Resolving)
  BY DEF TInv, Found, JustParsed
<1>4. Accounts(result, Visited, Len(Visited), document, Resolving)
  BY <1>1, <1>2, <1>3 DEF FoundIn
<1>5. IsList(Visited) /\ Len(Visited) \in Nat /\ DOMAIN Visited = 1 .. Len(Visited)
  BY <1>1, <1>2, <1>3, VisitsAre, ListLength
<1>6. Firsts(Visited) \subseteq DOMAIN Visited
  BY DEF Firsts, Operations
<1> QED BY <1>3, <1>4, <1>5, <1>6 DEF Accounts, IsResult

\* In every document, the first operation of its method and path is the
\* endpoint, in the order of the document (parse of both parsers).
THEOREM FirstOperationIsEndpoint == Spec => []FirstOperationWins
<1>1. TInv => FirstOperationWins
  <2> SUFFICES ASSUME TInv, JustParsed
               PROVE  LET firsts == Picked(Visited, Firsts(Visited))
                      IN /\ Len(result.endpoints) = Len(firsts)
                         /\ \A n \in DOMAIN firsts :
                              LET e == result.endpoints[n]
                              IN /\ <<e.method, e.path>> = Key(firsts[n])
                                 /\ e = Endpoint(firsts[n], document, Resolving)
    BY DEF FirstOperationWins
  <2> DEFINE F == Firsts(Visited)
             firsts == Picked(Visited, F)
             m == Len(result.endpoints)
  <2>1. /\ IsList(Visited) /\ Len(Visited) \in Nat /\ IsList(result.endpoints)
        /\ F \cap (1 .. Len(Visited)) = F
        /\ DOMAIN Visited = 1 .. Len(Visited)
    BY JustParsedAccounts
  <2>2. PICK b : FirstsAre(result, Visited, Len(Visited), document, Resolving, b)
    BY JustParsedAccounts
  <2>3. m \in Nat
    BY <2>1, ListLength
  <2>4. /\ Enumerates(m, b, F)
        /\ \A k \in 1 .. m : Describes(result.endpoints[k], Visited[b[k]], document, Resolving)
    BY <2>1, <2>2 DEF FirstsAre
  <2>5. F \in SUBSET DOMAIN Visited
    BY <2>1
  <2> HIDE DEF F, m
  <2>6. firsts = [k \in 1 .. m |-> Visited[b[k]]]
    BY <2>1, <2>3, <2>4, <2>5, PickedIs
  <2> HIDE DEF firsts
  <2>7. Len(firsts) = m /\ DOMAIN firsts = 1 .. m
    <3>1. firsts = [k \in 1 .. m |-> firsts[k]]
      BY <2>6
    <3> QED BY <2>3, <3>1, FunctionIsList
  <2>8. \A k \in 1 .. m : Describes(result.endpoints[k], firsts[k], document, Resolving)
    BY <2>4, <2>6
  <2> QED BY <2>7, <2>8 DEF Describes, firsts, F, m
<1> QED BY <1>1, AlwaysTInv, PTL

\* In every document, each visit is an endpoint or an error, and each endpoint
\* without responses an error too (parse of both parsers).
THEOREM EachVisitAccounted == Spec => []EveryVisitAccounted
<1>1. TInv => EveryVisitAccounted
  <2> SUFFICES ASSUME TInv, JustParsed
               PROVE  /\ Len(Visited) = Len(result.endpoints) + Noted(result.errors, Kinds)
                      /\ Noted(result.errors, Silence) =
                           Cardinality({i \in Firsts(Visited) : ~Visited[i].details.responses})
    BY DEF EveryVisitAccounted, Kinds, Silence
  <2>1. /\ Counted(result, Visited, Len(Visited))
        /\ Firsts(Visited) \cap (1 .. Len(Visited)) = Firsts(Visited)
    BY JustParsedAccounts
  <2>2. Silent(Visited, Len(Visited)) = {i \in Firsts(Visited) : ~Visited[i].details.responses}
    BY <2>1 DEF Silent
  <2> QED BY <2>1, <2>2 DEF Counted
<1> QED BY <1>1, AlwaysTInv, PTL
=============================================================================
