----------------------- MODULE ResultCollector_proofs -----------------------
(***************************************************************************)
(* What a report has and keeps, for every value of the constants.  First:  *)
(* no list of a report is the list the collector writes to.  Then what     *)
(* pairs, comparisons, issues and sorted issues are, as sets without       *)
(* duplicates.  Last the invariant that ties buffer, issues and reports.   *)
(***************************************************************************)
EXTENDS ResultCollector, ListTheorems, FiniteSetTheorems, TLAPS

\* The inductive invariant.
ReportsApart ==
  /\ IsList(lists) /\ IsList(reports)
  /\ issues \in DOMAIN lists
  /\ \A n \in DOMAIN reports : reports[n].list \in DOMAIN lists \ {issues}

-----------------------------------------------------------------------------
\* Appending leaves what a list has.
LEMMA AppendKeeps ==
  ASSUME NEW s, NEW e, IsList(s)
  PROVE  /\ IsList(Append(s, e))
         /\ Len(s) \in Nat /\ DOMAIN s = 1 .. Len(s)
         /\ Len(Append(s, e)) = Len(s) + 1
         /\ DOMAIN Append(s, e) = 1 .. Len(s) + 1
         /\ Append(s, e)[Len(s) + 1] = e
         /\ \A n \in DOMAIN s : Append(s, e)[n] = s[n]
<1>1. PICK S : s \in Seq(S)  BY DEF IsList
<1>2. s \in Seq(S \cup {e})  BY <1>1
<1>3. Append(s, e) \in Seq(S \cup {e})  BY <1>2
<1> QED  BY <1>2, <1>3 DEF IsList

\* A report appended with a new list leaves the older ones.
LEMMA ReportAppended ==
  ASSUME ReportsApart, NEW list, NEW held, IsList(held),
         DOMAIN lists \subseteq DOMAIN held,
         \A n \in DOMAIN lists : held[n] = lists[n],
         Report(list, held), issues' \in DOMAIN held,
         issues' = issues \/ issues' \notin DOMAIN lists
  PROVE  /\ ReportsApart'
         /\ \A n \in DOMAIN reports :
              /\ reports'[n] = reports[n]
              /\ lists'[reports[n].list] = lists[reports[n].list]
<1> DEFINE sorted == SortedIssues(held[list])
           new == [list |-> Len(lists'), summary |-> Summary(held[list], Len(buffer), requests)]
<1>1. lists' = Append(held, sorted) /\ reports' = Append(reports, new)
  BY DEF Report
<1>2. IsList(reports)  BY DEF ReportsApart
<1> HIDE DEF sorted, new
<1>3. /\ IsList(lists')
      /\ Len(held) \in Nat /\ DOMAIN held = 1 .. Len(held)
      /\ Len(lists') = Len(held) + 1
      /\ DOMAIN lists' = 1 .. Len(held) + 1
      /\ \A n \in DOMAIN held : lists'[n] = held[n]
  BY <1>1, AppendKeeps
<1>4. /\ IsList(reports')
      /\ Len(reports) \in Nat /\ DOMAIN reports = 1 .. Len(reports)
      /\ DOMAIN reports' = 1 .. Len(reports) + 1
      /\ reports'[Len(reports) + 1] = new
      /\ \A n \in DOMAIN reports : reports'[n] = reports[n]
  BY <1>1, <1>2, AppendKeeps
<1>5. new.list = Len(held) + 1  BY <1>3 DEF new
<1>6. \A n \in DOMAIN reports' : reports'[n].list \in DOMAIN lists' \ {issues'}
  <2> SUFFICES ASSUME NEW n \in DOMAIN reports'
               PROVE  reports'[n].list \in DOMAIN lists' \ {issues'}
    OBVIOUS
  <2>1. CASE n \in DOMAIN reports
    <3>1. reports'[n] = reports[n] /\ reports[n].list \in DOMAIN lists \ {issues}
      BY <1>4, <2>1 DEF ReportsApart
    <3> QED  BY <1>3, <3>1
  <2>2. CASE n = Len(reports) + 1
    BY <1>3, <1>4, <1>5, <2>2
  <2> QED  BY <1>4, <2>1, <2>2
<1>7. issues' \in DOMAIN lists'  BY <1>3
<1>8. \A n \in DOMAIN reports : lists'[reports[n].list] = lists[reports[n].list]
  BY <1>3 DEF ReportsApart
<1> QED  BY <1>3, <1>4, <1>6, <1>7, <1>8 DEF ReportsApart

\* Every step keeps the reports apart and as they are.
LEMMA ReportsKept ==
  ASSUME ReportsApart, [Next]_collectorVars
  PROVE  /\ ReportsApart'
         /\ \A n \in DOMAIN reports :
              /\ reports'[n] = reports[n]
              /\ lists'[reports[n].list] = lists[reports[n].list]
<1>1. ASSUME NEW r \in Responses, OnResult(r)
      PROVE  UNCHANGED <<lists, issues, reports>>
  BY <1>1 DEF OnResult
<1>2. CASE UNCHANGED <<lists, issues, reports>>
  BY <1>2 DEF ReportsApart, IsList
<1>3. CASE Process
  <2> DEFINE found == Found
  <2>1. /\ lists' = Append(lists, found) /\ issues' = Len(lists) + 1
        /\ reports' = reports
    BY <1>3 DEF Process, ProcessBuffered
  <2> HIDE DEF found
  <2>2. /\ IsList(lists')
        /\ Len(lists) \in Nat /\ DOMAIN lists = 1 .. Len(lists)
        /\ DOMAIN lists' = 1 .. Len(lists) + 1
        /\ \A n \in DOMAIN lists : lists'[n] = lists[n]
    BY <2>1, AppendKeeps DEF ReportsApart
  <2>3. \A n \in DOMAIN reports' : reports'[n].list \in DOMAIN lists' \ {issues'}
    BY <2>1, <2>2 DEF ReportsApart
  <2> QED  BY <2>1, <2>2, <2>3 DEF ReportsApart, IsList
<1>4. CASE Flush
  <2>1. CASE ProcessBuffered /\ Report(issues', Append(lists, Found))
    <3> DEFINE held == Append(lists, Found)
    <3>1. /\ IsList(held) /\ Len(lists) \in Nat /\ DOMAIN lists = 1 .. Len(lists)
          /\ DOMAIN held = 1 .. Len(lists) + 1
          /\ \A n \in DOMAIN lists : held[n] = lists[n]
      BY AppendKeeps DEF ReportsApart
    <3>2. issues' = Len(lists) + 1  BY <2>1 DEF ProcessBuffered
    <3>3. Report(issues', held)  BY <2>1
    <3> HIDE DEF held
    <3> QED  BY <3>1, <3>2, <3>3, ReportAppended
  <2>2. CASE UNCHANGED issues /\ Report(issues, lists)
    BY <2>2, ReportAppended DEF ReportsApart
  <2> QED  BY <1>4, <2>1, <2>2 DEF Flush
<1>5. CASE Reset
  <2>1. /\ lists' = [lists EXCEPT ![issues] = <<>>]
        /\ issues' = issues /\ reports' = reports
    BY <1>5 DEF Reset
  <2>2. IsList(lists')
    <3>1. PICK S : lists \in Seq(S)  BY DEF ReportsApart, IsList
    <3>2. lists' \in Seq(S \cup {<<>>})  BY <2>1, <3>1 DEF ReportsApart
    <3> QED  BY <3>2 DEF IsList
  <2> QED  BY <2>1, <2>2 DEF ReportsApart, IsList
<1> QED  BY <1>1, <1>2, <1>3, <1>4, <1>5 DEF Next, collectorVars

\* ReportsStand (flush builds a list of its own, reset clears the collector's):
\* a report that was handed out never changes.
THEOREM HandedOutReportsStand == Spec => ReportsStand
<1>1. Init => ReportsApart
  <2> SUFFICES ASSUME Init PROVE ReportsApart
    OBVIOUS
  <2>1. lists = <<<<>>>> /\ issues = 1 /\ reports = <<>>  BY DEF Init
  <2>2. lists \in Seq({<<>>}) /\ DOMAIN lists = 1 .. 1  BY <2>1
  <2>3. reports \in Seq({}) /\ DOMAIN reports = {}  BY <2>1
  <2>4. IsList(lists)  BY <2>2 DEF IsList
  <2>5. IsList(reports)  BY <2>3 DEF IsList
  <2> QED  BY <2>1, <2>2, <2>3, <2>4, <2>5 DEF ReportsApart
<1>2. ReportsApart /\ [Next]_collectorVars => ReportsApart'
  BY ReportsKept
<1>3. ReportsApart /\ [Next]_collectorVars =>
        [\A n \in DOMAIN reports :
           /\ reports'[n] = reports[n]
           /\ lists'[reports[n].list] = lists[reports[n].list]]_collectorVars
  BY ReportsKept
<1> QED  BY <1>1, <1>2, <1>3, PTL DEF Spec, ReportsStand

-----------------------------------------------------------------------------
(* Pairs *)

\* A reference response is paired once with each other of another user or role.
LEMMA PairsWithElements ==
  ASSUME NEW ref, NEW others, IsList(others), IsInjective(others)
  PROVE  /\ IsList(PairsWith(ref, others)) /\ IsInjective(PairsWith(ref, others))
         /\ ToSet(PairsWith(ref, others)) =
              {<<ref, others[i]>> : i \in {j \in DOMAIN others :
                 ref.user # others[j].user \/ ref.role # others[j].role}}
<1> DEFINE all == [i \in DOMAIN others |-> <<ref, others[i]>>]
           P == {i \in DOMAIN others : ref.user # others[i].user \/ ref.role # others[i].role}
<1>1. Len(others) \in Nat /\ DOMAIN others = 1 .. Len(others)
  BY ListLength
<1>2. IsList(all) /\ IsInjective(all)
  <2>1. IsList(all)
    BY <1>1, FunctionIsList
  <2> QED BY <2>1 DEF IsInjective
<1>3. PairsWith(ref, others) = Picked(all, P)
  BY DEF PairsWith
<1>4. \A i \in DOMAIN others : all[i] = <<ref, others[i]>>
  OBVIOUS
<1>5. P \cap DOMAIN all = P
  OBVIOUS
<1> HIDE DEF all
<1>6. IsList(Picked(all, P)) /\ IsInjective(Picked(all, P))
  BY <1>2, PickedElements, PickedInjective
<1>7. ToSet(Picked(all, P)) = {all[i] : i \in P \cap DOMAIN all}
  BY <1>2, PickedElements
<1>8. {all[i] : i \in P \cap DOMAIN all} = {<<ref, others[i]>> : i \in P}
  BY <1>4, <1>5
<1> QED BY <1>3, <1>6, <1>7, <1>8

\* The pairs of a list of responses: each reference with each other response
\* that differs from it in its user or its role.
PairSet(rs) ==
  UNION {{<<rs[k], rs[l]>> : l \in {l \in DOMAIN rs \ References(rs) :
            rs[k].user # rs[l].user \/ rs[k].role # rs[l].role}} :
         k \in References(rs) \cap DOMAIN rs}

\* _build_pairs makes each pair of PairSet once.
LEMMA BuildPairsElements ==
  ASSUME NEW rs, IsList(rs), IsInjective(rs)
  PROVE  /\ IsList(BuildPairs(rs)) /\ IsInjective(BuildPairs(rs))
         /\ ToSet(BuildPairs(rs)) = PairSet(rs)
<1> DEFINE refs == Picked(rs, References(rs))
           others == Picked(rs, DOMAIN rs \ References(rs))
           ss == [i \in DOMAIN refs |-> PairsWith(refs[i], others)]
<1>1. /\ IsList(refs) /\ IsInjective(refs)
      /\ ToSet(refs) = {rs[i] : i \in References(rs) \cap DOMAIN rs}
  BY PickedElements, PickedInjective
<1>2. /\ IsList(others) /\ IsInjective(others)
      /\ ToSet(others) = {rs[i] : i \in DOMAIN rs \ References(rs)}
  <2>1. (DOMAIN rs \ References(rs)) \cap DOMAIN rs = DOMAIN rs \ References(rs)
    OBVIOUS
  <2> QED BY <2>1, PickedElements, PickedInjective
<1>3. BuildPairs(rs) = FlattenSeq(ss)
  BY DEF BuildPairs
<1> HIDE DEF refs, others
<1>4. Len(refs) \in Nat /\ DOMAIN refs = 1 .. Len(refs)
  BY <1>1, ListLength
<1>5. IsList(ss) /\ DOMAIN ss = DOMAIN refs
  BY <1>4, FunctionIsList
<1>6. ASSUME NEW i \in DOMAIN refs
      PROVE  /\ IsList(ss[i]) /\ IsInjective(ss[i])
             /\ ToSet(ss[i]) = {<<refs[i], others[j]>> : j \in {j \in DOMAIN others :
                  refs[i].user # others[j].user \/ refs[i].role # others[j].role}}
  BY <1>2, PairsWithElements
<1> HIDE DEF ss
<1>7. IsList(FlattenSeq(ss))
      /\ ToSet(FlattenSeq(ss)) = UNION {ToSet(ss[i]) : i \in DOMAIN ss}
  BY <1>5, <1>6, FlattenElements
<1>8. IsInjective(FlattenSeq(ss))
  <2>1. ASSUME NEW i \in DOMAIN ss, NEW j \in DOMAIN ss, i # j
        PROVE  ToSet(ss[i]) \cap ToSet(ss[j]) = {}
    <3>1. refs[i] # refs[j]
      BY <1>1, <1>5, <2>1 DEF IsInjective
    <3>2. (\A p \in ToSet(ss[i]) : p[1] = refs[i]) /\ (\A p \in ToSet(ss[j]) : p[1] = refs[j])
      BY <1>5, <1>6
    <3> QED BY <3>1, <3>2
  <2> QED BY <1>5, <1>6, <2>1, FlattenInjective
<1>9. UNION {ToSet(ss[i]) : i \in DOMAIN ss} = PairSet(rs)
  <2>1. ASSUME NEW i \in DOMAIN ss, NEW p \in ToSet(ss[i]) PROVE p \in PairSet(rs)
    <3>1. PICK j \in DOMAIN others :
            /\ p = <<refs[i], others[j]>>
            /\ refs[i].user # others[j].user \/ refs[i].role # others[j].role
      BY <1>5, <1>6, <2>1
    <3>2. refs[i] \in ToSet(refs) /\ others[j] \in ToSet(others)
      BY <1>5 DEF ToSet
    <3>3. PICK k \in References(rs) \cap DOMAIN rs : refs[i] = rs[k]
      BY <1>1, <3>2
    <3>4. PICK l \in DOMAIN rs \ References(rs) : others[j] = rs[l]
      BY <1>2, <3>2
    <3> QED BY <3>1, <3>3, <3>4 DEF PairSet
  <2>2. ASSUME NEW p \in PairSet(rs) PROVE \E i \in DOMAIN ss : p \in ToSet(ss[i])
    <3>1. PICK k \in DOMAIN rs, l \in DOMAIN rs :
            /\ k \in References(rs) /\ l \notin References(rs)
            /\ p = <<rs[k], rs[l]>>
            /\ rs[k].user # rs[l].user \/ rs[k].role # rs[l].role
      BY <2>2 DEF PairSet
    <3>2. rs[k] \in ToSet(refs) /\ rs[l] \in ToSet(others)
      BY <1>1, <1>2, <3>1
    <3>3. PICK i \in DOMAIN refs : refs[i] = rs[k]
      BY <3>2 DEF ToSet
    <3>4. PICK j \in DOMAIN others : others[j] = rs[l]
      BY <3>2 DEF ToSet
    <3> QED BY <1>5, <1>6, <3>1, <3>3, <3>4
  <2> QED BY <2>1, <2>2
<1> QED BY <1>3, <1>7, <1>8, <1>9

-----------------------------------------------------------------------------
(* Issues *)

\* The checkers are the six types of issues, each once.
LEMMA SixCheckers ==
  /\ IsList(Checkers) /\ IsInjective(Checkers) /\ ToSet(Checkers) = IssueTypes
<1>1. Checkers \in Seq(IssueTypes) /\ DOMAIN Checkers = 1 .. 6
  BY DEF Checkers, IssueTypes
<1>2. 1 .. 6 = {1, 2, 3, 4, 5, 6}
  OBVIOUS
<1>3. IsInjective(Checkers)
  BY <1>1, <1>2 DEF IsInjective, Checkers
<1>4. ToSet(Checkers) = IssueTypes
  BY <1>1, <1>2 DEF ToSet, Checkers, IssueTypes
<1> QED BY <1>1, <1>3, <1>4 DEF IsList

\* The issues of a comparison, each once.
IssueSet(d) == {Issue(type, d) : type \in {t \in IssueTypes : IsAnomaly(d) /\ Triggers(t, d)}}

\* A comparison yields each issue of IssueSet once.
LEMMA ClassifyDiffElements ==
  ASSUME NEW d
  PROVE  /\ IsList(ClassifyDiff(d)) /\ IsInjective(ClassifyDiff(d))
         /\ ToSet(ClassifyDiff(d)) = IssueSet(d)
<1> DEFINE P == {n \in DOMAIN Checkers : Triggers(Checkers[n], d)}
           fired == Picked(Checkers, P)
           all == [i \in DOMAIN fired |-> Issue(fired[i], d)]
<1>1. /\ IsList(fired) /\ IsInjective(fired)
      /\ ToSet(fired) = {t \in IssueTypes : Triggers(t, d)}
  <2>1. ToSet(fired) = {Checkers[i] : i \in P \cap DOMAIN Checkers}
    BY SixCheckers, PickedElements
  <2>2. {Checkers[i] : i \in P \cap DOMAIN Checkers} = {t \in ToSet(Checkers) : Triggers(t, d)}
    BY DEF ToSet
  <2>3. IsList(fired) /\ IsInjective(fired)
    BY SixCheckers, PickedElements, PickedInjective
  <2> QED BY <2>1, <2>2, <2>3, SixCheckers
<1>2. ClassifyDiff(d) = IF ~IsAnomaly(d) THEN <<>> ELSE all
  BY DEF ClassifyDiff
<1> HIDE DEF fired
<1>3. CASE ~IsAnomaly(d)
  <2>1. ClassifyDiff(d) = <<>> /\ IsList(<<>>)
    BY <1>2, <1>3 DEF IsList
  <2>2. IssueSet(d) = {} /\ ToSet(<<>>) = {} /\ IsInjective(<<>>)
    BY <1>3 DEF IssueSet, ToSet, IsInjective
  <2> QED BY <2>1, <2>2
<1>4. CASE IsAnomaly(d)
  <2>1. Len(fired) \in Nat /\ DOMAIN fired = 1 .. Len(fired)
    BY <1>1, ListLength
  <2>2. IsList(all)
    BY <2>1, FunctionIsList
  <2>3. \A t, u : Issue(t, d) = Issue(u, d) => t = u
    BY DEF Issue
  <2>4. IsInjective(all)
    BY <1>1, <2>3 DEF IsInjective
  <2>5. ToSet(all) = {Issue(t, d) : t \in ToSet(fired)}
    BY DEF ToSet
  <2>6. {Issue(t, d) : t \in ToSet(fired)} = IssueSet(d)
    BY <1>1, <1>4 DEF IssueSet
  <2> QED BY <1>2, <1>4, <2>2, <2>4, <2>5, <2>6
<1> QED BY <1>3, <1>4

-----------------------------------------------------------------------------
(* The buffer *)

Fits(buf) ==
  /\ IsList(buf)
  /\ \A i \in DOMAIN buf :
       /\ buf[i] = [key |-> buf[i].key, responses |-> buf[i].responses]
       /\ IsList(buf[i].responses) /\ IsInjective(buf[i].responses)
       /\ \A r \in ToSet(buf[i].responses) : r \in Responses /\ Key(r) = buf[i].key
  /\ \A i, j \in DOMAIN buf : buf[i].key = buf[j].key => i = j

BufferFits == Fits(buffer)

\* A pair is made of two responses of the endpoint.
LEMMA PairSetMembers ==
  ASSUME NEW rs, NEW p \in PairSet(rs)
  PROVE  p[1] \in ToSet(rs) /\ p[2] \in ToSet(rs) /\ p = <<p[1], p[2]>>
BY DEF PairSet, ToSet

\* The pairs of a buffer are those of its endpoints, each once.
LEMMA PairsElements ==
  ASSUME NEW buf, Fits(buf)
  PROVE  /\ IsList(Pairs(buf)) /\ IsInjective(Pairs(buf))
         /\ ToSet(Pairs(buf)) =
              UNION {PairSet(buf[i].responses) : i \in DOMAIN buf}
<1> DEFINE ss == [i \in DOMAIN buf |-> BuildPairs(buf[i].responses)]
<1>1. IsList(ss) /\ DOMAIN ss = DOMAIN buf
  <2>1. Len(buf) \in Nat /\ DOMAIN buf = 1 .. Len(buf)
    BY ListLength DEF Fits
  <2> QED BY <2>1, FunctionIsList
<1>2. ASSUME NEW i \in DOMAIN buf
      PROVE  /\ IsList(ss[i]) /\ IsInjective(ss[i])
             /\ ToSet(ss[i]) = PairSet(buf[i].responses)
  BY BuildPairsElements DEF Fits
<1>3. Pairs(buf) = FlattenSeq(ss)
  BY DEF Pairs
<1> HIDE DEF ss
<1>4. ASSUME NEW i \in DOMAIN ss, NEW j \in DOMAIN ss, i # j
      PROVE  ToSet(ss[i]) \cap ToSet(ss[j]) = {}
  <2>1. ASSUME NEW k \in DOMAIN buf, NEW p \in ToSet(ss[k])
        PROVE  Key(p[1]) = buf[k].key
    <3>1. p[1] \in ToSet(buf[k].responses)
      BY <1>2, <2>1, PairSetMembers
    <3> QED BY <3>1 DEF Fits
  <2> QED BY <1>1, <1>4, <2>1 DEF Fits
<1>5. IsInjective(FlattenSeq(ss))
  BY <1>1, <1>2, <1>4, FlattenInjective
<1>6. IsList(FlattenSeq(ss)) /\ ToSet(FlattenSeq(ss)) = UNION {ToSet(ss[i]) : i \in DOMAIN ss}
  BY <1>1, <1>2, FlattenElements
<1> QED BY <1>1, <1>2, <1>3, <1>5, <1>6

\* The comparison of a pair.
Comparison(p) == CompareResponses(p[1], p[2], Threshold)

\* A comparison names the two responses it is about.
LEMMA ComparisonOf ==
  ASSUME NEW p
  PROVE  Comparison(p).a = p[1] /\ Comparison(p).b = p[2]
BY DEF Comparison, CompareResponses

\* Each pair is compared once.
LEMMA ComparedElements ==
  ASSUME NEW buf, Fits(buf)
  PROVE  /\ IsList(Compared(Pairs(buf))) /\ IsInjective(Compared(Pairs(buf)))
         /\ ToSet(Compared(Pairs(buf))) = {Comparison(p) : p \in ToSet(Pairs(buf))}
<1> DEFINE ps == Pairs(buf)
           ds == [i \in DOMAIN ps |-> Comparison(ps[i])]
<1>1. Compared(Pairs(buf)) = ds
  BY DEF Compared, Comparison
<1>2. IsList(ps) /\ IsInjective(ps)
  BY PairsElements
<1>3. \A p \in ToSet(ps) : p = <<p[1], p[2]>>
  BY PairsElements, PairSetMembers
<1> HIDE DEF ps
<1>4. IsList(ds)
  <2>1. Len(ps) \in Nat /\ DOMAIN ps = 1 .. Len(ps)
    BY <1>2, ListLength
  <2> QED BY <2>1, FunctionIsList
<1>5. IsInjective(ds)
  <2>1. ASSUME NEW i \in DOMAIN ps, NEW j \in DOMAIN ps, Comparison(ps[i]) = Comparison(ps[j])
        PROVE  i = j
    <3>1. ps[i][1] = ps[j][1] /\ ps[i][2] = ps[j][2]
      BY <2>1, ComparisonOf
    <3>2. ps[i] \in ToSet(ps) /\ ps[j] \in ToSet(ps)
      BY DEF ToSet
    <3>3. ps[i] = ps[j]
      BY <1>3, <3>1, <3>2
    <3> QED BY <1>2, <3>3 DEF IsInjective
  <2> QED BY <2>1 DEF IsInjective
<1>6. ToSet(ds) = {Comparison(p) : p \in ToSet(ps)}
  BY DEF ToSet
<1> QED BY <1>1, <1>4, <1>5, <1>6 DEF ps

\* process_buffered compares each pair of the buffer once.
LEMMA NewDiffsElements ==
  ASSUME BufferFits
  PROVE  /\ IsList(NewDiffs) /\ IsInjective(NewDiffs)
         /\ ToSet(NewDiffs) = {Comparison(p) : p \in ToSet(Pairs(buffer))}
BY ComparedElements DEF BufferFits, NewDiffs

\* It finds the issues of these comparisons, each once.
LEMMA FoundElements ==
  ASSUME BufferFits
  PROVE  /\ IsList(Found) /\ IsInjective(Found)
         /\ ToSet(Found) = UNION {IssueSet(d) : d \in ToSet(NewDiffs)}
<1> DEFINE ds == NewDiffs
           ss == [i \in DOMAIN ds |-> ClassifyDiff(ds[i])]
<1>1. Found = FlattenSeq(ss)
  BY DEF Found, Classified
<1>2. IsList(ds) /\ IsInjective(ds)
  BY NewDiffsElements
<1> HIDE DEF ds
<1>3. IsList(ss) /\ DOMAIN ss = DOMAIN ds
  <2>1. Len(ds) \in Nat /\ DOMAIN ds = 1 .. Len(ds)
    BY <1>2, ListLength
  <2> QED BY <2>1, FunctionIsList
<1>4. ASSUME NEW i \in DOMAIN ds
      PROVE  IsList(ss[i]) /\ IsInjective(ss[i]) /\ ToSet(ss[i]) = IssueSet(ds[i])
  BY ClassifyDiffElements
<1> HIDE DEF ss
<1>5. ASSUME NEW i \in DOMAIN ss, NEW j \in DOMAIN ss, i # j
      PROVE  ToSet(ss[i]) \cap ToSet(ss[j]) = {}
  <2>1. ds[i] # ds[j]
    BY <1>2, <1>3, <1>5 DEF IsInjective
  <2>2. \A d : \A x \in IssueSet(d) : x.diff = d
    BY DEF IssueSet, Issue
  <2> QED BY <1>3, <1>4, <2>1, <2>2
<1>6. IsInjective(FlattenSeq(ss))
  BY <1>3, <1>4, <1>5, FlattenInjective
<1>7. IsList(FlattenSeq(ss)) /\ ToSet(FlattenSeq(ss)) = UNION {ToSet(ss[i]) : i \in DOMAIN ss}
  BY <1>3, <1>4, FlattenElements
<1>8. UNION {ToSet(ss[i]) : i \in DOMAIN ss} = UNION {IssueSet(d) : d \in ToSet(ds)}
  BY <1>3, <1>4 DEF ToSet
<1> QED BY <1>1, <1>6, <1>7, <1>8 DEF ds

\* Severities put in order are the same issues, each once.
LEMMA SortedElements ==
  ASSUME NEW list, IsList(list),
         \A i \in ToSet(list) : i.severity \in ToSet(Severities)
  PROVE  /\ IsList(SortedIssues(list)) /\ ToSet(SortedIssues(list)) = ToSet(list)
         /\ IsInjective(list) => IsInjective(SortedIssues(list))
<1> DEFINE P(n) == {i \in DOMAIN list : list[i].severity = Severities[n]}
           ss == [n \in DOMAIN Severities |-> Picked(list, P(n))]
<1>1. SortedIssues(list) = FlattenSeq(ss)
  BY DEF SortedIssues
<1>2. /\ DOMAIN Severities = 1 .. 5 /\ DOMAIN ss = 1 .. 5 /\ IsList(ss)
      /\ 1 .. 5 = {1, 2, 3, 4, 5} /\ 5 \in Nat
  <2>1. DOMAIN Severities = 1 .. 5 /\ 1 .. 5 = {1, 2, 3, 4, 5} /\ 5 \in Nat
    BY DEF Severities
  <2> QED BY <2>1, FunctionIsList
<1>3. ASSUME NEW n \in 1 .. 5
      PROVE  /\ IsList(ss[n])
             /\ IsInjective(list) => IsInjective(ss[n])
             /\ ToSet(ss[n]) = {i \in ToSet(list) : i.severity = Severities[n]}
  <2>1. ss[n] = Picked(list, P(n))
    BY <1>2
  <2>2. ToSet(Picked(list, P(n))) = {list[i] : i \in P(n) \cap DOMAIN list}
    BY PickedElements
  <2>3. {list[i] : i \in P(n) \cap DOMAIN list}
          = {i \in ToSet(list) : i.severity = Severities[n]}
    BY DEF ToSet
  <2>4. IsList(Picked(list, P(n))) /\ (IsInjective(list) => IsInjective(Picked(list, P(n))))
    BY PickedElements, PickedInjective
  <2> QED BY <2>1, <2>2, <2>3, <2>4
<1> HIDE DEF ss
<1>4. IsList(FlattenSeq(ss)) /\ ToSet(FlattenSeq(ss)) = UNION {ToSet(ss[n]) : n \in DOMAIN ss}
  BY <1>2, <1>3, FlattenElements
<1>5. UNION {ToSet(ss[n]) : n \in DOMAIN ss} = ToSet(list)
  <2>1. ASSUME NEW i \in ToSet(list) PROVE \E n \in 1 .. 5 : i \in ToSet(ss[n])
    <3>1. PICK n \in DOMAIN Severities : i.severity = Severities[n]
      BY <2>1 DEF ToSet
    <3> QED BY <1>2, <1>3, <3>1
  <2> QED BY <1>2, <1>3, <2>1
<1>6. ASSUME IsInjective(list) PROVE IsInjective(FlattenSeq(ss))
  <2>1. ASSUME NEW m \in 1 .. 5, NEW n \in 1 .. 5, m # n PROVE Severities[m] # Severities[n]
    BY <1>2, <2>1 DEF Severities
  <2>2. ASSUME NEW m \in DOMAIN ss, NEW n \in DOMAIN ss, m # n
        PROVE  ToSet(ss[m]) \cap ToSet(ss[n]) = {}
    BY <1>2, <1>3, <2>1, <2>2
  <2> QED BY <1>2, <1>3, <1>6, <2>2, FlattenInjective
<1> QED BY <1>1, <1>4, <1>5, <1>6

\* No checker gives a severity that is unknown, or only noted.
LEMMA IssueSeverities ==
  ASSUME NEW d, NEW i \in IssueSet(d)
  PROVE  i.severity \in ToSet(Severities) \ {"INFO"}
<1>1. PICK t \in IssueTypes : i = Issue(t, d)
  BY DEF IssueSet
<1>2. i.severity = Severity(t, d)
  BY <1>1 DEF Issue
<1>3. Severity(t, d) \in {"CRITICAL", "HIGH", "MEDIUM"}
  BY DEF IssueTypes, Severity, BolaSeverity, BflaSeverity
<1>4. \A x \in {"CRITICAL", "HIGH", "MEDIUM"} : x \in ToSet(Severities) /\ x # "INFO"
  <2>1. DOMAIN Severities = 1 .. 5 /\ 1 \in 1 .. 5 /\ 2 \in 1 .. 5 /\ 3 \in 1 .. 5
    BY DEF Severities
  <2>2. Severities[1] = "CRITICAL" /\ Severities[2] = "HIGH" /\ Severities[3] = "MEDIUM"
    BY DEF Severities
  <2> QED BY <2>1, <2>2 DEF ToSet
<1> QED BY <1>2, <1>3, <1>4

-----------------------------------------------------------------------------
(* Figures *)

\* The positions of the issues with one of the severities.
PositionsOf(list, s) == {i \in DOMAIN list : list[i].severity \in s}

\* Positions with one of several values are those with one value and those with the others.
LEMMA PositionsCount ==
  ASSUME NEW list, IsList(list), NEW s, NEW x \in s
  PROVE  /\ Cardinality(PositionsOf(list, s)) \in Nat
         /\ Cardinality(PositionsOf(list, s))
              = Count(list, x) + Cardinality(PositionsOf(list, s \ {x}))
<1> DEFINE A == {i \in DOMAIN list : list[i].severity = x}
           B == PositionsOf(list, s \ {x})
<1>1. IsFiniteSet(DOMAIN list)
  BY ListLength, FS_Interval
<1>2. A \subseteq DOMAIN list /\ B \subseteq DOMAIN list
  BY DEF PositionsOf
<1>3. IsFiniteSet(A) /\ IsFiniteSet(B)
  BY <1>1, <1>2, FS_Subset
<1>4. A \cap B = {} /\ PositionsOf(list, s) = A \cup B
  BY DEF PositionsOf
<1>5. Count(list, x) = Cardinality(A)
  BY DEF Count
<1> HIDE DEF A, B
<1>6. /\ IsFiniteSet(A \cup B)
      /\ Cardinality(A \cup B) = Cardinality(A) + Cardinality(B) - Cardinality(A \cap B)
  BY <1>3, FS_Union
<1>7. Cardinality(A \cap B) = 0
  BY <1>4, FS_EmptySet
<1>8. Cardinality(A) \in Nat /\ Cardinality(B) \in Nat /\ Cardinality(A \cup B) \in Nat
  BY <1>3, <1>6, FS_CardinalityType
<1>9. Cardinality(A \cup B) = Cardinality(A) + Cardinality(B)
  BY <1>6, <1>7, <1>8
<1> QED BY <1>4, <1>5, <1>8, <1>9 DEF B

\* The numbers of issues per severity add up to the number of issues that
\* have one of the severities.
LEMMA CountsAddUp ==
  ASSUME NEW list, IsList(list), NEW count, NEW S, IsFiniteSet(S),
         \A x \in S : count[x] = Count(list, x)
  PROVE  SumFunctionOnSet(count, S) = Cardinality(PositionsOf(list, S))
<1> DEFINE Sums(f) ==
             f = [s \in SUBSET S |->
                    IF s = {} THEN 0
                    ELSE count[CHOOSE x \in s : TRUE] + f[s \ {CHOOSE x \in s : TRUE}]]
           iter == CHOOSE f : Sums(f)
           W == [s \in SUBSET S |-> Cardinality(PositionsOf(list, s))]
<1>1. SumFunctionOnSet(count, S) = iter[S]
  BY DEF SumFunctionOnSet, FoldFunctionOnSet, MapThenFoldSet
<1>2. PositionsOf(list, {}) = {}
  BY DEF PositionsOf
<1>3. ASSUME NEW s \in SUBSET S, s # {}
      PROVE  LET x == CHOOSE x \in s : TRUE
             IN  W[s] = count[x] + W[s \ {x}]
  <2> DEFINE x == CHOOSE x \in s : TRUE
  <2>1. x \in s /\ x \in S /\ s \ {x} \in SUBSET S
    BY <1>3
  <2> HIDE DEF x
  <2>2. Cardinality(PositionsOf(list, s))
          = Count(list, x) + Cardinality(PositionsOf(list, s \ {x}))
    BY <2>1, PositionsCount
  <2>3. count[x] = Count(list, x)
    BY <2>1
  <2>4. W[s] = count[x] + W[s \ {x}]
    BY <2>1, <2>2, <2>3
  <2> QED BY <2>4 DEF x
<1>4. \A s \in SUBSET S : W[s] = Cardinality(PositionsOf(list, s))
  OBVIOUS
<1>5. W = [s \in SUBSET S |-> W[s]]
  OBVIOUS
<1> HIDE DEF W
<1>6. W[{}] = 0
  BY <1>2, <1>4, FS_EmptySet
<1>7. Sums(W)
  <2>1. ASSUME NEW s \in SUBSET S
        PROVE  W[s] = IF s = {} THEN 0
                      ELSE count[CHOOSE x \in s : TRUE] + W[s \ {CHOOSE x \in s : TRUE}]
    BY <1>3, <1>6
  <2> QED BY <1>5, <2>1
<1>8. Sums(iter)
  <2>1. \E f : Sums(f)
    <3> HIDE DEF Sums
    <3> QED BY <1>7
  <2> HIDE DEF Sums
  <2> QED BY <2>1
<1> HIDE DEF iter
<1>9. iter[S] = W[S]
  <2> DEFINE T == {s \in SUBSET S : iter[s] # W[s]}
             sizes == {Cardinality(s) : s \in T}
  <2>1. SUFFICES ASSUME T # {} PROVE FALSE
    OBVIOUS
  <2>2. \A s \in SUBSET S : IsFiniteSet(s) /\ Cardinality(s) \in Nat
    BY FS_Subset, FS_CardinalityType
  <2>3. sizes \subseteq Nat /\ sizes # {}
    BY <2>1, <2>2
  <2>4. PICK m \in sizes : \A n \in sizes : m <= n
    <3> HIDE DEF sizes
    <3> QED BY <2>3, LeastNumber
  <2>5. PICK s \in T : m = Cardinality(s)
    BY <2>4
  <2>6. s # {}
    BY <1>6, <1>8, <2>5
  <2> DEFINE x == CHOOSE x \in s : TRUE
  <2>7. x \in s
    BY <2>6
  <2>8. iter[s] = count[x] + iter[s \ {x}]
    BY <1>8, <2>6
  <2>9. W[s] = count[x] + W[s \ {x}]
    BY <1>7, <2>6
  <2> HIDE DEF x
  <2>10. s \ {x} \in SUBSET S /\ iter[s \ {x}] # W[s \ {x}]
    BY <2>5, <2>8, <2>9
  <2>11. Cardinality(s \ {x}) \in sizes
    BY <2>10
  <2>12. Cardinality(s \ {x}) = Cardinality(s) - 1
    BY <2>2, <2>5, <2>7, FS_RemoveElement
  <2>13. Cardinality(s) \in Nat
    BY <2>2, <2>5
  <2> QED BY <2>4, <2>5, <2>11, <2>12, <2>13
<1> QED BY <1>1, <1>4, <1>9

\* ScanSummary: the figures of a format add up, for issues of known
\* severities of which none is only noted.
LEMMA FiguresAddUp ==
  ASSUME NEW list, IsList(list),
         \A i \in ToSet(list) : i.severity \in ToSet(Severities) \ {"INFO"},
         NEW endpoints, NEW number, NEW format
  PROVE  Summary(list, endpoints, number).total
           = SumFunctionOnSet(Summary(list, endpoints, number).count, ShownSeverities(format))
<1> DEFINE count == Summary(list, endpoints, number).count
<1>1. ShownSeverities(format) \in SUBSET ToSet(Severities)
      /\ ToSet(Severities) \ {"INFO"} \subseteq ShownSeverities(format)
  BY DEF ShownSeverities
<1>2. \A x \in ToSet(Severities) : count[x] = Count(list, x)
  BY DEF Summary
<1>3. IsFiniteSet(ToSet(Severities))
  <2>1. DOMAIN Severities = 1 .. 5 /\ IsFiniteSet(1 .. 5)
    <3>1. DOMAIN Severities = 1 .. 5
      BY DEF Severities
    <3>2. 1 \in Int /\ 5 \in Int
      OBVIOUS
    <3> QED BY <3>1, <3>2, FS_Interval
  <2>2. Severities \in Surjection(1 .. 5, ToSet(Severities))
    BY <2>1 DEF Surjection, ToSet, Severities
  <2> QED BY <2>1, <2>2, FS_Surjection
<1>4. IsFiniteSet(ShownSeverities(format))
  BY <1>1, <1>3, FS_Subset
<1> HIDE DEF count
<1>5. SumFunctionOnSet(count, ShownSeverities(format))
        = Cardinality(PositionsOf(list, ShownSeverities(format)))
  BY <1>1, <1>2, <1>4, CountsAddUp
<1>6. PositionsOf(list, ShownSeverities(format)) = 1 .. Len(list) /\ Len(list) \in Nat
  <2>1. \A i \in DOMAIN list : list[i].severity \in ShownSeverities(format)
    BY <1>1 DEF ToSet
  <2> QED BY <2>1, ListLength DEF PositionsOf
<1>7. Cardinality(1 .. Len(list)) = Len(list)
  BY <1>6, FS_Interval
<1>8. Summary(list, endpoints, number).total = Len(list)
  BY DEF Summary
<1> QED BY <1>5, <1>6, <1>7, <1>8 DEF count

-----------------------------------------------------------------------------
(* Responses that come in *)

\* What an appended list has.
LEMMA AppendElements ==
  ASSUME NEW s, NEW e, IsList(s)
  PROVE  /\ ToSet(Append(s, e)) = ToSet(s) \cup {e}
         /\ e \notin ToSet(s) /\ IsInjective(s) => IsInjective(Append(s, e))
<1>1. /\ Len(s) \in Nat /\ DOMAIN s = 1 .. Len(s)
      /\ DOMAIN Append(s, e) = 1 .. Len(s) + 1
      /\ Append(s, e)[Len(s) + 1] = e
      /\ \A n \in DOMAIN s : Append(s, e)[n] = s[n]
  BY AppendKeeps
<1>2. \A n \in DOMAIN Append(s, e) : n \in DOMAIN s \/ n = Len(s) + 1
  BY <1>1
<1>3. DOMAIN s \subseteq DOMAIN Append(s, e) /\ Len(s) + 1 \in DOMAIN Append(s, e)
  BY <1>1
<1>4. ToSet(Append(s, e)) = ToSet(s) \cup {e}
  BY <1>1, <1>2, <1>3 DEF ToSet
<1>5. ASSUME e \notin ToSet(s), IsInjective(s) PROVE IsInjective(Append(s, e))
  <2>1. \A n \in DOMAIN s : s[n] # e
    BY <1>5 DEF ToSet
  <2> QED BY <1>1, <1>2, <1>5, <2>1 DEF IsInjective
<1> QED BY <1>4, <1>5

\* A pair of earlier responses was a pair before the last one came in.
LEMMA PairsGrow ==
  ASSUME NEW s, NEW r, IsList(s), r \notin ToSet(s),
         NEW p \in PairSet(Append(s, r)), p[1] # r, p[2] # r
  PROVE  p \in PairSet(s)
<1> DEFINE t == Append(s, r)
<1>1. /\ Len(s) \in Nat /\ DOMAIN s = 1 .. Len(s)
      /\ DOMAIN t = 1 .. Len(s) + 1 /\ t[Len(s) + 1] = r
      /\ \A n \in DOMAIN s : t[n] = s[n]
  BY AppendKeeps
<1> HIDE DEF t
<1>2. PICK k \in References(t) \cap DOMAIN t, l \in DOMAIN t \ References(t) :
        /\ p = <<t[k], t[l]>>
        /\ t[k].user # t[l].user \/ t[k].role # t[l].role
  BY DEF PairSet, t
<1>3. k \in DOMAIN s /\ l \in DOMAIN s
  BY <1>1, <1>2
<1>4. DOMAIN s \subseteq DOMAIN t
  BY <1>1
<1>5. CASE \E i \in DOMAIN s : s[i].role = ReferenceRole
  <2>1. References(s) = {i \in DOMAIN s : s[i].role = ReferenceRole}
    BY <1>5 DEF References
  <2>2. References(t) = {i \in DOMAIN t : t[i].role = ReferenceRole}
    BY <1>1, <1>4, <1>5 DEF References
  <2>3. k \in References(s) /\ l \notin References(s)
    BY <1>1, <1>2, <1>3, <2>1, <2>2
  <2> QED BY <1>1, <1>2, <1>3, <2>3 DEF PairSet
<1>6. CASE ~\E i \in DOMAIN s : s[i].role = ReferenceRole
  <2>1. References(s) = {1}
    BY <1>6 DEF References
  <2>2. ~\E i \in DOMAIN t : t[i].role = ReferenceRole
    BY <1>1, <1>2, <1>3, <1>6 DEF References
  <2>3. References(t) = {1}
    BY <2>2 DEF References
  <2> QED BY <1>1, <1>2, <1>3, <2>1, <2>3 DEF PairSet
<1> QED BY <1>5, <1>6

\* OnResult: the response joins those of its endpoint, and no other pair of
\* earlier responses comes of it.
LEMMA ResultJoins ==
  ASSUME BufferFits, NEW r \in Responses, OnResult(r)
  PROVE  /\ BufferFits' /\ Buffered' = Buffered \cup {r}
         /\ \A i \in DOMAIN buffer' : \A p \in PairSet(buffer'[i].responses) :
              {p[1], p[2]} \subseteq Buffered =>
                i \in DOMAIN buffer /\ p \in PairSet(buffer[i].responses)
<1>0. \A i \in DOMAIN buffer : r \notin ToSet(buffer[i].responses)
  BY DEF OnResult, Buffered
<1>1. CASE \E i \in DOMAIN buffer : buffer[i].key = Key(r)
  <2> DEFINE joined(i) == IF buffer[i].key = Key(r)
                            THEN Append(buffer[i].responses, r) ELSE buffer[i].responses
  <2>1. /\ DOMAIN buffer' = DOMAIN buffer /\ IsList(buffer')
        /\ \A i \in DOMAIN buffer :
             buffer'[i] = [key |-> buffer[i].key, responses |-> joined(i)]
    <3>1. buffer' = [i \in DOMAIN buffer |->
                       IF buffer[i].key = Key(r)
                         THEN [buffer[i] EXCEPT !.responses = Append(@, r)]
                         ELSE buffer[i]]
      BY <1>1 DEF OnResult
    <3>2. Len(buffer) \in Nat /\ DOMAIN buffer = 1 .. Len(buffer)
      BY ListLength DEF BufferFits, Fits
    <3>3. IsList(buffer')
      BY <3>1, <3>2, FunctionIsList
    <3>4. ASSUME NEW i \in DOMAIN buffer
          PROVE  buffer'[i] = [key |-> buffer[i].key, responses |-> joined(i)]
      <4>1. buffer[i] = [key |-> buffer[i].key, responses |-> buffer[i].responses]
        BY DEF BufferFits, Fits
      <4> QED BY <3>1, <4>1
    <3> QED BY <3>1, <3>3, <3>4
  <2>2. ASSUME NEW i \in DOMAIN buffer
        PROVE  /\ IsList(joined(i)) /\ IsInjective(joined(i))
               /\ \A q \in ToSet(joined(i)) : q \in Responses /\ Key(q) = buffer[i].key
               /\ ToSet(joined(i)) = ToSet(buffer[i].responses)
                                       \cup (IF buffer[i].key = Key(r) THEN {r} ELSE {})
    <3>1. /\ IsList(buffer[i].responses) /\ IsInjective(buffer[i].responses)
          /\ \A q \in ToSet(buffer[i].responses) : q \in Responses /\ Key(q) = buffer[i].key
      BY DEF BufferFits, Fits
    <3>2. CASE buffer[i].key = Key(r)
      <4>1. /\ IsList(Append(buffer[i].responses, r))
            /\ IsInjective(Append(buffer[i].responses, r))
            /\ ToSet(Append(buffer[i].responses, r)) = ToSet(buffer[i].responses) \cup {r}
        BY <1>0, <3>1, AppendKeeps, AppendElements
      <4> QED BY <3>1, <3>2, <4>1
    <3> QED BY <3>1, <3>2
  <2>3. ASSUME NEW i \in DOMAIN buffer, NEW p \in PairSet(joined(i)),
               {p[1], p[2]} \subseteq Buffered
        PROVE  p \in PairSet(buffer[i].responses)
    <3>1. p[1] # r /\ p[2] # r
      BY <2>3 DEF OnResult
    <3> QED BY <1>0, <2>3, <3>1, PairsGrow DEF BufferFits, Fits
  <2> HIDE DEF joined
  <2>4. ASSUME NEW i \in DOMAIN buffer PROVE buffer'[i].responses = joined(i) /\ buffer'[i].key = buffer[i].key
    BY <2>1
  <2>5. BufferFits'
    BY <2>1, <2>2, <2>4 DEF BufferFits, Fits
  <2>6. Buffered' = UNION {ToSet(joined(i)) : i \in DOMAIN buffer}
    BY <2>1, <2>4 DEF Buffered
  <2>7. UNION {ToSet(joined(i)) : i \in DOMAIN buffer} = Buffered \cup {r}
    BY <1>1, <2>2 DEF Buffered
  <2>8. \A i \in DOMAIN buffer' : \A p \in PairSet(buffer'[i].responses) :
          {p[1], p[2]} \subseteq Buffered =>
            i \in DOMAIN buffer /\ p \in PairSet(buffer[i].responses)
    BY <2>1, <2>3, <2>4
  <2> QED BY <2>5, <2>6, <2>7, <2>8
<1>2. CASE ~\E i \in DOMAIN buffer : buffer[i].key = Key(r)
  <2> DEFINE new == [key |-> Key(r), responses |-> <<r>>]
  <2>1. buffer' = Append(buffer, new)
    BY <1>2 DEF OnResult
  <2>2. /\ IsList(<<r>>) /\ IsInjective(<<r>>) /\ ToSet(<<r>>) = {r}
        /\ new.key = Key(r) /\ new.responses = <<r>>
    BY DEF IsList, IsInjective, ToSet
  <2> HIDE DEF new
  <2>3. /\ IsList(buffer') /\ Len(buffer) \in Nat /\ DOMAIN buffer = 1 .. Len(buffer)
        /\ DOMAIN buffer' = 1 .. Len(buffer) + 1
        /\ buffer'[Len(buffer) + 1] = new
        /\ \A i \in DOMAIN buffer : buffer'[i] = buffer[i]
    BY <2>1, AppendKeeps DEF BufferFits, Fits
  <2>4. /\ Len(buffer) + 1 \in DOMAIN buffer' /\ DOMAIN buffer \subseteq DOMAIN buffer'
        /\ \A i \in DOMAIN buffer' : i \in DOMAIN buffer \/ i = Len(buffer) + 1
    BY <2>3
  <2>5. BufferFits'
    <3>1. ASSUME NEW i \in DOMAIN buffer'
          PROVE  /\ buffer'[i] = [key |-> buffer'[i].key, responses |-> buffer'[i].responses]
                 /\ IsList(buffer'[i].responses) /\ IsInjective(buffer'[i].responses)
                 /\ \A q \in ToSet(buffer'[i].responses) :
                      q \in Responses /\ Key(q) = buffer'[i].key
      <4>1. CASE i \in DOMAIN buffer
        BY <2>3, <4>1 DEF BufferFits, Fits
      <4>2. CASE i = Len(buffer) + 1
        BY <2>2, <2>3, <4>2 DEF new
      <4> QED BY <2>4, <4>1, <4>2
    <3>2. ASSUME NEW i \in DOMAIN buffer', NEW j \in DOMAIN buffer',
                 buffer'[i].key = buffer'[j].key
          PROVE  i = j
      <4>1. \A k \in DOMAIN buffer : buffer'[k].key # Key(r)
        BY <1>2, <2>3
      <4>2. CASE i \in DOMAIN buffer /\ j \in DOMAIN buffer
        BY <2>3, <3>2, <4>2 DEF BufferFits, Fits
      <4> QED BY <2>2, <2>3, <2>4, <3>2, <4>1, <4>2
    <3> QED BY <2>3, <3>1, <3>2 DEF BufferFits, Fits
  <2>6. Buffered' = Buffered \cup {r}
    BY <2>2, <2>3, <2>4 DEF Buffered
  <2>7. ASSUME NEW i \in DOMAIN buffer', NEW p \in PairSet(buffer'[i].responses),
               {p[1], p[2]} \subseteq Buffered
        PROVE  i \in DOMAIN buffer /\ p \in PairSet(buffer[i].responses)
    <3>1. i # Len(buffer) + 1
      <4>1. p[1] \in ToSet(buffer'[i].responses)
        BY PairSetMembers
      <4> QED BY <2>2, <2>3, <2>7, <4>1 DEF OnResult
    <3> QED BY <2>3, <2>4, <3>1
  <2> QED BY <2>5, <2>6, <2>7
<1> QED BY <1>1, <1>2

-----------------------------------------------------------------------------
(* Steps *)

\* What every list holds is a list, and a closed collector has reported.
ListsFit ==
  /\ BufferFits /\ ReportsApart /\ IsList(diffs) /\ IsList(told)
  /\ \A n \in DOMAIN lists : IsList(lists[n])
  /\ open \/ reports # <<>>

\* The issues at hand have severities that every format shows.
Graded == \A i \in ToSet(lists[issues]) : i.severity \in ToSet(Severities) \ {"INFO"}

\* The kinds of steps: the buffer is compared, a report is handed out.
Compares ==
  diffs' = diffs \o NewDiffs /\ told' = told \o Found /\ lists'[issues'] = Found

KeepsIssues ==
  /\ UNCHANGED <<diffs, told, issues>>
  /\ lists'[issues'] = lists[issues] /\ lists[issues] # <<>>

Hands ==
  /\ ~open'
  /\ \E number : \E requested : \E n :
       /\ reports' = Append(reports, [list |-> n,
            summary |-> Summary(lists'[issues'], number, requested)])
       /\ lists'[n] = SortedIssues(lists'[issues'])

\* Every issue that is found has a severity above INFO.
LEMMA FoundGraded ==
  ASSUME BufferFits
  PROVE  \A i \in ToSet(Found) : i.severity \in ToSet(Severities) \ {"INFO"}
BY FoundElements, IssueSeverities

\* A report gets a sorted copy of the issues and the figures of that copy.
LEMMA ReportHands ==
  ASSUME NEW list, NEW held, IsList(held), list \in DOMAIN held, Report(list, held),
         \A n \in DOMAIN held : IsList(held[n]),
         \A i \in ToSet(held[list]) : i.severity \in ToSet(Severities) \ {"INFO"}
  PROVE  /\ lists'[list] = held[list]
         /\ \E n : /\ reports' = Append(reports, [list |-> n,
                        summary |-> Summary(held[list], Len(buffer), requests)])
                   /\ lists'[n] = SortedIssues(held[list])
         /\ \A n \in DOMAIN lists' : IsList(lists'[n])
<1> DEFINE sorted == SortedIssues(held[list])
           n == Len(lists')
<1>1. /\ lists' = Append(held, sorted)
      /\ reports' = Append(reports, [list |-> n,
                        summary |-> Summary(held[list], Len(buffer), requests)])
  BY DEF Report
<1>2. IsList(sorted)
  BY SortedElements
<1> HIDE DEF sorted
<1>3. /\ Len(held) \in Nat /\ DOMAIN held = 1 .. Len(held)
      /\ n = Len(held) + 1 /\ lists'[n] = sorted
      /\ DOMAIN lists' = 1 .. Len(held) + 1
      /\ \A k \in DOMAIN held : lists'[k] = held[k]
  BY <1>1, AppendKeeps
<1> HIDE DEF n
<1>4. \A k \in DOMAIN lists' : k \in DOMAIN held \/ k = n
  BY <1>3
<1> QED BY <1>1, <1>2, <1>3, <1>4 DEF sorted

\* What a step may be, as far as the invariant goes.
LEMMA StepKinds ==
  ASSUME ListsFit, Graded, [Next]_collectorVars
  PROVE  /\ \A n \in DOMAIN lists' : IsList(lists'[n])
         /\ \/ UNCHANGED collectorVars
            \/ \E r \in Responses : OnResult(r)
            \/ /\ open /\ open' /\ Compares
               /\ UNCHANGED <<buffer, reports>> /\ returned' # {}
            \/ /\ open /\ Hands /\ UNCHANGED <<buffer, returned>>
               /\ Compares \/ KeepsIssues
            \/ /\ open' /\ buffer' = <<>> /\ diffs' = <<>> /\ lists'[issues'] = <<>>
               /\ UNCHANGED <<reports, told, returned>>
<1> DEFINE fit == \A n \in DOMAIN lists' : IsList(lists'[n])
<1>0. /\ IsList(lists) /\ issues \in DOMAIN lists
      /\ \A n \in DOMAIN lists : IsList(lists[n])
  BY DEF ListsFit, ReportsApart
<1>1. CASE UNCHANGED collectorVars
  BY <1>0, <1>1 DEF collectorVars
<1>2. ASSUME NEW r \in Responses, OnResult(r) PROVE fit
  BY <1>0, <1>2 DEF OnResult
<1> DEFINE found == Found
           held == Append(lists, found)
<1>3. /\ IsList(held) /\ Len(lists) + 1 \in DOMAIN held /\ held[Len(lists) + 1] = found
      /\ \A n \in DOMAIN held : IsList(held[n])
  <2>1. IsList(found)
    BY FoundElements DEF ListsFit
  <2> HIDE DEF found
  <2>2. /\ IsList(held) /\ Len(lists) \in Nat /\ DOMAIN lists = 1 .. Len(lists)
        /\ DOMAIN held = 1 .. Len(lists) + 1 /\ held[Len(lists) + 1] = found
        /\ \A n \in DOMAIN lists : held[n] = lists[n]
    BY <1>0, AppendKeeps
  <2> HIDE DEF held
  <2>3. Len(lists) + 1 \in DOMAIN held
        /\ \A n \in DOMAIN held : n \in DOMAIN lists \/ n = Len(lists) + 1
    BY <2>2
  <2> QED BY <1>0, <2>1, <2>2, <2>3
<1>4. CASE Process
  <2>1. /\ lists' = held /\ issues' = Len(lists) + 1 /\ open /\ open' = open
        /\ diffs' = diffs \o NewDiffs /\ told' = told \o found
        /\ UNCHANGED <<buffer, reports>> /\ issues' \in returned'
    BY <1>4 DEF Process, ProcessBuffered
  <2> HIDE DEF held
  <2> QED BY <1>3, <2>1 DEF Compares
<1>5. CASE Flush
  <2>1. open /\ ~open' /\ UNCHANGED <<buffer, returned>>
    BY <1>5 DEF Flush
  <2>2. CASE ProcessBuffered /\ Report(issues', held)
    <3>1. /\ issues' = Len(lists) + 1 /\ diffs' = diffs \o NewDiffs
          /\ told' = told \o found
      BY <2>2 DEF ProcessBuffered
    <3>2. held[issues'] = found
      BY <1>3, <3>1
    <3>3. \A i \in ToSet(found) : i.severity \in ToSet(Severities) \ {"INFO"}
      BY FoundGraded DEF ListsFit
    <3> HIDE DEF held, found
    <3>4. /\ lists'[issues'] = held[issues']
          /\ \E n : /\ reports' = Append(reports, [list |-> n,
                         summary |-> Summary(held[issues'], Len(buffer), requests)])
                    /\ lists'[n] = SortedIssues(held[issues'])
          /\ fit
      BY <1>3, <2>2, <3>1, <3>2, <3>3, ReportHands
    <3>5. Hands
      BY <2>1, <3>4 DEF Hands
    <3>6. Compares
      BY <3>1, <3>2, <3>4 DEF Compares, found
    <3> QED BY <2>1, <3>4, <3>5, <3>6
  <2>3. CASE lists[issues] # <<>> /\ UNCHANGED <<diffs, issues, told>> /\ Report(issues, lists)
    <3>1. /\ lists'[issues] = lists[issues]
          /\ \E n : /\ reports' = Append(reports, [list |-> n,
                         summary |-> Summary(lists[issues], Len(buffer), requests)])
                    /\ lists'[n] = SortedIssues(lists[issues])
          /\ fit
      BY <1>0, <2>3, ReportHands DEF Graded
    <3>2. Hands
      BY <2>1, <2>3, <3>1 DEF Hands
    <3>3. KeepsIssues
      BY <2>3, <3>1 DEF KeepsIssues
    <3> QED BY <2>1, <3>1, <3>2, <3>3
  <2> QED BY <1>5, <2>2, <2>3 DEF Flush
<1>6. CASE Reset
  <2>1. /\ lists' = [lists EXCEPT ![issues] = <<>>] /\ issues' = issues /\ open'
        /\ buffer' = <<>> /\ diffs' = <<>> /\ UNCHANGED <<reports, told, returned>>
    BY <1>6 DEF Reset
  <2>2. IsList(<<>>)
    BY DEF IsList
  <2> QED BY <1>0, <2>1, <2>2
<1> QED BY <1>1, <1>2, <1>4, <1>5, <1>6 DEF Next

\* The lists fit and the issues at hand are graded, after every step.
LEMMA StepListsFit ==
  ASSUME ListsFit, Graded, [Next]_collectorVars
  PROVE  ListsFit' /\ Graded'
<1>1. ReportsApart' /\ (\A n \in DOMAIN lists' : IsList(lists'[n]))
  BY ReportsKept, StepKinds DEF ListsFit
<1>2. ASSUME Compares, UNCHANGED buffer
      PROVE  BufferFits' /\ IsList(diffs') /\ IsList(told') /\ Graded'
  <2>1. IsList(diffs') /\ IsList(told')
    <3>1. IsList(diffs) /\ IsList(told) /\ IsList(NewDiffs) /\ IsList(Found)
      BY NewDiffsElements, FoundElements DEF ListsFit
    <3>2. IsList(diffs \o NewDiffs) /\ IsList(told \o Found)
      BY <3>1, Concatenated
    <3> QED BY <1>2, <3>2 DEF Compares
  <2>2. BufferFits'
    BY <1>2 DEF ListsFit, BufferFits, Fits, Key
  <2>3. Graded'
    BY <1>2, FoundGraded DEF Compares, Graded, ListsFit
  <2> QED BY <2>1, <2>2, <2>3
<1>3. CASE UNCHANGED collectorVars
  BY <1>1, <1>3 DEF collectorVars, ListsFit, Graded, BufferFits, Fits, Key
<1>4. ASSUME NEW r \in Responses, OnResult(r) PROVE ListsFit' /\ Graded'
  <2>1. BufferFits'
    BY <1>4, ResultJoins DEF ListsFit
  <2>2. UNCHANGED <<diffs, lists, issues, reports, returned, told, open>>
    BY <1>4 DEF OnResult
  <2> QED BY <1>1, <2>1, <2>2 DEF ListsFit, Graded
<1>5. CASE open /\ open' /\ Compares /\ UNCHANGED <<buffer, reports>>
  BY <1>1, <1>2, <1>5 DEF ListsFit
<1>6. CASE open /\ Hands /\ UNCHANGED <<buffer, returned>> /\ (Compares \/ KeepsIssues)
  <2>1. reports' # <<>>
    <3>1. PICK e : reports' = Append(reports, e)
      BY <1>6 DEF Hands
    <3>2. IsList(reports)
      BY DEF ListsFit, ReportsApart
    <3>3. Len(reports) \in Nat /\ DOMAIN Append(reports, e) = 1 .. Len(reports) + 1
      BY <3>2, AppendKeeps
    <3>4. 1 \in DOMAIN reports' /\ DOMAIN <<>> = {}
      BY <3>1, <3>3
    <3> QED BY <3>4
  <2>2. CASE Compares
    BY <1>1, <1>2, <1>6, <2>1, <2>2 DEF ListsFit
  <2>3. CASE KeepsIssues
    <3>1. BufferFits' /\ Graded'
      BY <1>6, <2>3 DEF ListsFit, BufferFits, Fits, Key, Graded, KeepsIssues
    <3> QED BY <1>1, <2>1, <2>3, <3>1 DEF ListsFit, KeepsIssues
  <2> QED BY <1>6, <2>2, <2>3
<1>7. CASE /\ open' /\ buffer' = <<>> /\ diffs' = <<>> /\ lists'[issues'] = <<>>
           /\ UNCHANGED <<reports, told, returned>>
  <2>1. IsList(<<>>) /\ DOMAIN <<>> = {} /\ ToSet(<<>>) = {}
    BY DEF IsList, ToSet
  <2> QED BY <1>1, <1>7, <2>1 DEF ListsFit, BufferFits, Fits, Graded
<1> QED BY <1>3, <1>4, <1>5, <1>6, <1>7, StepKinds

-----------------------------------------------------------------------------
(* The invariants *)

\* What is at hand belongs to the scan at hand, and the callback knows of it.
Current ==
  /\ \A d \in ToSet(diffs) : {d.a, d.b} \subseteq Buffered
  /\ \A i \in ToSet(lists[issues]) : {i.diff.a, i.diff.b} \subseteq Buffered
  /\ ToSet(lists[issues]) \subseteq ToSet(told)

\* Of what was compared and would be compared again, no issue is missing.
NoneMissing ==
  \A d \in ToSet(diffs) \cap ToSet(NewDiffs) : IssueSet(d) \subseteq ToSet(lists[issues])

\* A closed collector has reported the issues at hand.
ReportedAtHand == ~open => lists[LastReport.list] = SortedIssues(lists[issues])

\* Before the client processes, there are issues in a closed collector only,
\* those of its buffer.
FoundByFlush == returned = {} => lists[issues] = IF open THEN <<>> ELSE Found

\* The inductive invariant.
CInv == ListsFit /\ Graded /\ Current /\ NoneMissing /\ ReportedAtHand /\ FoundByFlush

\* The initial state satisfies the invariant.
LEMMA InitCInv == Init => CInv
<1> SUFFICES ASSUME Init PROVE CInv
  OBVIOUS
<1>1. /\ buffer = <<>> /\ diffs = <<>> /\ told = <<>> /\ reports = <<>>
      /\ lists = <<<<>>>> /\ issues = 1 /\ open
  BY DEF Init
<1>2. /\ IsList(<<>>) /\ DOMAIN <<>> = {} /\ ToSet(<<>>) = {}
  BY DEF IsList, ToSet
<1>3. lists \in Seq({<<>>}) /\ DOMAIN lists = {1} /\ lists[issues] = <<>>
  BY <1>1
<1>4. ReportsApart
  BY <1>1, <1>2, <1>3 DEF ReportsApart, IsList
<1>5. ListsFit
  BY <1>1, <1>2, <1>3, <1>4 DEF ListsFit, BufferFits, Fits
<1> QED BY <1>1, <1>2, <1>3, <1>5
        DEF CInv, Graded, Current, NoneMissing, ReportedAtHand, FoundByFlush

\* What is compared and found is about responses in the buffer.
LEMMA NewDiffsBuffered ==
  ASSUME BufferFits
  PROVE  /\ \A d \in ToSet(NewDiffs) : {d.a, d.b} \subseteq Buffered
         /\ \A i \in ToSet(Found) : i.diff \in ToSet(NewDiffs)
<1>1. ASSUME NEW d \in ToSet(NewDiffs) PROVE {d.a, d.b} \subseteq Buffered
  <2>1. PICK p \in ToSet(Pairs(buffer)) : d = Comparison(p)
    BY NewDiffsElements
  <2>2. PICK i \in DOMAIN buffer : p \in PairSet(buffer[i].responses)
    BY <2>1, PairsElements DEF BufferFits
  <2>3. p[1] \in ToSet(buffer[i].responses) /\ p[2] \in ToSet(buffer[i].responses)
    BY <2>2, PairSetMembers
  <2>4. d.a = p[1] /\ d.b = p[2]
    BY <2>1, ComparisonOf
  <2> QED BY <2>3, <2>4 DEF Buffered
<1>2. ASSUME NEW i \in ToSet(Found) PROVE i.diff \in ToSet(NewDiffs)
  <2>1. PICK d \in ToSet(NewDiffs) : i \in IssueSet(d)
    BY FoundElements
  <2> QED BY <2>1 DEF IssueSet, Issue
<1> QED BY <1>1, <1>2

\* Every step keeps diffs and issues those of responses in the buffer.
LEMMA StepCurrent ==
  ASSUME CInv, [Next]_collectorVars
  PROVE  Current'
<1>0. ListsFit /\ Graded /\ Current /\ BufferFits
  BY DEF CInv, ListsFit
<1>1. CASE UNCHANGED collectorVars
  BY <1>0, <1>1 DEF collectorVars, Current, Buffered
<1>2. ASSUME NEW r \in Responses, OnResult(r) PROVE Current'
  <2>1. Buffered \subseteq Buffered'
    BY <1>0, <1>2, ResultJoins
  <2>2. UNCHANGED <<diffs, lists, issues, told>>
    BY <1>2 DEF OnResult
  <2> QED BY <1>0, <2>1, <2>2 DEF Current
<1>3. ASSUME Compares, UNCHANGED buffer PROVE Current'
  <2>1. IsList(diffs) /\ IsList(told) /\ IsList(NewDiffs) /\ IsList(Found)
    BY <1>0, NewDiffsElements, FoundElements DEF ListsFit
  <2>2. /\ ToSet(diffs \o NewDiffs) = ToSet(diffs) \cup ToSet(NewDiffs)
        /\ ToSet(told \o Found) = ToSet(told) \cup ToSet(Found)
    BY <2>1, Concatenated
  <2>3. Buffered' = Buffered
    BY <1>3 DEF Buffered
  <2>4. \A i \in ToSet(Found) : {i.diff.a, i.diff.b} \subseteq Buffered
    BY <1>0, NewDiffsBuffered
  <2>5. \A d \in ToSet(diffs') : {d.a, d.b} \subseteq Buffered
    BY <1>0, <1>3, <2>2, NewDiffsBuffered DEF Compares, Current
  <2> QED BY <1>3, <2>2, <2>3, <2>4, <2>5 DEF Compares, Current
<1>4. CASE UNCHANGED buffer /\ KeepsIssues
  BY <1>0, <1>4 DEF KeepsIssues, Current, Buffered
<1>5. CASE diffs' = <<>> /\ lists'[issues'] = <<>>
  BY <1>5 DEF Current, ToSet
<1> QED BY <1>0, <1>1, <1>2, <1>3, <1>4, <1>5, StepKinds

\* Every step keeps the issues of what was compared.
LEMMA StepNoneMissing ==
  ASSUME CInv, [Next]_collectorVars
  PROVE  NoneMissing'
<1>0. ListsFit /\ Graded /\ Current /\ BufferFits /\ NoneMissing
  BY DEF CInv, ListsFit
<1>1. CASE UNCHANGED collectorVars
  <2>1. UNCHANGED <<diffs, lists, issues, NewDiffs>>
    BY <1>1 DEF collectorVars, NewDiffs
  <2> QED BY <1>0, <2>1 DEF NoneMissing
<1>2. ASSUME NEW r \in Responses, OnResult(r) PROVE NoneMissing'
  <2>1. UNCHANGED <<diffs, lists, issues>>
    BY <1>2 DEF OnResult
  <2>2. ASSUME NEW d \in ToSet(diffs), d \in ToSet(NewDiffs')
        PROVE  d \in ToSet(NewDiffs)
    <3>1. Fits(buffer) /\ Fits(buffer')
      BY <1>0, <1>2, ResultJoins DEF BufferFits
    <3>2. NewDiffs' = Compared(Pairs(buffer')) /\ NewDiffs = Compared(Pairs(buffer))
      BY DEF NewDiffs
    <3>3. PICK p \in ToSet(Pairs(buffer')) : d = Comparison(p)
      BY <2>2, <3>1, <3>2, ComparedElements
    <3>4. PICK i \in DOMAIN buffer' : p \in PairSet(buffer'[i].responses)
      BY <3>1, <3>3, PairsElements
    <3>5. {p[1], p[2]} \subseteq Buffered
      BY <1>0, <3>3, ComparisonOf DEF Current
    <3>6. i \in DOMAIN buffer /\ p \in PairSet(buffer[i].responses)
      BY <1>0, <1>2, <3>4, <3>5, ResultJoins
    <3>7. p \in ToSet(Pairs(buffer))
      BY <3>1, <3>6, PairsElements
    <3> QED BY <3>1, <3>2, <3>3, <3>7, ComparedElements
  <2> QED BY <1>0, <2>1, <2>2 DEF NoneMissing
<1>3. ASSUME Compares, UNCHANGED buffer PROVE NoneMissing'
  <2>1. NewDiffs' = NewDiffs
    BY <1>3 DEF NewDiffs
  <2>2. \A d \in ToSet(NewDiffs) : IssueSet(d) \subseteq ToSet(Found)
    BY <1>0, FoundElements
  <2> QED BY <1>3, <2>1, <2>2 DEF Compares, NoneMissing
<1>4. CASE UNCHANGED buffer /\ KeepsIssues
  <2>1. NewDiffs' = NewDiffs
    BY <1>4 DEF NewDiffs
  <2> QED BY <1>0, <1>4, <2>1 DEF KeepsIssues, NoneMissing
<1>5. CASE diffs' = <<>>
  BY <1>5 DEF NoneMissing, ToSet
<1> QED BY <1>0, <1>1, <1>2, <1>3, <1>4, <1>5, StepKinds

\* Every step keeps what the last report has.
LEMMA StepReported ==
  ASSUME CInv, [Next]_collectorVars
  PROVE  ReportedAtHand' /\ FoundByFlush'
<1>0. ListsFit /\ Graded /\ ReportedAtHand /\ FoundByFlush
  BY DEF CInv
<1>1. CASE UNCHANGED collectorVars
  <2>1. Found' = Found /\ LastReport' = LastReport
    BY <1>1 DEF collectorVars, Found, NewDiffs, LastReport
  <2> QED BY <1>0, <1>1, <2>1 DEF collectorVars, ReportedAtHand, FoundByFlush
<1>2. ASSUME NEW r \in Responses, OnResult(r) PROVE ReportedAtHand' /\ FoundByFlush'
  BY <1>0, <1>2 DEF OnResult, ReportedAtHand, FoundByFlush
<1>3. CASE open' /\ returned' # {}
  BY <1>3 DEF ReportedAtHand, FoundByFlush
<1>4. CASE /\ open /\ Hands /\ UNCHANGED <<buffer, returned>>
           /\ Compares \/ KeepsIssues
  <2>1. PICK n, sum : /\ reports' = Append(reports, [list |-> n, summary |-> sum])
                      /\ lists'[n] = SortedIssues(lists'[issues'])
    BY <1>4 DEF Hands
  <2>2. LastReport'.list = n
    <3>1. IsList(reports)
      BY <1>0 DEF ListsFit, ReportsApart
    <3> DEFINE e == [list |-> n, summary |-> sum]
    <3>2. e.list = n
      OBVIOUS
    <3> HIDE DEF e
    <3>3. reports' = Append(reports, e)
      BY <2>1 DEF e
    <3>4. Len(reports') = Len(reports) + 1 /\ reports'[Len(reports) + 1] = e
      BY <3>1, <3>3, AppendKeeps
    <3> QED BY <3>2, <3>4 DEF LastReport
  <2>3. Found' = Found
    BY <1>4 DEF Found, NewDiffs
  <2>4. FoundByFlush'
    <3>1. CASE KeepsIssues
      BY <1>0, <1>4, <3>1 DEF FoundByFlush, KeepsIssues
    <3>2. CASE Compares
      BY <1>4, <2>3, <3>2 DEF FoundByFlush, Compares, Hands
    <3> QED BY <1>4, <3>1, <3>2
  <2> QED BY <2>1, <2>2, <2>4 DEF ReportedAtHand
<1>5. CASE open' /\ lists'[issues'] = <<>>
  BY <1>5 DEF ReportedAtHand, FoundByFlush
<1> QED BY <1>0, <1>1, <1>2, <1>3, <1>4, <1>5, StepKinds

\* The invariant is inductive.
LEMMA StepCInv == CInv /\ [Next]_collectorVars => CInv'
BY StepListsFit, StepCurrent, StepNoneMissing, StepReported DEF CInv

\* It always holds.
LEMMA AlwaysCInv == Spec => []CInv
<1>1. Init => CInv
  BY InitCInv
<1>2. CInv /\ [Next]_collectorVars => CInv'
  BY StepCInv
<1> QED BY <1>1, <1>2, PTL DEF Spec

-----------------------------------------------------------------------------
(* The theorems *)

\* NothingStale (process_buffered reads the buffer, reset clears it with all
\* that was made of it): nothing of an earlier scan is at hand in a later one.
THEOREM NothingIsStale == Spec => []NothingStale
<1>1. CInv => NothingStale
  BY DEF CInv, Current, NothingStale, ToSet
<1> QED BY <1>1, AlwaysCInv, PTL

\* After a flush the last report has the issues at hand, sorted.
LEMMA ReportedIssues ==
  ASSUME CInv, Closed
  PROVE  /\ lists[LastReport.list] = SortedIssues(lists[issues])
         /\ Reported = ToSet(lists[issues])
         /\ IsInjective(lists[issues]) => IsInjective(lists[LastReport.list])
<1>1. IsList(lists[issues])
  BY DEF CInv, ListsFit, ReportsApart
<1>2. \A i \in ToSet(lists[issues]) : i.severity \in ToSet(Severities)
  BY DEF CInv, Graded
<1>3. lists[LastReport.list] = SortedIssues(lists[issues])
  BY DEF CInv, Closed, ReportedAtHand
<1> DEFINE list == lists[issues]
<1> HIDE DEF list
<1>4. /\ ToSet(SortedIssues(list)) = ToSet(list)
      /\ IsInjective(list) => IsInjective(SortedIssues(list))
  BY <1>1, <1>2, SortedElements DEF list
<1> QED BY <1>3, <1>4 DEF list, Reported

\* EveryReportedIssueTold (process_buffered calls on_issue_found as it appends
\* to the issues it then keeps): the callback has heard of all of a report.
THEOREM EveryIssueTold == Spec => []EveryReportedIssueTold
<1>1. CInv => EveryReportedIssueTold
  BY ReportedIssues DEF CInv, Current, EveryReportedIssueTold
<1> QED BY <1>1, AlwaysCInv, PTL

\* A threshold that is not below the one of the BOLA checker.
HighThreshold == Threshold \in Nat /\ Threshold >= 65000

\* Whatever makes a pair an anomaly triggers a checker.
LEMMA AnomalyTriggers ==
  ASSUME HighThreshold, NEW a \in Responses, NEW b \in Responses,
         IsAnomaly(CompareResponses(a, b, Threshold)),
         ~(a.tenant # None /\ a.tenant = b.tenant)
  PROVE  \E t \in IssueTypes : Triggers(t, CompareResponses(a, b, Threshold))
<1> DEFINE d == CompareResponses(a, b, Threshold)
           sim == BodySimilarity(a.text, b.text)
<1>1. /\ d.a = a /\ d.b = b /\ d.foreign = ForeignIds(a, b)
      /\ d.similarity = Rounded(sim) /\ d.reason = Reason(a, b, Threshold)
  BY DEF CompareResponses
<1>2. d.reason # "none"
  BY DEF IsAnomaly
<1>3. sim \in 0 .. Whole
  <2>1. a.text \in Texts \cup {None} /\ b.text \in Texts \cup {None}
    BY ResponsesAssumption
  <2>2. a.text # None /\ b.text # None => Similarity[a.text, b.text] \in 0 .. Whole
    BY <2>1, SimilarityAssumption
  <2>3. Whole \in 0 .. Whole /\ 0 \in 0 .. Whole
    BY DEF Whole
  <2>4. sim \in {Whole, 0} \/ (a.text # None /\ b.text # None /\ sim = Similarity[a.text, b.text])
    BY DEF BodySimilarity
  <2> HIDE DEF sim
  <2> QED BY <2>2, <2>3, <2>4
<1> HIDE DEF d, sim
<1>4. ~SameUser(a, b)
  BY <1>1, <1>2 DEF Reason
<1>5. CASE BothOk(a, b) /\ sim >= Threshold
  <2>1. Rounded(sim) >= 65000
    BY <1>3, <1>5 DEF HighThreshold, Rounded, Whole
  <2>2. Triggers("BOLA", d)
    BY <1>1, <1>4, <1>5, <2>1 DEF Triggers
  <2> QED BY <2>2 DEF IssueTypes, d
<1>6. CASE ForeignIds(a, b) # {}
  <2>1. Triggers("TENANT_LEAK", d)
    BY <1>1, <1>6 DEF Triggers
  <2> QED BY <2>1 DEF IssueTypes, d
<1>7. CASE Refused(a) /\ b.status = 200
  <2>1. Triggers("BFLA", d)
    BY <1>1, <1>7 DEF Triggers, IsBfla
  <2> QED BY <2>1 DEF IssueTypes, d
<1> QED BY <1>1, <1>2, <1>4, <1>5, <1>6, <1>7 DEF Reason, sim

\* EveryAnomalyReported (compare_responses decides what is an anomaly, six
\* checkers decide what is an issue): whatever is compared, with a threshold
\* from 0.65 up no anomaly of different tenants falls between the two.
THEOREM NoAnomalyLost == HighThreshold /\ Spec => []EveryAnomalyReported
<1>1. ASSUME HighThreshold, CInv PROVE EveryAnomalyReported
  <2> SUFFICES ASSUME Closed, NEW d \in ToSet(diffs) \cap ToSet(NewDiffs), IsAnomaly(d),
                      ~(d.a.tenant # None /\ d.a.tenant = d.b.tenant)
               PROVE  \E i \in Reported : i.diff = d
    BY DEF EveryAnomalyReported
  <2>1. BufferFits /\ Fits(buffer)
    BY <1>1 DEF CInv, ListsFit, BufferFits
  <2>2. PICK p \in ToSet(Pairs(buffer)) : d = CompareResponses(p[1], p[2], Threshold)
    BY <2>1, NewDiffsElements DEF Comparison
  <2>3. p[1] \in Responses /\ p[2] \in Responses
    <3>1. PICK i \in DOMAIN buffer : p \in PairSet(buffer[i].responses)
      BY <2>1, <2>2, PairsElements
    <3>2. p[1] \in ToSet(buffer[i].responses) /\ p[2] \in ToSet(buffer[i].responses)
      BY <3>1, PairSetMembers
    <3> QED BY <2>1, <3>2 DEF Fits
  <2>4. d.a = p[1] /\ d.b = p[2]
    BY <2>2 DEF CompareResponses
  <2>5. PICK t \in IssueTypes : Triggers(t, d)
    BY <1>1, <2>2, <2>3, <2>4, AnomalyTriggers
  <2>6. Issue(t, d) \in ToSet(lists[issues])
    BY <1>1, <2>5 DEF IssueSet, CInv, NoneMissing
  <2>7. Issue(t, d) \in Reported /\ Issue(t, d).diff = d
    BY <1>1, <2>6, ReportedIssues DEF Issue
  <2> QED BY <2>7
<1>2. HighThreshold /\ CInv => EveryAnomalyReported
  BY <1>1
<1>3. HighThreshold => HighThreshold'
  OBVIOUS
<1> QED BY <1>2, <1>3, AlwaysCInv, PTL DEF Spec

\* EveryFormatAddsUp (the summary counts the issues of each severity, and two
\* of the formats leave out one severity): no checker gives that one.
THEOREM FormatsAddUp == Spec => []EveryFormatAddsUp
<1>1. Init => EveryFormatAddsUp
  BY DEF Init, EveryFormatAddsUp
<1>2. ASSUME CInv, EveryFormatAddsUp, [Next]_collectorVars PROVE EveryFormatAddsUp'
  <2>0. ListsFit /\ Graded
    BY <1>2 DEF CInv
  <2>1. CASE UNCHANGED reports
    BY <1>2, <2>1 DEF EveryFormatAddsUp
  <2>2. CASE Hands
    <3>1. PICK number, requested, n :
            reports' = Append(reports, [list |-> n,
              summary |-> Summary(lists'[issues'], number, requested)])
      BY <2>2 DEF Hands
    <3> DEFINE sum == Summary(lists'[issues'], number, requested)
               e == [list |-> n, summary |-> sum]
    <3>2. \A format \in Formats :
            sum.total = SumFunctionOnSet(sum.count, ShownSeverities(format))
      <4> DEFINE list == lists'[issues']
      <4>1. ListsFit' /\ Graded'
        BY <1>2, <2>0, StepListsFit
      <4>2. IsList(list) /\ \A i \in ToSet(list) : i.severity \in ToSet(Severities) \ {"INFO"}
        BY <4>1 DEF ListsFit, ReportsApart, Graded
      <4> HIDE DEF list
      <4>3. \A format : Summary(list, number, requested).total
                 = SumFunctionOnSet(Summary(list, number, requested).count,
                                    ShownSeverities(format))
        BY <4>2, FiguresAddUp
      <4> QED BY <4>3 DEF list
    <3>3. e.summary = sum
      OBVIOUS
    <3> HIDE DEF sum, e
    <3>4. IsList(reports) /\ reports' = Append(reports, e)
      BY <2>0, <3>1 DEF ListsFit, ReportsApart, e, sum
    <3>5. /\ Len(reports) \in Nat /\ DOMAIN reports = 1 .. Len(reports)
          /\ DOMAIN reports' = 1 .. Len(reports) + 1
          /\ reports'[Len(reports) + 1] = e
          /\ \A k \in DOMAIN reports : reports'[k] = reports[k]
      BY <3>4, AppendKeeps
    <3>6. \A k \in DOMAIN reports' : k \in DOMAIN reports \/ k = Len(reports) + 1
      BY <3>5
    <3>7. ASSUME NEW k \in DOMAIN reports', NEW format \in Formats
          PROVE  reports'[k].summary.total
                   = SumFunctionOnSet(reports'[k].summary.count, ShownSeverities(format))
      <4>1. CASE k \in DOMAIN reports
        BY <1>2, <3>5, <4>1 DEF EveryFormatAddsUp
      <4>2. CASE k = Len(reports) + 1
        BY <3>2, <3>3, <3>5, <4>2
      <4> QED BY <3>6, <4>1, <4>2
    <3> QED BY <3>7 DEF EveryFormatAddsUp
  <2>3. \A r \in Responses : OnResult(r) => UNCHANGED reports
    BY DEF OnResult
  <2>4. UNCHANGED collectorVars => UNCHANGED reports
    BY DEF collectorVars
  <2> QED BY <1>2, <2>0, <2>1, <2>2, <2>3, <2>4, StepKinds
<1>3. CInv /\ EveryFormatAddsUp /\ [Next]_collectorVars => EveryFormatAddsUp'
  BY <1>2
<1> QED BY <1>1, <1>3, AlwaysCInv, PTL DEF Spec

\* Every reference of an endpoint is paired with every other response of it.
LEMMA ReferencePairs ==
  ASSUME BufferFits, NEW p, NEW x \in Buffered, NEW y \in Buffered, p = <<x, y>>,
         \E r \in Buffered : r.role = ReferenceRole /\ Key(r) = Key(x)
  PROVE  p \in ToSet(Pairs(buffer)) <=>
           x.role = ReferenceRole /\ y.role # ReferenceRole /\ Key(x) = Key(y)
<1>0. Fits(buffer)
  BY DEF BufferFits
<1>1. ASSUME NEW i \in DOMAIN buffer, NEW r \in ToSet(buffer[i].responses)
      PROVE  Key(r) = buffer[i].key
  BY <1>0 DEF Fits
<1>2. PICK e \in DOMAIN buffer : x \in ToSet(buffer[e].responses)
  BY DEF Buffered
<1>3. \A i \in DOMAIN buffer : buffer[i].key = Key(x) => i = e
  BY <1>0, <1>1, <1>2 DEF Fits
<1> DEFINE rs == buffer[e].responses
<1>4. \E r \in ToSet(rs) : r.role = ReferenceRole
  <2>1. PICK r \in Buffered : r.role = ReferenceRole /\ Key(r) = Key(x)
    OBVIOUS
  <2>2. PICK i \in DOMAIN buffer : r \in ToSet(buffer[i].responses)
    BY DEF Buffered
  <2> QED BY <1>1, <1>3, <2>1, <2>2
<1>5. p \in ToSet(Pairs(buffer)) <=> p \in PairSet(rs)
  <2>1. ASSUME NEW i \in DOMAIN buffer, p \in PairSet(buffer[i].responses) PROVE i = e
    <3>1. x \in ToSet(buffer[i].responses)
      BY <2>1, PairSetMembers
    <3> QED BY <1>1, <1>3, <3>1
  <2> QED BY <1>0, <2>1, PairsElements
<1>6. IsList(rs) /\ IsInjective(rs)
  BY <1>0 DEF Fits
<1>7. y \in ToSet(rs) <=> Key(x) = Key(y)
  <2>1. PICK i \in DOMAIN buffer : y \in ToSet(buffer[i].responses)
    BY DEF Buffered
  <2> QED BY <1>1, <1>2, <1>3, <2>1
<1>8. x \in ToSet(rs)
  BY <1>2
<1> HIDE DEF rs
<1>9. References(rs) = {i \in DOMAIN rs : rs[i].role = ReferenceRole}
  BY <1>4 DEF References, ToSet
<1>10. ASSUME p \in PairSet(rs)
       PROVE  x.role = ReferenceRole /\ y.role # ReferenceRole /\ y \in ToSet(rs)
  BY <1>9, <1>10 DEF PairSet, ToSet
<1>11. ASSUME x.role = ReferenceRole, y.role # ReferenceRole, y \in ToSet(rs)
       PROVE  p \in PairSet(rs)
  <2>1. PICK k \in DOMAIN rs : rs[k] = x
    BY <1>8 DEF ToSet
  <2>2. PICK l \in DOMAIN rs : rs[l] = y
    BY <1>11 DEF ToSet
  <2>3. k \in References(rs) \cap DOMAIN rs /\ l \in DOMAIN rs \ References(rs)
    BY <1>9, <1>11, <2>1, <2>2
  <2> QED BY <1>11, <2>1, <2>2, <2>3 DEF PairSet
<1> QED BY <1>5, <1>7, <1>10, <1>11

\* ReportCoversBuffer (_build_pairs, compare_responses, classify_diff and the
\* sort of build_report on the way from the buffer to the report): a flush
\* alone reports, for each endpoint with a reference response, the issues of
\* every reference against every other response, each once and no others.
THEOREM ReportsCover == Spec => []ReportCoversBuffer
<1>1. ASSUME CInv PROVE ReportCoversBuffer
  <2> DEFINE refs == {r \in Buffered : r.role = ReferenceRole}
             others == Buffered \ refs
             pairs == {p \in refs \X others : Key(p[1]) = Key(p[2])}
             covered == {i \in Reported : \E r \in refs : Key(r) = Key(i.diff.a)}
  <2> SUFFICES ASSUME Closed, returned = {}
               PROVE  /\ covered = UNION {IssuesOf(p[1], p[2]) : p \in pairs}
                      /\ IsInjective(lists[LastReport.list])
    BY DEF ReportCoversBuffer
  <2>0. BufferFits /\ Fits(buffer)
    BY <1>1 DEF CInv, ListsFit, BufferFits
  <2>1. lists[issues] = Found
    BY <1>1 DEF CInv, FoundByFlush, Closed
  <2>2. Reported = ToSet(Found) /\ IsInjective(lists[LastReport.list])
    BY <1>1, <2>0, <2>1, ReportedIssues, FoundElements
  <2>3. ToSet(Found) = UNION {IssueSet(Comparison(p)) : p \in ToSet(Pairs(buffer))}
    BY <2>0, FoundElements, NewDiffsElements
  <2>4. \A a, b : IssuesOf(a, b) = IssueSet(Comparison(<<a, b>>))
    BY DEF IssuesOf, IssueSet, Comparison
  <2>5. ASSUME NEW i \in covered PROVE \E p \in pairs : i \in IssuesOf(p[1], p[2])
    <3>1. PICK p \in ToSet(Pairs(buffer)) : i \in IssueSet(Comparison(p))
      BY <2>2, <2>3
    <3>2. p[1] \in Buffered /\ p[2] \in Buffered /\ p = <<p[1], p[2]>>
      <4>1. PICK k \in DOMAIN buffer : p \in PairSet(buffer[k].responses)
        BY <2>0, PairsElements
      <4> QED BY <4>1, PairSetMembers DEF Buffered
    <3>3. i.diff.a = p[1]
      BY <3>1, ComparisonOf DEF IssueSet, Issue
    <3>4. PICK r \in Buffered : r.role = ReferenceRole /\ Key(r) = Key(p[1])
      BY <3>3
    <3>5. /\ p[1].role = ReferenceRole /\ p[2].role # ReferenceRole
          /\ Key(p[1]) = Key(p[2])
      BY <2>0, <3>2, <3>4, ReferencePairs
    <3>6. p \in pairs
      BY <3>2, <3>5
    <3>7. IssuesOf(p[1], p[2]) = IssueSet(Comparison(p))
      BY <2>4, <3>2
    <3> QED BY <3>1, <3>6, <3>7
  <2>6. ASSUME NEW p \in pairs, NEW i \in IssuesOf(p[1], p[2]) PROVE i \in covered
    <3>1. /\ p[1] \in Buffered /\ p[2] \in Buffered /\ p = <<p[1], p[2]>>
          /\ p[1].role = ReferenceRole /\ p[2].role # ReferenceRole
          /\ Key(p[1]) = Key(p[2]) /\ p[1] \in refs
      BY <2>6
    <3>2. p \in ToSet(Pairs(buffer))
      BY <2>0, <3>1, ReferencePairs
    <3>3. i \in IssueSet(Comparison(p))
      BY <2>4, <2>6, <3>1
    <3>4. i.diff.a = p[1]
      BY <3>3, ComparisonOf DEF IssueSet, Issue
    <3> QED BY <2>2, <2>3, <3>1, <3>2, <3>3, <3>4
  <2>7. covered = UNION {IssuesOf(p[1], p[2]) : p \in pairs}
    <3> HIDE DEF covered, pairs
    <3> QED BY <2>5, <2>6
  <2> QED BY <2>2, <2>7
<1>2. CInv => ReportCoversBuffer
  BY <1>1
<1> QED BY <1>2, AlwaysCInv, PTL
=============================================================================
