--------------------------- MODULE ResultCollector ---------------------------
(***************************************************************************)
(* result_collector.py: responses are buffered per endpoint as they come   *)
(* in, compared in pairs, classified and reported.                         *)
(*                                                                         *)
(* A Python list that is handed out or rebound is an object: lists[n] is   *)
(* what the n-th list holds, and whoever has the list sees what becomes of *)
(* it.                                                                     *)
(***************************************************************************)
EXTENDS ReportGenerator

CONSTANTS
  Responses,      \* the responses of the scans; at tells them apart
  ReferenceRole,
  Threshold,      \* similarity_threshold
  Calls,          \* which of "process" and "reset" the client makes
  MaxResponses,   \* bound: responses buffered
  MaxProcessed,   \* bound: calls of process_buffered
  MaxReports      \* bound: calls of flush

ASSUME ResponsesAssumption == \A r \in Responses : r.text \in Texts \cup {None}

VARIABLES
  buffer,    \* _buffer: entries of key and responses, in order of insertion
  diffs,     \* _diffs
  lists,     \* the list objects
  issues,    \* _issues: the number of its list
  requests,  \* _request_count
  reports,   \* the reports, each with the number of its list
  returned,  \* the lists process_buffered has returned
  told,      \* the issues on_issue_found was called with
  open       \* the client's: results of a scan still come in

collectorVars ==
  <<buffer, diffs, lists, issues, requests, reports, returned, told, open>>

Key(r) == <<r.method, r.endpoint>>
Buffered == UNION {ToSet(buffer[i].responses) : i \in DOMAIN buffer}

Init ==
  /\ buffer = <<>> /\ diffs = <<>> /\ requests = 0
  /\ lists = <<<<>>>> /\ issues = 1
  /\ reports = <<>> /\ returned = {} /\ told = <<>>
  /\ open = TRUE

-----------------------------------------------------------------------------
(* Pairs *)

\* The positions of the responses with the reference role; without any, the
\* first response is the reference.
References(responses) ==
  LET found == {i \in DOMAIN responses : responses[i].role = ReferenceRole}
  IN IF found = {} THEN {1} ELSE found

PairsWith(ref, others) ==
  Picked([i \in DOMAIN others |-> <<ref, others[i]>>],
         {i \in DOMAIN others : ref.user # others[i].user \/ ref.role # others[i].role})

\* Every reference with every other response.
BuildPairs(responses) ==
  LET refs == Picked(responses, References(responses))
      others == Picked(responses, DOMAIN responses \ References(responses))
  IN FlattenSeq([i \in DOMAIN refs |-> PairsWith(refs[i], others)])

\* Mutant: one reference response is enough.
PairsOfFirst(buf) ==
  FlattenSeq([i \in DOMAIN buf |->
     SelectSeq(BuildPairs(buf[i].responses),
               LAMBDA p : p[1] = BuildPairs(buf[i].responses)[1][1])])

Pairs(buf) == FlattenSeq([i \in DOMAIN buf |-> BuildPairs(buf[i].responses)])

Compared(pairs) ==
  [i \in DOMAIN pairs |-> CompareResponses(pairs[i][1], pairs[i][2], Threshold)]

Classified(results) ==
  FlattenSeq([i \in DOMAIN results |-> ClassifyDiff(results[i])])

-----------------------------------------------------------------------------
(* Operations *)

OnResult(r) ==
  /\ open /\ requests < MaxResponses
  /\ r \notin Buffered
  /\ IF \E i \in DOMAIN buffer : buffer[i].key = Key(r)
       THEN buffer' = [i \in DOMAIN buffer |->
                         IF buffer[i].key = Key(r)
                           THEN [buffer[i] EXCEPT !.responses = Append(@, r)]
                           ELSE buffer[i]]
       ELSE buffer' = Append(buffer, [key |-> Key(r), responses |-> <<r>>])
  /\ requests' = requests + 1
  /\ UNCHANGED <<diffs, lists, issues, reports, returned, told, open>>

NewDiffs == Compared(Pairs(buffer))
Found == Classified(NewDiffs)

\* Mutant: the callback hears of the first issue only.
ProcessTellingFirst ==
  /\ diffs' = diffs \o NewDiffs
  /\ issues' = Len(lists) + 1
  /\ told' = told \o SelectSeq(Found, LAMBDA issue : issue = Found[1])

\* The comparisons are added to the old ones, _issues becomes a new list.
ProcessBuffered ==
  /\ diffs' = diffs \o NewDiffs
  /\ issues' = Len(lists) + 1
  /\ told' = told \o Found

Process ==
  /\ open /\ "process" \in Calls
  /\ Cardinality(returned) < MaxProcessed
  /\ ProcessBuffered
  /\ lists' = Append(lists, Found)
  /\ returned' = returned \cup {issues'}
  /\ UNCHANGED <<buffer, requests, reports, open>>

\* Mutant: the report keeps the collector's list.
ReportShared(list, held) ==
  /\ lists' = held
  /\ reports' = Append(reports, [list |-> list,
                                 summary |-> Summary(held[list], Len(buffer), requests)])

\* The report gets a list of its own.
Report(list, held) ==
  /\ lists' = Append(held, SortedIssues(held[list]))
  /\ reports' = Append(reports, [list |-> Len(lists'),
                                 summary |-> Summary(held[list], Len(buffer), requests)])

\* Processes the buffer unless an earlier call has found something.
Flush ==
  /\ open /\ Len(reports) < MaxReports
  /\ \/ lists[issues] = <<>> /\ ProcessBuffered /\ Report(issues', Append(lists, Found))
     \/ /\ lists[issues] # <<>>
        /\ UNCHANGED <<diffs, issues, told>>
        /\ Report(issues, lists)
  /\ open' = FALSE
  /\ UNCHANGED <<buffer, requests, returned>>

\* Mutant: the diffs stay.
ResetKeepingDiffs ==
  /\ "reset" \in Calls
  /\ buffer' = <<>> /\ requests' = 0 /\ diffs' = diffs
  /\ lists' = [lists EXCEPT ![issues] = <<>>]
  /\ open' = TRUE
  /\ UNCHANGED <<issues, reports, returned, told>>

\* Clears the lists it has, and keeps them.
Reset ==
  /\ "reset" \in Calls
  /\ buffer' = <<>> /\ diffs' = <<>> /\ requests' = 0
  /\ lists' = [lists EXCEPT ![issues] = <<>>]
  /\ open' = TRUE
  /\ UNCHANGED <<issues, reports, returned, told>>

Next == (\E r \in Responses : OnResult(r)) \/ Process \/ Flush \/ Reset

Spec == Init /\ [][Next]_collectorVars

-----------------------------------------------------------------------------
(* Properties *)

LastReport == reports[Len(reports)]
Reported == ToSet(lists[LastReport.list])
Closed == ~open /\ reports # <<>>

\* The issues of a pair, by the definition of each type.
IssuesOf(a, b) ==
  LET diff == CompareResponses(a, b, Threshold)
  IN {Issue(type, diff) : type \in {t \in IssueTypes : IsAnomaly(diff) /\ Triggers(t, diff)}}

\* The report of a scan that is processed by flush only has, for each endpoint
\* with a reference response, the issues of every reference response against
\* every other response, each once and no others, in whatever order the
\* responses came in.
ReportCoversBuffer ==
  Closed /\ returned = {} =>
    LET refs == {r \in Buffered : r.role = ReferenceRole}
        others == Buffered \ refs
        pairs == {p \in refs \X others : Key(p[1]) = Key(p[2])}
    IN /\ {i \in Reported : \E r \in refs : Key(r) = Key(i.diff.a)}
            = UNION {IssuesOf(p[1], p[2]) : p \in pairs}
       /\ IsInjective(lists[LastReport.list])

\* Nothing of an earlier scan is compared, counted or reported in a later one.
NothingStale ==
  /\ \A i \in DOMAIN diffs : {diffs[i].a, diffs[i].b} \subseteq Buffered
  /\ \A i \in DOMAIN lists[issues] :
       {lists[issues][i].diff.a, lists[issues][i].diff.b} \subseteq Buffered

\* An anomaly of users of different tenants, or of unknown ones, is reported as
\* something: the comparison and the checkers agree on the borders.  What was
\* compared while a later reference was missing is not compared again, and its
\* issues are gone with the list they were in.
EveryAnomalyReported ==
  Closed =>
    \A d \in ToSet(diffs) \cap ToSet(NewDiffs) :
      IsAnomaly(d) /\ ~(d.a.tenant # None /\ d.a.tenant = d.b.tenant)
        => \E i \in Reported : i.diff = d

\* The figures per severity that a format shows add up to its total.
EveryFormatAddsUp ==
  \A n \in DOMAIN reports, format \in Formats :
    reports[n].summary.total =
      SumFunctionOnSet(reports[n].summary.count, ShownSeverities(format))

\* on_issue_found has been called for every issue of the report.
EveryReportedIssueTold == Closed => Reported \subseteq ToSet(told)

\* A report that was handed out never changes, whatever becomes of the collector.
ReportsStand ==
  [][\A n \in DOMAIN reports :
       /\ reports'[n] = reports[n]
       /\ lists'[reports[n].list] = lists[reports[n].list]]_collectorVars
=============================================================================
