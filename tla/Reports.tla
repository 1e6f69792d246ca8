------------------------------- MODULE Reports -------------------------------
(***************************************************************************)
(* What the founder's pages, the inbox and the Score tab compute from the  *)
(* rows of one organisation, and the writes that move those rows under     *)
(* them.  Sources: app/api/dashboard.py, app/api/team.py, and the inbox    *)
(* and score endpoints of app/api/calls.py.                                *)
(*                                                                         *)
(* The state is the tables the pages read.  Each write is one step here:   *)
(* CallPipeline and LeadBook model how a write is made and what may happen *)
(* half way.  A page is an operator of the state: its handler never awaits *)
(* between its queries.  Left out of a page: names and texts, and what it  *)
(* shows of attendance.                                                    *)
(*                                                                         *)
(* Time is counted in half days, the calendar is UTC's and every month has *)
(* MonthDays days.  Money and percentages are integers; percentages and    *)
(* averages of the code's round(..., 1) are in tenths.                     *)
(***************************************************************************)
EXTENDS CallScoring, SequencesExt

CONSTANTS
  Telecallers,   \* users with role telecaller
  Contacts,      \* contact keys; a call id carries its contact's
  Transcripts,   \* what a transcription may return
  Answers,       \* what the scoring model may answer; None when it fails
  Values,        \* deal values
  Moves,         \* pipeline stages a lead is moved to
  Backdates,     \* how long before its upload a call may be dated; below 0: after it
  Defaults,      \* _ALERT_DEFAULTS
  Saved,         \* the organisation's alert_config
  TrendDays,     \* 14: days of the chart, and of each side of a trend
  CoachMin,      \* _COACHING_MIN_CALLS
  MonthDays,     \* days of a month
  Target,        \* monthly_revenue_target, or None
  Start,         \* the half day the clock starts at
  Horizon,       \* bound: the half day it stops at
  MaxCalls,      \* bound: calls
  MaxWrites,     \* bound: writes, uploads included
  MaxEdits       \* bound: those that only touch a lead

\* The tables are finite; a deal value and an alert threshold are integers, if set.
ASSUME TablesAssumption ==
  /\ IsFiniteSet(Telecallers) /\ IsFiniteSet(Contacts) /\ None \notin Telecallers
  /\ Values \subseteq Int \cup {None} /\ Target \in Int \cup {None}
  /\ {"wastage_days", "zombie_days", "performance_gap", "quality_floor"} \subseteq DOMAIN Defaults
  /\ \A k \in DOMAIN Defaults : Defaults[k] \in Nat
  /\ \A k \in DOMAIN Saved : Saved[k] \in Int \cup {None}

\* A transcript is a list of turns; an answer has a number or nothing for every
\* score, and for every window of the transcript nothing or some turn numbers,
\* each with a number or nothing.
ASSUME AnswersAssumption ==
  /\ Transcripts \subseteq Seq([sec : Nat \cup {None}])
  /\ \A raw \in Answers \ {None} :
       /\ \A d \in Bant \cup Dimensions : raw[d] \in Int \cup {None}
       /\ \A turns \in Transcripts : \A w \in DOMAIN Windows(Len(turns)) :
            raw.moods[w] # None =>
              /\ DOMAIN raw.moods[w] \subseteq Int /\ IsFiniteSet(DOMAIN raw.moods[w])
              /\ \A t \in DOMAIN raw.moods[w] : raw.moods[w][t].score \in Int \cup {None}

ASSUME CalendarAssumption ==
  /\ Start \in Int /\ Backdates \subseteq Int
  /\ TrendDays \in Nat \ {0} /\ MonthDays \in Nat \ {0}

VARIABLES
  now,     \* half days
  calls,   \* AudioCall rows with their LeadAnalysis, by timestamp
  leads,   \* [Contacts -> Lead row, or None]
  writes,  \* how many there were,
  edits    \* and how many only touched a lead, for the bounds   (auxiliary)

vars == <<now, calls, leads, writes, edits>>

Terminal == {"Closed Won", "Closed Lost", "Junk"}

Init ==
  /\ now = Start
  /\ calls = <<>>
  /\ leads = [c \in Contacts |-> None]
  /\ writes = 0 /\ edits = 0

-----------------------------------------------------------------------------
(* The writes *)

Write == writes < MaxWrites /\ writes' = writes + 1 /\ UNCHANGED <<now, edits>>

EditWrite ==
  /\ writes < MaxWrites /\ writes' = writes + 1
  /\ edits < MaxEdits /\ edits' = edits + 1
  /\ UNCHANGED <<now, calls>>

Tick == now < Horizon /\ now' = now + 1 /\ UNCHANGED <<calls, leads, writes, edits>>

\* UPDATE, which moves updated_at only when a column changed.
Update(c, row) ==
  leads' = [leads EXCEPT ![c] = IF row = leads[c] THEN row ELSE [row EXCEPT !.updated = now]]

NewLead(status, t) ==
  [stage |-> "New", status |-> status, owner |-> t, value |-> None,
   created |-> now, updated |-> now, closed |-> None]

\* create_lead by telecaller t
SaveLead(t, c) ==
  /\ EditWrite
  /\ leads[c] = None
  /\ leads' = [leads EXCEPT ![c] = NewLead("new", t)]

\* upload_recording: the lead is upserted, the call stored under the time the
\* phone gives for it, whatever it is: its clock may be ahead, and a local time
\* without a zone is taken for UTC.
Land(t, c, back) ==
  /\ Write
  /\ Len(calls) < MaxCalls
  /\ LET call == [by |-> t, contact |-> c, at |-> now - back, turns |-> <<>>,
                  status |-> "none", result |-> None]
     IN calls' = InsertAt(calls, 1 + Cardinality({i \in DOMAIN calls : calls[i].at <= call.at}), call)
  /\ IF leads[c] = None
     THEN leads' = [leads EXCEPT ![c] = NewLead("contacted", t)]
     ELSE Update(c, [leads[c] EXCEPT !.status = "contacted", !.owner = IF @ = None THEN t ELSE @])

Judged(result) == IF result.relevant THEN "completed" ELSE "not_relevant"

\* _process_uploaded_recording, for call i: the transcript, then its analysis; a
\* failed one is stored as zeros.
Process(i, turns, raw) ==
  /\ Write
  /\ calls[i].status = "none" /\ turns # <<>>
  /\ LET result == Analyze(turns, raw)
     IN calls' = [calls EXCEPT ![i].turns = turns,
                    ![i].status = IF result = None THEN "failed" ELSE Judged(result),
                    ![i].result = IF result = None THEN EmptyResult ELSE result]
  /\ UNCHANGED leads

\* run_lead_analysis, up to the analyzer and after its answer: the old columns
\* stay until there is an answer, and when there is none.
Rerun(i) ==
  /\ Write
  /\ calls[i].status # "processing"
  /\ calls' = [calls EXCEPT ![i].status = "processing"]
  /\ UNCHANGED leads

Answer(i, raw) ==
  /\ Write
  /\ calls[i].status = "processing"
  /\ LET result == Analyze(calls[i].turns, raw)
     IN calls' = [calls EXCEPT ![i].status = IF result = None THEN "failed" ELSE Judged(result),
                               ![i].result = IF result = None THEN @ ELSE result]
  /\ UNCHANGED leads

Delete(i) == Write /\ calls' = RemoveAt(calls, i) /\ UNCHANGED leads

\* _apply_stage_update; the stages' order and notes are LeadBook's subject.
Move(c, stage, value) ==
  /\ EditWrite
  /\ leads[c] # None
  /\ Update(c, IF stage = "Closed Won"
               THEN [leads[c] EXCEPT !.stage = stage, !.closed = now,
                                     !.value = IF value = None THEN @ ELSE value]
               ELSE [leads[c] EXCEPT !.stage = stage, !.closed = None])

\* update_lead_details
Edit(c, owner, value) ==
  /\ EditWrite
  /\ leads[c] # None
  /\ Update(c, [leads[c] EXCEPT !.owner = owner, !.value = value])

Next ==
  \/ Tick
  \/ \E t \in Telecallers, c \in Contacts :
       \/ SaveLead(t, c)
       \/ \E back \in Backdates : Land(t, c, back)
  \/ \E i \in DOMAIN calls :
       \/ \E turns \in Transcripts, raw \in Answers : Process(i, turns, raw)
       \/ Rerun(i)
       \/ \E raw \in Answers : Answer(i, raw)
       \/ Delete(i)
  \/ \E c \in Contacts :
       \/ \E stage \in Moves, value \in Values : Move(c, stage, value)
       \/ \E owner \in Telecallers \cup {None}, value \in Values : Edit(c, owner, value)

Spec == Init /\ [][Next]_vars

-----------------------------------------------------------------------------
(* Rows *)

Rows   == DOMAIN calls
Leads  == {c \in Contacts : leads[c] # None}
Day(t) == t \div 2
Today  == Day(now)

By(t)        == {i \in Rows : calls[i].by = t}
Completed    == {i \in Rows : calls[i].status = "completed"}
OwnedBy(t)   == {c \in Leads : leads[c].owner = t}
Open         == {c \in Leads : leads[c].stage \notin Terminal}
Won          == {c \in Leads : leads[c].stage = "Closed Won"}
Verdict(i)   == calls[i].result.verdict

\* From the first half day of day `start` up to the last of day `end`.
InRange(at, start, end) ==
  /\ start = None \/ at >= 2 * start
  /\ end = None \/ at < 2 * (end + 1)

Percent(a, b) == IF b = 0 THEN 0 ELSE RoundDiv(1000 * a, b)

Worth(S) == Total([c \in S |-> IF leads[c].value = None THEN 0 ELSE leads[c].value])

\* The newest completed call of each contact that has one.
Newest == [c \in {calls[i].contact : i \in Completed} |->
             Max({i \in Completed : calls[i].contact = c})]

LatestScores   == [c \in DOMAIN Newest |-> calls[Newest[c]].result.bant]
LatestVerdicts == [c \in DOMAIN Newest |-> Verdict(Newest[c])]

-----------------------------------------------------------------------------
(* Telecaller pages *)

\* _compute_telecaller_metrics
Metrics(rows, analysed, assigned, withTrend) ==
  LET connected == {i \in rows : calls[i].turns # <<>>}
      judged    == rows \cap analysed
      positive  == {i \in judged : Verdict(i) \in {"Hot", "Warm"}}
      won       == assigned \cap Won
      dims      == AveragedDimensions([i \in judged |-> calls[i].result.dims])
      talk      == {i \in connected : Last(calls[i].turns).sec # None}
      window    == 2 * TrendDays
      recent    == {i \in judged : calls[i].at >= now - window}
      older     == {i \in judged : calls[i].at >= now - 2 * window /\ calls[i].at < now - window}
      total(S)  == Total([i \in S |-> calls[i].result.total])
  IN [calls      |-> Cardinality(rows),
      connected  |-> Cardinality(connected),
      connectPct |-> Percent(Cardinality(connected), Cardinality(rows)),
      positivePct |-> Percent(Cardinality(positive), Cardinality(judged)),
      closedWon  |-> Cardinality(won),
      closePct   |-> Percent(Cardinality(won), Cardinality(assigned)),
      revenue    |-> Worth(won),
      talkTime   |-> IF talk = {} THEN 0 ELSE Average([i \in talk |-> Last(calls[i].turns).sec]),
      quality    |-> Total(dims),
      trend      |-> IF ~withTrend \/ recent = {} \/ older = {} THEN None
                     ELSE IF total(recent) * Cardinality(older) >= total(older) * Cardinality(recent)
                     THEN "up" ELSE "down",
      dims       |-> dims]

\* _telecaller_metrics: one telecaller's rows.
MetricsOne(t, start, end) ==
  LET rows == {i \in By(t) : InRange(calls[i].at, start, end)}
  IN Metrics(rows, rows \cap Completed, OwnedBy(t), start = None /\ end = None)

\* Mutation: the batch forgets that a re-run call is no completed one.
MetricsBatchAll(ids, start, end) ==
  [t \in ids |->
     LET rows == {i \in By(t) : InRange(calls[i].at, start, end)}
     IN Metrics(rows, {i \in rows : calls[i].result # None}, OwnedBy(t), start = None /\ end = None)]

\* _telecaller_metrics_batch: everybody's rows in three queries, dealt out after.
MetricsBatch(ids, start, end) ==
  LET rows     == {i \in UNION {By(t) : t \in ids} : InRange(calls[i].at, start, end)}
      analysed == rows \cap Completed
      owned    == {c \in Leads : leads[c].owner \in ids}
  IN [t \in ids |-> Metrics({i \in rows : calls[i].by = t}, analysed,
                            {c \in owned : leads[c].owner = t}, start = None /\ end = None)]

\* The team's averages; a percentage is in tenths already.
TeamAverage(metrics) ==
  LET of(f)  == [t \in DOMAIN metrics |-> metrics[t][f]]
      dim(d) == Average([t \in DOMAIN metrics |-> metrics[t].dims[d]])
  IN IF DOMAIN metrics = {} THEN None
     ELSE [whole |-> [f \in {"calls", "talkTime", "quality"} |-> RoundDiv(AverageTenths(of(f)), 10)],
           percent |-> [f \in {"connectPct", "positivePct", "closePct"} |-> Average(of(f))],
           dims |-> [d \in Dimensions |-> dim(d)]]

\* get_telecaller_performance
PerformancePage(start, end) ==
  LET metrics == MetricsBatch(Telecallers, start, end)
  IN [telecallers |-> metrics, average |-> TeamAverage(metrics)]

\* get_team_status, without presence: "today" begins at midnight in India, half
\* a day before UTC's tomorrow.
IndianMidnight == 2 * ((now + 1) \div 2) - 1

StatusPage ==
  LET metrics == MetricsBatch(Telecallers, None, None)
  IN [t \in Telecallers |->
        [calls     |-> metrics[t].calls,
         connected |-> metrics[t].connected,
         closedWon |-> metrics[t].closedWon,
         quality   |-> metrics[t].quality,
         trend     |-> metrics[t].trend,
         revenueToday |-> Worth({c \in OwnedBy(t) \cap Won : leads[c].closed >= IndianMidnight}),
         leads     |-> Cardinality(OwnedBy(t) \cap Open),
         lastCall  |-> LET today == {i \in By(t) : calls[i].at >= IndianMidnight}
                       IN IF today = {} THEN None ELSE calls[Max(today)].at]]

\* get_telecaller_performance_detail; the best and the worst calls in no order,
\* with those that tie with the fifth
DetailPage(t, start, end) ==
  LET rows   == {i \in By(t) : InRange(calls[i].at, start, end)}
      scored == rows \cap Completed
      total(i) == calls[i].result.total
      first  == Today - (TrendDays - 1)
  IN [metrics |-> MetricsOne(t, start, end),
      best    |-> {i \in scored : Cardinality({j \in scored : total(j) > total(i)}) < 5},
      review  |-> {i \in scored : Cardinality({j \in scored : total(j) < total(i)}) < 5},
      timeline |-> {i \in rows : Cardinality({j \in rows : j > i}) < 20},
      daily   |-> [d \in first .. Today |-> Cardinality({i \in By(t) : Day(calls[i].at) = d})],
      leads   |-> OwnedBy(t) \cap Open]

\* get_telecaller_call_log
CallLogPage(t, start, end, skip, limit) ==
  LET rows == {i \in By(t) : InRange(calls[i].at, start, end)}
      size == Max({1, Min({limit, 100})})
      rank(i) == Cardinality({j \in rows : j > i})
  IN [calls |-> [i \in {j \in rows : rank(j) >= skip /\ rank(j) < skip + size} |->
                   IF i \in Completed THEN [verdict |-> Verdict(i), total |-> calls[i].result.total]
                   ELSE None],
      total |-> Cardinality(rows)]

\* team.py _member_metrics_batch
TeamPage ==
  [t \in Telecallers |->
     LET debriefs == [i \in By(t) \cap Completed |-> calls[i].result.dims]
     IN [calls   |-> Cardinality(By(t)),
         leads   |-> Cardinality(OwnedBy(t)),
         active  |-> IF By(t) = {} THEN None ELSE Max({calls[i].at : i \in By(t)}),
         quality |-> IF DOMAIN debriefs = {} THEN None ELSE Total(AveragedDimensions(debriefs))]]

\* get_coaching_queue: what is recommended for t: "silent", "few", or the
\* dimensions that average below 12 of 20 (5 of 10).
CoachingQueue(t) ==
  LET heard == {i \in By(t) \cap Completed : calls[i].at >= now - 2 * TrendDays}
      enough(d) == IF d = "punctuality" THEN 5 ELSE 12
      gap(d) == enough(d) * Cardinality(heard) - Total([i \in heard |-> calls[i].result.dims[d]])
      priority(d) == LET full == enough(d) * Cardinality(heard)
                     IN IF 2 * gap(d) >= full THEN "High"
                        ELSE IF 4 * gap(d) >= full THEN "Medium" ELSE "Low"
  IN IF heard = {} THEN {<<"silent", "High">>}
     ELSE IF Cardinality(heard) < CoachMin THEN {<<"few", "Low">>}
     ELSE {<<d, priority(d)>> : d \in {e \in Dimensions : gap(e) > 0}}

-----------------------------------------------------------------------------
(* Lead pages *)

Alerts == [k \in DOMAIN Defaults |->
             IF k \in DOMAIN Saved /\ Saved[k] # None /\ Saved[k] >= 0 THEN Saved[k] ELSE Defaults[k]]

DaysSince(t) == (now - t) \div 2

\* get_leads_board
BoardPage ==
  [c \in Leads |-> [score |-> IF c \in DOMAIN LatestScores THEN LatestScores[c] ELSE None,
                    stage |-> leads[c].stage, value |-> leads[c].value, owner |-> leads[c].owner,
                    stuck |-> DaysSince(leads[c].updated)]]

\* _lead_quality, without the sources
QualityPage ==
  [verdicts |-> [v \in Verdicts |-> Cardinality({c \in DOMAIN LatestVerdicts : LatestVerdicts[c] = v})],
   average  |-> AverageTenths(LatestScores)]

\* get_score_distribution
Bands == {<<81, 100>>, <<61, 80>>, <<41, 60>>, <<21, 40>>, <<0, 20>>}

BandsPage ==
  [b \in Bands |->
     LET in == {c \in DOMAIN LatestScores : b[1] <= LatestScores[c] /\ LatestScores[c] <= b[2]}
     IN [count |-> Cardinality(in),
         share |-> Percent(Cardinality(in), Cardinality(DOMAIN LatestScores)),
         closed |-> Percent(Cardinality(in \cap Won), Cardinality(in))]]

\* get_leads_ageing
AgeingPage ==
  LET bucket(c) == IF DaysSince(leads[c].updated) <= 3 THEN "0-3"
                   ELSE IF DaysSince(leads[c].updated) <= 7 THEN "3-7" ELSE "7+"
  IN [b \in {"0-3", "3-7", "7+"} |-> Cardinality({c \in Open : bucket(c) = b})]

\* _wasted_leads
Wasted ==
  {c \in Leads : /\ leads[c].stage \in {"New", "Assigned"}
                 /\ \A i \in Rows : calls[i].contact # c
                 /\ DaysSince(leads[c].created) >= Alerts.wastage_days}

\* _zombie_leads
Zombies ==
  {c \in Open : leads[c].stage # "New" /\ DaysSince(leads[c].updated) >= Alerts.zombie_days}

\* get_lead_detail, for a founder: the calls of the contact, the irrelevant ones
\* included, and the score of the last of them.
LeadDetailPage(c) ==
  LET touched == {i \in Rows : calls[i].contact = c /\ calls[i].status \in {"completed", "not_relevant"}}
  IN IF leads[c] = None /\ touched = {} THEN None
     ELSE [score |-> IF touched = {} THEN None ELSE calls[Max(touched)].result.bant,
           calls |-> [i \in touched |->
                        [verdict |-> Verdict(i), score |-> calls[i].result.bant,
                         mood |-> SentimentLabel(calls[i].result.arc)]]]

-----------------------------------------------------------------------------
(* Money *)

ClosedBetween(from, to) == {c \in Won : leads[c].closed >= 2 * from /\ leads[c].closed < 2 * to}

MonthStart == MonthDays * (Today \div MonthDays)
Elapsed    == Today - MonthStart + 1
OnDay(d)   == Worth(ClosedBetween(d, d + 1))

\* get_dashboard_revenue: the month is read by itself, the days of the range
\* before it by another query.
RevenuePage(range) ==
  LET month  == ClosedBetween(MonthStart, MonthStart + MonthDays)
      first  == Today - (range - 1)
      window == month \cup (IF first < MonthStart THEN ClosedBetween(first, MonthStart) ELSE {})
      day(S, d) == Worth({c \in S : Day(leads[c].closed) = d})
      before == Worth(ClosedBetween(MonthStart - MonthDays, MonthStart - MonthDays + Elapsed))
      hit    == {d \in MonthStart .. Today : day(month, d) * MonthDays >= Target}
  IN [mtd    |-> Worth(month),
      series |-> [d \in first .. Today |-> day(window, d)],
      change |-> IF before = 0 THEN None ELSE RoundDiv(1000 * (Worth(month) - before), before),
      perDay |-> RoundDiv(Worth(month), Elapsed),
      on     |-> IF Target \in {None, 0} THEN None ELSE Cardinality(hit),
      off    |-> IF Target \in {None, 0} THEN None ELSE Elapsed - Cardinality(hit)]

\* get_dashboard_goal
GoalPage ==
  LET month == ClosedBetween(MonthStart, MonthStart + MonthDays)
      mtd   == Worth(month)
      left  == MonthDays - Elapsed
      rest  == IF mtd >= Target THEN 0 ELSE Target - mtd
  IN [mtd    |-> mtd,
      deals  |-> Cardinality(month),
      deal   |-> IF month = {} THEN None ELSE RoundDiv(mtd, Cardinality(month)),
      share  |-> IF Target \in {None, 0} THEN None ELSE Percent(mtd, Target),
      left   |-> left,
      needed |-> IF Target \in {None, 0} THEN None
                 ELSE IF left > 0 THEN RoundDiv(rest, left)
                 ELSE IF rest = 0 THEN 0 ELSE None]

-----------------------------------------------------------------------------
(* Home page, insights and reports *)

\* _snapshot
Snapshot(start, end) ==
  LET from == IF start = None THEN Today ELSE start
      to   == IF end = None THEN Today ELSE end
  IN [leads |-> Cardinality({c \in Leads : InRange(leads[c].created, from, to)}),
      calls |-> Cardinality({i \in Rows : InRange(calls[i].at, from, to)}),
      hot   |-> Cardinality({c \in DOMAIN LatestVerdicts : LatestVerdicts[c] = "Hot"}),
      conversion |-> Percent(Cardinality(Won), Cardinality(Leads)),
      total |-> Cardinality(Leads),
      ranged |-> start # None \/ end # None]

\* _insights
Insights ==
  LET metrics == MetricsBatch(Telecallers, None, None)
      sum     == Total([t \in Telecallers |-> metrics[t].quality])
  IN [wastage |-> Cardinality(Wasted),
      zombie  |-> Cardinality(Zombies),
      behind  |-> {t \in Telecallers : sum - metrics[t].quality * Cardinality(Telecallers)
                                         > Alerts.performance_gap * Cardinality(Telecallers)},
      poor    |-> QualityPage.average # None /\ QualityPage.average < 10 * Alerts.quality_floor]

\* get_report_preview
Preview(type) ==
  CASE type = "weekly_summary" ->
         [snapshot |-> Snapshot(None, None), zombies |-> Cardinality(Zombies), wasted |-> Cardinality(Wasted)]
    [] type = "telecaller_performance" ->
         PerformancePage(None, None)
    [] type = "lead_quality" -> QualityPage
    [] type = "leakage" -> [wasted |-> Wasted, zombies |-> Zombies]

-----------------------------------------------------------------------------
(* Inbox and Score tab *)

\* _all_analyses_by_contact: the completed calls of each contact, oldest first.
\* telecaller is None for everybody's calls.
Grouped(telecaller) ==
  LET own == {i \in Completed : telecaller = None \/ calls[i].by = telecaller}
      of(c) == {i \in own : calls[i].contact = c}
  IN [c \in {calls[i].contact : i \in own} |->
        [k \in 1 .. Cardinality(of(c)) |->
           CHOOSE i \in of(c) : Cardinality({j \in of(c) : j <= i}) = k]]

\* get_inbox: one card per saved lead and per contact that was called;
\* telecaller is the caller when his organisation scopes leads strictly.
InboxPage(telecaller) ==
  LET grouped == Grouped(telecaller)
      saved   == IF telecaller = None THEN Leads ELSE OwnedBy(telecaller)
      results(c) == IF c \in DOMAIN grouped
                    THEN [k \in DOMAIN grouped[c] |-> calls[grouped[c][k]].result] ELSE <<>>
      cards   == [c \in saved \cup DOMAIN grouped |->
                    LeadCard(results(c), IF c \in saved THEN leads[c].status ELSE None)]
  IN [cards |-> cards, header |-> InboxHeader(cards)]

\* get_telecaller_score: the caller's calls, or the team's.
ScorePage(telecaller, days) ==
  TelecallerScore([i \in {j \in Completed : telecaller = None \/ calls[j].by = telecaller} |-> calls[i]],
                  now, 2 * Max({1, days}))

\* get_call_score: the rings of one call, each with its change since the
\* contact's call before; columns that were never filled show as zeros.  All are
\* integers: the telecaller's tenths are rounded.
CallScorePage(i, days) ==
  LET call    == calls[i]
      history == Grouped(None)
      before  == IF call.contact \notin DOMAIN history THEN {}
                 ELSE {j \in Range(history[call.contact]) : j < i}
      prev    == IF i \notin Completed \/ before = {} THEN None ELSE Max(before)
      shown(j) == IF calls[j].result = None THEN EmptyResult ELSE calls[j].result
      mood(j) == SentimentScore(shown(j).arc)
      total(j) == shown(j).total
      bant(j) == shown(j).bant
      trend(value(_)) == IF prev = None THEN None ELSE ScoreTrend(value(i), value(prev))
      tele    == TelecallerScore([j \in By(call.by) \cap Completed |-> calls[j]],
                                 now, 2 * Max({1, days}))
  IN IF call.status \notin {"completed", "not_relevant", "failed"} THEN None
     ELSE [call      |-> CallScore(total(i), bant(i), mood(i)),
           overall   |-> [value |-> total(i), trend |-> trend(total)],
           quality   |-> [value |-> bant(i), trend |-> trend(bant)],
           sentiment |-> [value |-> mood(i), trend |-> trend(mood)],
           telecaller |-> [value |-> RoundDiv(tele.score, 10),
                           trend |-> IF tele.trend = None THEN None ELSE RoundDiv(tele.trend, 10)],
           breakdown |-> shown(i).dims,
           timeline  |-> Timeline(call.turns, shown(i).arc)]
-----------------------------------------------------------------------------
(* Properties *)

Ranges == {<<None, None>>, <<Today - 1, Today - 1>>}

\* The pages that show one telecaller show the same numbers: the list and the
\* detail page for every range, the status board, the Manage Team page (which
\* says nothing rather than 0 when no call was scored), the call log, and the
\* ring on each of his calls, which is his score rounded to an integer.
TelecallerPagesAgree ==
  /\ \A r \in Ranges :
       LET list == PerformancePage(r[1], r[2]).telecallers
       IN \A t \in Telecallers :
            /\ list[t] = DetailPage(t, r[1], r[2]).metrics
            /\ list[t].calls = CallLogPage(t, r[1], r[2], 0, 50).total
  /\ LET board == StatusPage  manage == TeamPage
     IN \A t \in Telecallers :
          LET one == DetailPage(t, None, None)  status == board[t]  team == manage[t]
              score == ScorePage(t, TrendDays)
          IN /\ status.calls = one.metrics.calls /\ status.quality = one.metrics.quality
             /\ status.trend = one.metrics.trend /\ status.leads = Cardinality(one.leads)
             /\ team.calls = one.metrics.calls
             /\ team.quality = IF By(t) \cap Completed = {} THEN None ELSE one.metrics.quality
             /\ team.leads >= status.leads + status.closedWon
             /\ one.metrics.trend # None => <<"silent", "High">> \notin CoachingQueue(t)
             /\ \A i \in By(t) : LET page == CallScorePage(i, TrendDays) IN
                   page # None =>
                     /\ page.telecaller.value = RoundDiv(score.score, 10)
                     /\ page.telecaller.trend = IF score.trend = None THEN None
                                                ELSE RoundDiv(score.trend, 10)

\* The pages that show leads and money: the hot leads of the home page are those
\* of the quality page, an inbox card ends with the verdict the quality page
\* counts, the month's revenue is the goal's and the sum of its days on the
\* chart, the weekly report lists what the insights count, and who is behind is
\* outdone by a colleague.
OfficePagesAgree ==
  /\ Snapshot(None, None).hot = QualityPage.verdicts["Hot"]
  /\ LET cards == InboxPage(None).cards
     IN \A c \in DOMAIN LatestVerdicts : cards[c].verdict = LatestVerdicts[c]
  /\ LET board == BoardPage
     IN \A c \in Leads :
          (\A i \in Rows : calls[i].contact = c => calls[i].status # "not_relevant")
            => board[c].score = LeadDetailPage(c).score
  /\ \A range \in {1, 2 * MonthDays} :
       LET page == RevenuePage(range)
       IN /\ page.mtd = GoalPage.mtd
          /\ range >= Elapsed => page.mtd = Total([d \in MonthStart .. Today |-> page.series[d]])
          /\ \A d \in DOMAIN page.series : page.series[d] = OnDay(d)
          /\ Target \notin {None, 0} => page.on + page.off = Elapsed
  /\ LET insights == Insights  weekly == Preview("weekly_summary")
         list == PerformancePage(None, None).telecallers
     IN /\ insights.wastage = weekly.wasted /\ insights.zombie = weekly.zombies
        /\ \A t \in insights.behind : \E u \in Telecallers : list[u].quality > list[t].quality

\* One number of the business is one number on every page, but for the rounding
\* of a telecaller's score on the page of a call (the Manage Team page and the
\* performance page once disagreed on a telecaller's quality), whatever
\* calls land late, are judged irrelevant, run again or deleted, and however
\* leads are closed, reopened, priced and handed on around a month's end.
PagesAgree == TelecallerPagesAgree /\ OfficePagesAgree

\* Whatever the model answers, a stored lead score and a stored quality are
\* percentages: every band, bucket and average above counts on it.
ScoresInRange ==
  \A i \in Rows : calls[i].result # None =>
    calls[i].result.bant \in 0 .. 100 /\ calls[i].result.total \in 0 .. 100

\* Every scored contact is in one score band and under one verdict; every open
\* lead in one age bucket; every contact in one bucket of the inbox; every call
\* of the last days on one day of the chart (one dated after today is on none).
\* A lead left alone for longer than both thresholds is listed as wasted or as a
\* zombie, unless it was called and nevertheless left in New.  A score is a
\* percentage; every turn of a call is in a window whose sentiment is asked for,
\* and every turn the answers give one for stands in one slice of the timeline.
NothingUncounted ==
  /\ \A c \in DOMAIN LatestScores :
       Cardinality({b \in Bands : b[1] <= LatestScores[c] /\ LatestScores[c] <= b[2]}) = 1
  /\ LET page == BandsPage
     IN Total([b \in Bands |-> page[b].count]) = Cardinality(DOMAIN LatestScores)
  /\ Total(QualityPage.verdicts) = Cardinality(DOMAIN LatestScores)
  /\ Total(AgeingPage) = Cardinality(Open)
  /\ \A t \in Telecallers \cup {None} :
       LET inbox == InboxPage(t)
       IN Total(inbox.header.buckets) = Cardinality(DOMAIN inbox.cards)
  /\ \A t \in Telecallers :
       Total(DetailPage(t, None, None).daily)
         = Cardinality({i \in By(t) : Day(calls[i].at) > Today - TrendDays
                                         /\ Day(calls[i].at) <= Today})
  /\ \A c \in Open :
       /\ DaysSince(leads[c].updated) >= Alerts.wastage_days
       /\ DaysSince(leads[c].updated) >= Alerts.zombie_days
       => \/ c \in Wasted \cup Zombies
          \/ leads[c].stage = "New" /\ \E i \in Rows : calls[i].contact = c
  /\ ScoresInRange
  /\ \A i \in Rows : calls[i].result # None =>
       LET call == calls[i]  slices == Timeline(call.turns, call.result.arc)
       IN /\ LET page == CallScorePage(i, TrendDays) IN page # None => page.call \in 0 .. 100
          /\ LET asked == Windows(Len(call.turns))
             IN UNION {asked[w] : w \in DOMAIN asked} = DOMAIN call.turns
          /\ \A t \in DOMAIN call.result.arc :
               Cardinality({s \in DOMAIN slices : t \in slices[s].turns}) = 1
=============================================================================
