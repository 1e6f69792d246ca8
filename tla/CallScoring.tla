----------------------------- MODULE CallScoring -----------------------------
(***************************************************************************)
(* From a transcript to numbers, and from the numbers of several calls to  *)
(* the numbers of a contact or a telecaller:                               *)
(*   LeadAnalyzer.analyze and what it assembles, app/utils/lead_analyzer.py*)
(*   the deterministic aggregations of    app/utils/lead_intelligence.py   *)
(*                                                                         *)
(* All operators, no state: module Reports supplies the rows.  Fractions   *)
(* are kept as integers: a raw score of the model, a sentiment and an      *)
(* average rounded to one decimal are counted in tenths.                   *)
(*                                                                         *)
(* What the model answers is a record: one raw score per dimension, a      *)
(* verdict, whether it heard a buying signal, whether the call is relevant,*)
(* and per window of the transcript the turns it gives a sentiment for, by *)
(* their numbers, each with whose turn it takes it for and a score; None   *)
(* when that window's request failed.                                      *)
(***************************************************************************)
EXTENDS Integers, Sequences, FiniteSetsExt

CONSTANTS
  None,          \* null: no number, no row, no trend
  WindowTurns,   \* _CHUNK_TURNS
  Overlap,       \* _CHUNK_OVERLAP
  Slices         \* segments of the sentiment timeline

ASSUME ScoringAssumption ==
  /\ WindowTurns \in Nat \ {0} /\ Overlap \in Nat /\ Slices \in Nat \ {0}
  /\ None \notin Int

Bant       == {"budget", "authority", "need", "timeline"}
Skills     == {"opening", "discovery", "pitch", "objection_handling", "closing"}
Dimensions == Skills \cup {"punctuality"}
Verdicts   == {"Hot", "Warm", "Cold", "Junk"}

-----------------------------------------------------------------------------
(* Numbers *)

\* Python's round(n / d), d > 0: to the nearest, ties to the even neighbour.
RoundDiv(n, d) ==
  LET q == n \div d
      r == n % d
  IN IF 2 * r < d \/ (2 * r = d /\ q % 2 = 0) THEN q ELSE q + 1

Total(f) == MapThenSumSet(LAMBDA i : f[i], DOMAIN f)

Average(f) == RoundDiv(Total(f), Cardinality(DOMAIN f))

\* _avg, in tenths
AverageTenths(f) == IF DOMAIN f = {} THEN None
                    ELSE RoundDiv(10 * Total(f), Cardinality(DOMAIN f))

\* Mutation: what the model says is trusted to be in range.
ClampBelow(v, lo, hi) == IF v = None THEN lo ELSE IF RoundDiv(v, 10) < lo THEN lo ELSE RoundDiv(v, 10)

\* A raw score is rounded and forced into its range; no number counts as the least.
Clamp(v, lo, hi) ==
  IF v = None THEN lo
  ELSE LET n == RoundDiv(v, 10) IN IF n < lo THEN lo ELSE IF n > hi THEN hi ELSE n

-----------------------------------------------------------------------------
(* Windows of a transcript and the sentiment of its turns *)

\* _chunk: the windows of n turns.
Windows(n) ==
  IF n <= WindowTurns THEN << 1 .. n >>
  ELSE LET step  == IF WindowTurns > Overlap THEN WindowTurns - Overlap ELSE 1
           count == (n + step - 1) \div step
       IN [w \in 1 .. count |->
             {t \in 1 .. n : t > (w - 1) * step /\ t <= (w - 1) * step + WindowTurns}]

\* A sentiment is forced into -1 .. 1.
Unit(v) == IF v > 10 THEN 10 ELSE IF v < -10 THEN -10 ELSE v

\* _norm_arc: who spoke counts as the prospect unless the model says otherwise;
\* no score counts as 0.
NormArc(item) ==
  [role  |-> IF item.role = None THEN "USER" ELSE item.role,
   score |-> IF item.score = None THEN 0 ELSE Unit(item.score)]

\* _sentiment, over n turns: every turn number that an answered window lists,
\* with what the first such window says of it.  A window may leave turns out, and
\* may name turns that are not its own, or nobody's.
Arc(n, moods) ==
  LET answered == {w \in DOMAIN Windows(n) : moods[w] # None}
      heard(t) == {w \in answered : t \in DOMAIN moods[w]}
  IN [t \in UNION {DOMAIN moods[w] : w \in answered} |-> NormArc(moods[Min(heard(t))][t])]

-----------------------------------------------------------------------------
(* One call: LeadAnalyzer *)

Range20(d) == IF d = "punctuality" THEN 10 ELSE 20

\* Four BANT scores of up to 25 are summed; so are the five skills of up to 20,
\* punctuality is kept beside the total.
Assemble(raw, arc) ==
  LET bant == [d \in Bant |-> Clamp(raw[d], 0, 25)]
      dims == [d \in Dimensions |-> Clamp(raw[d], 0, Range20(d))]
  IN [bant     |-> bant["budget"] + bant["authority"] + bant["need"] + bant["timeline"],
      verdict  |-> IF raw.verdict \in Verdicts THEN raw.verdict ELSE "Cold",
      dims     |-> dims,
      total    |-> dims["opening"] + dims["discovery"] + dims["pitch"]
                     + dims["objection_handling"] + dims["closing"],
      arc      |-> arc,
      buying   |-> raw.buying,
      relevant |-> raw.relevant]

\* _empty_result: every field is there, and zero.
EmptyResult ==
  [bant |-> 0, verdict |-> "Junk", dims |-> [d \in Dimensions |-> 0], total |-> 0,
   arc |-> <<>>, buying |-> FALSE, relevant |-> TRUE]

\* analyze: nothing was said: the empty result, without asking the model.  The
\* scoring request failed in spite of its retries: None.  A failed digest of a
\* long call is scored as an empty one, a failed sentiment window left out.
Analyze(turns, raw) ==
  IF turns = <<>> THEN EmptyResult
  ELSE IF raw = None THEN None
  ELSE Assemble(raw, Arc(Len(turns), raw.moods))

-----------------------------------------------------------------------------
(* One call: the Score tab.  A turn is [sec]; sec is None when its          *)
(* timestamp cannot be read.                                                *)

\* _avg_sentiment: the arc entries that count, the prospect's if there are any.
Felt(arc) ==
  LET his == {t \in DOMAIN arc : arc[t].role = "USER"}
      of  == IF his # {} THEN his ELSE DOMAIN arc
  IN [t \in of |-> arc[t].score]

SentimentScore(arc) ==
  LET felt == Felt(arc)
      n    == Cardinality(DOMAIN felt)
  IN IF n = 0 THEN 0 ELSE RoundDiv((Total(felt) + 10 * n) * 100, 20 * n)

SentimentLabel(arc) ==
  LET felt == Felt(arc)
      n    == Cardinality(DOMAIN felt)
  IN IF n = 0 THEN None
     ELSE IF Total(felt) > n THEN "positive"
     ELSE IF Total(felt) < -n THEN "negative" ELSE "neutral"

\* sentiment_timeline: the turns of the arc that fall into each slice of the
\* call.  The clock is used when it shows two different times; a turn without a
\* time or without a place in the transcript, and every turn without a clock, is
\* put at its rank.  All times are
\* multiplied by gaps so that ranks are integers, and by Slices when compared.
Timeline(turns, arc) ==
  LET points == DOMAIN arc
      gaps   == IF Cardinality(points) > 2 THEN Cardinality(points) - 1 ELSE 1
      sec(t) == IF t \in DOMAIN turns THEN turns[t].sec ELSE None
      known  == {sec(t) : t \in points} \ {None}
      clock  == Cardinality(known) >= 2
      end    == IF clock THEN Max(known) ELSE gaps
      rank(t) == Cardinality({u \in points : u < t})
      at(t)  == IF clock /\ sec(t) # None THEN sec(t) * gaps ELSE rank(t) * end
      inside(t, s) == /\ at(t) * Slices >= s * end * gaps
                      /\ at(t) * Slices < (s + 1) * end * gaps \/ s = Slices - 1
      off(t, s) == LET d == 2 * Slices * at(t) - (2 * s + 1) * end * gaps
                   IN IF d < 0 THEN -d ELSE d
      nearest(s) == {t \in points : \A u \in points :
                       off(t, s) < off(u, s) \/ (off(t, s) = off(u, s) /\ t <= u)}
      slice(s) == LET in == {t \in points : inside(t, s)}
                  IN IF in # {} THEN in ELSE nearest(s)
  IN IF points = {} THEN <<>>
     ELSE [i \in 1 .. Slices |->
             [turns |-> {t \in points : inside(t, i - 1)},
              mood  |-> [sum |-> Total([t \in slice(i - 1) |-> arc[t].score]),
                         of  |-> Cardinality(slice(i - 1))]]]

\* sentiment_label of a slice's average
Band(mood) ==
  IF 100 * mood.sum <= -350 * mood.of THEN "frustrated"
  ELSE IF 100 * mood.sum <= -50 * mood.of THEN "cautious"
  ELSE IF 100 * mood.sum < 350 * mood.of THEN "neutral" ELSE "interested"

\* call_score: the weights of the missing rings are dropped.
CallScore(overall, quality, mood) ==
  LET parts == [overall |-> [v |-> overall, w |-> 45], quality |-> [v |-> quality, w |-> 30],
                sentiment |-> [v |-> mood, w |-> 25]]
      there == {p \in DOMAIN parts : parts[p].v # None}
  IN IF there = {} THEN 0
     ELSE RoundDiv(Total([p \in there |-> parts[p].v * parts[p].w]),
                   Total([p \in there |-> parts[p].w]))

ScoreTrend(now, before) == IF None \in {now, before} THEN None ELSE now - before

-----------------------------------------------------------------------------
(* One contact: the inbox card, from its results, oldest first *)

LeadScore(results) == IF results = <<>> THEN 0 ELSE Average([i \in DOMAIN results |-> results[i].bant])

HasBuySignal(results) == \E i \in DOMAIN results : results[i].buying

LastVerdict(results) == IF results = <<>> THEN None ELSE results[Len(results)].verdict

IntentBucket(results, status) ==
  LET score == LeadScore(results)
  IN CASE status = "new" \/ results = <<>> -> "new"
       [] OTHER ->
          IF LastVerdict(results) = "Hot" \/ score >= 70 THEN "high_intent"
          ELSE IF LastVerdict(results) \in {"Cold", "Junk"} \/ score < 25 THEN "cold"
          ELSE IF HasBuySignal(results) THEN "high_intent" ELSE "follow_up"

LeadTags(results) ==
  IF results = <<>> THEN {"NEW"}
  ELSE (CASE LastVerdict(results) = "Hot" -> {"HOT"}
          [] LastVerdict(results) = "Warm" -> {"WARM"}
          [] OTHER -> {})
       \cup (IF HasBuySignal(results) /\ LastVerdict(results) # "Hot" THEN {"HIGH INTENT"} ELSE {})
       \cup (IF LeadScore(results) >= 90 THEN {"PRIORITY"} ELSE {})

LeadCard(results, status) ==
  [score |-> LeadScore(results), bucket |-> IntentBucket(results, status),
   verdict |-> LastVerdict(results), tags |-> LeadTags(results), calls |-> Len(results)]

\* inbox_header, over the cards of a set of contacts
InboxHeader(cards) ==
  LET scored == {c \in DOMAIN cards : cards[c].score # 0}
  IN [leads   |-> Cardinality(DOMAIN cards),
      average |-> IF scored = {} THEN 0 ELSE Average([c \in scored |-> cards[c].score]),
      buckets |-> [b \in {cards[c].bucket : c \in DOMAIN cards} |->
                     Cardinality({c \in DOMAIN cards : cards[c].bucket = b})]]

-----------------------------------------------------------------------------
(* One telecaller *)

\* averaged_debrief_dimensions, over a family of debriefs (dims)
AveragedDimensions(debriefs) ==
  [d \in Dimensions |-> IF DOMAIN debriefs = {} THEN 0
                        ELSE Average([i \in DOMAIN debriefs |-> debriefs[i][d]])]

\* telecaller_score over a family of calls [at, result]; times and window in the
\* same unit.  A total of zero is no conversation and does not count.
TelecallerScore(rows, now, window) ==
  LET real    == {i \in DOMAIN rows : rows[i].result.total > 0}
      current == {i \in real : rows[i].at >= now - window}
      before  == {i \in real : rows[i].at >= now - 2 * window /\ rows[i].at < now - window}
      score(S) == AverageTenths([i \in S |-> rows[i].result.total])
      shown   == IF current # {} THEN score(current) ELSE score(real)
      quality == AverageTenths([i \in DOMAIN rows |-> rows[i].result.bant])
  IN [score   |-> IF shown = None THEN 0 ELSE shown,
      trend   |-> IF current = {} \/ before = {} THEN None ELSE score(current) - score(before),
      calls   |-> Cardinality(DOMAIN rows),
      quality |-> IF quality = None THEN 0 ELSE quality,
      hot     |-> Cardinality({i \in DOMAIN rows : rows[i].result.verdict = "Hot"})]
=============================================================================
