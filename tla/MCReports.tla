------------------------------ MODULE MCReports ------------------------------
(* A small instance of Reports: short windows, answers of the model in, at    *)
(* and beyond the range of every score, which leave turns out or name turns   *)
(* there are none of, and a phone whose clock may be ahead.                   *)
EXTENDS Reports, TLC

\* A call of three windows, some of whose turns have a time.
MCTranscripts == {[i \in 1 .. 6 |-> [sec |-> IF i \in {1, 3, 6} THEN 10 * i ELSE None]]}

Mood(role, score) == [role |-> role, score |-> score]

Raw(score, verdict, relevant, moods) ==
  [d \in Bant \cup Dimensions |-> score] @@
  [verdict |-> verdict, buying |-> relevant, relevant |-> relevant, moods |-> moods]

MCAnswers ==
  {None,
   Raw(1999, "Hot", TRUE, <<1 :> Mood("AGENT", 25) @@ 3 :> Mood("USER", 4),
                            3 :> Mood("AGENT", -9) @@ 4 :> Mood("USER", 7), None>>),
   Raw(105, "Lukewarm", TRUE, <<2 :> Mood(None, -3) @@ 9 :> Mood("USER", None), None,
                                [t \in 5 .. 6 |-> Mood("AGENT", 10 * t - 55)]>>),
   Raw(None, "Junk", FALSE, <<None, [t \in 0 .. 5 |-> Mood("AGENT", -8)],
                              6 :> Mood("AGENT", 2)>>)}

MCBackdates == {-1, 2}

MCDefaults == [wastage_days |-> 3, zombie_days |-> 7, performance_gap |-> 15, quality_floor |-> 40]
MCSaved    == [wastage_days |-> 1, zombie_days |-> 1, quality_floor |-> -1]

Alike == Permutations(Telecallers) \cup Permutations(Contacts)
=============================================================================
