-------------------------- MODULE MCBossWaveSearch -------------------------
(* Runs of up to four rows, at waves 2, 5, 8, 11; horizons 3, 6, 9 and 12. *)
EXTENDS BossWaveSearch

Rows == 1 .. 4
Always(v) == [k \in Rows |-> v]

(* A reference of -1 is a request without an open terminal pressure.       *)
Request(v, e, s, h, d, c, l, f) ==
  [ verdict |-> v, end |-> e, stop |-> s, highTier |-> h, defense |-> d, contact |-> c,
    limits |-> l, open |-> f >= 0, reference |-> IF f < 0 THEN 0 ELSE f ]

(* Every run of verdicts, with or without limits and references.           *)
Runs ==
  { Request(v, 12, s, TRUE, d, TRUE, l, f) :
      v \in [Rows -> Verdict], s \in BOOLEAN, d \in BOOLEAN, l \in { {}, {4, 8} },
      f \in {-1, 0, 5, 9} }

(* End waves below, at and between the horizons; low tiers; no contact.    *)
Ends ==
  { Request([Always("survives") EXCEPT ![3] = w], e, s, h, d, c, {}, f) :
      w \in Verdict, e \in {0, 1, 3, 9, 10, 12}, s \in BOOLEAN, h \in BOOLEAN,
      d \in BOOLEAN, c \in BOOLEAN, f \in {-1, 0, 8} }

MCRequests == Runs \cup Ends
=============================================================================
