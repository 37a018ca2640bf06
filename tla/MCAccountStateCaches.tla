------------------------ MODULE MCAccountStateCaches ------------------------
EXTENDS AccountStateCaches

MCAddrs == 1..5
MCMaxEdits == 1

Q(kind, patch, view) == [kind |-> kind, mode |-> "policy", patch |-> patch, view |-> view]
\* The run-stats session, Boss Waves with its own cards and with those of
\* another profile, and a checkpoint, whose state dies and leaves its address
\* to the next: more keys than the LRU holds.
MCWarmQueries ==
  {Q("stats", Unpatched, "start"), Q("boss", Unpatched, "start"), Q("boss", "cards", "start"),
   Q("checkpoint", Unpatched, "start")}
=============================================================================
