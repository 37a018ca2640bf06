---------------------------- MODULE InputPromise ----------------------------
(***************************************************************************)
(* What a caller of the run-stats, Boss Waves and checkpoint queries is    *)
(* promised, with no cache in sight.  Two input files are edited at any    *)
(* time.  A query, once asked, is answered from one content of each file,  *)
(* and that content was the file's content at some moment between the      *)
(* question and the answer; or it fails.                                   *)
(***************************************************************************)
EXTENDS Naturals

CONSTANTS Queries,    \* what may be asked: records with a mode, patch and view
          MaxEdits    \* bound: edits of the two files together

VARIABLES version,    \* file |-> number of its edits so far
          open,       \* the question being answered, or NoQuestion
          reply       \* the answer to the last question

pvars == <<version, open, reply>>

Files == {"ids", "manual"}
NoQuestion == [open |-> FALSE]
NoReply == [kind |-> "none"]
Failure == [kind |-> "error"]

\* The answer to q read from the contents in seen.
Answer(q, seen) ==
  [kind |-> "value", ids |-> seen["ids"], manual |-> seen["manual"],
   mode |-> q.mode, patch |-> q.patch, view |-> q.view]

PInit ==
  /\ version = [f \in Files |-> 0]
  /\ open = NoQuestion
  /\ reply = NoReply

Edit(f) ==
  /\ version["ids"] + version["manual"] < MaxEdits
  /\ version' = [version EXCEPT ![f] = @ + 1]
  /\ UNCHANGED <<open, reply>>

Ask(q) ==
  /\ open = NoQuestion
  /\ open' = [open |-> TRUE, query |-> q, since |-> version]
  /\ reply' = NoReply
  /\ UNCHANGED version

Tell ==
  /\ open # NoQuestion
  /\ \E i \in open.since["ids"]..version["ids"], m \in open.since["manual"]..version["manual"] :
        reply' = Answer(open.query, [f \in Files |-> IF f = "ids" THEN i ELSE m])
  /\ open' = NoQuestion
  /\ UNCHANGED version

Fail ==
  /\ open # NoQuestion
  /\ reply' = Failure
  /\ open' = NoQuestion
  /\ UNCHANGED version

PNext ==
  \/ \E f \in Files : Edit(f)
  \/ \E q \in Queries : Ask(q)
  \/ Tell
  \/ Fail

\* Every question is answered.
PSpec == PInit /\ [][PNext]_pvars /\ WF_pvars(Tell \/ Fail)
=============================================================================
