-------------------------- MODULE MCResponseWorkflow --------------------------
(***************************************************************************)
(* ResponseWorkflow for TLC: answers of up to six function calls under a   *)
(* ceiling of four, and feeds of up to three rows.                         *)
(***************************************************************************)
EXTENDS ResponseWorkflow, SequencesExt

MCCall(t, v) == [tool |-> t, valid |-> v, confident |-> FALSE, sound |-> FALSE]

MCPlan == {[MCCall(Plan, TRUE) EXCEPT !.confident = c, !.sound = s] : c, s \in BOOLEAN}

MCRequest ==
  {MCCall(t, TRUE) : t \in Tool} \cup {MCCall("request_source_quarantine", FALSE)}

\* With the plan before or after the requests, twice or not at all.
MCAnswer ==
  LET requests == BoundedSeq(MCRequest, 4) IN
  UNION {{<<p>> \o s, Append(s, p), <<p, p>> \o s, s} : p \in MCPlan, s \in requests}

MCRow ==
  {[event |-> e, related |-> TRUE, valid |-> TRUE, at |-> t] : e \in 1..3, t \in 1..2}
  \cup {[event |-> 4, related |-> FALSE, valid |-> TRUE, at |-> 1],
         [event |-> 2, related |-> TRUE, valid |-> FALSE, at |-> 1]}

MCFeed == BoundedSeq(MCRow, 3)
=============================================================================
