----------------------------- MODULE MCTrajectory -----------------------------
(***************************************************************************)
(* Sessions for TLC: three traces in two partitions, in three shapes       *)
(* (agents calling agents, a tool call in between, a cycle of parent       *)
(* links), and one long flat session in one partition, with more turns     *)
(* than the history holds.                                                 *)
(***************************************************************************)
EXTENDS Trajectory, TLC

CONSTANTS t1, t2, t3, t4, t5, t6, t7, p1, p2

Chain(a, b, c) == a :> NoParent @@ b :> a @@ c :> b
AllLlm(S) == [t \in S |-> "llm"]

Agents ==
  [parent |-> Chain(t1, t2, t3), kind |-> AllLlm({t1, t2, t3}),
   backlog |-> p1 :> <<t1, t3>> @@ p2 :> <<t2>>,
   late |-> {t2}, scores |-> {0, 100}]
ToolBetween == [Agents EXCEPT !.kind[t2] = "tool"]
Cycle == [Agents EXCEPT !.parent[t1] = t2]

Flat(traces, S) ==
  [parent |-> [t \in S |-> NoParent], kind |-> AllLlm(S),
   backlog |-> p1 :> traces @@ p2 :> <<>>,
   late |-> {}, scores |-> {0, 50, 100}]

MCSessions ==
  {Agents, ToolBetween, Cycle,
   Flat(<<t1, t2, t3, t4, t5, t6>>, {t1, t2, t3, t4, t5, t6})}

(* Long enough for a ramp behind clean turns.                              *)
LongSessions ==
  {Flat(<<t1, t2, t3, t4, t5, t6, t7>>, {t1, t2, t3, t4, t5, t6, t7})}

(* An agent that calls a second agent through a tool.                      *)
ToolSessions ==
  {[parent |-> Chain(t1, t2, t3) @@ t4 :> t3,
    kind |-> [t \in {t1, t2, t3, t4} |-> IF t = t2 THEN "tool" ELSE "llm"],
    backlog |-> p1 :> <<t1, t2, t3, t4>> @@ p2 :> <<>>,
    late |-> {}, scores |-> {0, 100}]}
=============================================================================
