------------------------------ MODULE MCGraphs ------------------------------
(***************************************************************************)
(* The small graphs the executors are checked on.                          *)
(***************************************************************************)
EXTENDS StateGraph

\* A description with only nodes, an entry point, edges and joins.
Plain(nodes, entry, edges, joins) ==
  [nodes |-> nodes, entry |-> entry, edges |-> edges, joins |-> joins,
   routes |-> [n \in nodes |-> {<<>>}], gotos |-> [n \in nodes |-> {}],
   fanouts |-> [n \in nodes |-> {}], before |-> {}, after |-> {},
   interrupting |-> {}, failing |-> {}, answered |-> {}]

\* s fans out to a and b, and j waits for both.
DiamondShape ==
  Plain({"s", "a", "b", "j"}, "s", <<<<"s", "a">>, <<"s", "b">>, <<"j", End>>>>,
        <<<<{"a", "b"}, "j">>>>)

Diamond == Compile([DiamondShape EXCEPT !.failing = {"a"}])

\* The diamond with a breakpoint after one of the starts of the join.
DiamondBreakAfter == Compile([DiamondShape EXCEPT !.after = {"b"}])

\* s fans out to a and b, which go on to c and d.
ForkShape ==
  Plain({"s", "a", "b", "c", "d"}, "s",
        <<<<"s", "a">>, <<"s", "b">>, <<"a", "c">>, <<"b", "d">>, <<"d", End>>>>, <<>>)

\* Both branches ask a human in the same superstep.
ForkTwoInterrupts == Compile([ForkShape EXCEPT !.interrupting = {"a", "b"}])

\* r loops back through w, or leaves to e, by a conditional edge; w returns a
\* Command with GoTo.
RouterShape ==
  [Plain({"r", "w", "e"}, "r", <<<<"e", End>>>>, <<>>) EXCEPT
     !.routes["r"] = {<<BranchChannel("w")>>, <<BranchChannel("e")>>,
                      <<BranchChannel("w"), BranchChannel("e")>>},
     !.gotos["w"] = {TriggerChannel("r")}]

Router == Compile([RouterShape EXCEPT !.failing = {"e"}])

\* The router with a breakpoint before w and after e, whose r, which is alone in its
\* superstep, asks a human.
RouterPauses ==
  Compile([RouterShape EXCEPT !.before = {"w"}, !.after = {"e"}, !.interrupting = {"r"},
                          !.answered = {"w"}])

\* The router with a breakpoint before w and after e, which asks a human, perhaps
\* while w or r runs.
RouterAsks ==
  Compile([RouterShape EXCEPT !.before = {"w"}, !.after = {"e"}, !.interrupting = {"e"},
                          !.answered = {"w"}])

\* The diamond, whose s returns a list of Commands that runs a twice and b once.
DiamondFanOut ==
  Compile([Plain({"s", "a", "b", "j"}, "s", <<<<"j", End>>>>, <<<<{"a", "b"}, "j">>>>) EXCEPT
     !.fanouts["s"] = {<<"a", "a", "b">>}, !.routes["s"] = {}, !.failing = {"a"}])

\* s returns a list of Commands that runs w twice and v once; w goes on to t.
FanOutFailing ==
  Compile([Plain({"s", "w", "v", "t"}, "s", <<<<"w", "t">>>>, <<>>) EXCEPT
     !.fanouts["s"] = {<<"w", "w", "v">>, <<"v", "w">>}, !.routes["s"] = {},
     !.failing = {"w"}])

=============================================================================
