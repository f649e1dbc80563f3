----------------------------- MODULE StateGraph -----------------------------
(***************************************************************************)
(* The graph builder (graph/state_graph.go, graph/graph.go): what AddNode, *)
(* AddEdge, AddJoinEdge and the routing options leave in the compiled      *)
(* Graph that the executors read.                                          *)
(*                                                                         *)
(* A description d of a graph is a record                                  *)
(*   nodes, entry     the node ids and the entry point                     *)
(*   edges            sequence of <<from, to>>          (AddEdge)          *)
(*   joins            sequence of <<starts, to>>        (AddJoinEdge)      *)
(*   routes[n]        the sets of targets n's conditional edge may return  *)
(*   gotos[n]         the targets of the Commands n may return             *)
(*   fanouts[n]       the target lists of the []*Command n may return      *)
(*   before, after    nodes with WithInterruptBefore / WithInterruptAfter  *)
(*   interrupting     nodes that call graph.Interrupt                      *)
(*   failing          nodes that may return an error (or panic), or whose  *)
(*                    conditional edge or barrier may fail behind them     *)
(*   answered         nodes whose before callback may return the result    *)
(***************************************************************************)
EXTENDS Sequences, SequencesExt, FiniteSets, Integers

\* The virtual end node: it is a legal target and is never executed.
CONSTANT End

\* Channel names: "trigger:n", "branch:to:n" and "join:to:from:<starts>".
TriggerChannel(n) == <<"trigger", n>>
BranchChannel(n) == <<"branch:to", n>>
JoinChannel(to, starts) == <<"join", to, starts>>

(***************************************************************************)
(* channels   every channel name the graph can ever use                    *)
(* declared   the channels that exist once the graph is built: AddNode     *)
(*            declares trigger:n, AddEdge branch:to:n, AddJoinEdge join... *)
(* mapped     the channels with an entry in triggerToNodes once the graph  *)
(*            is built.  trigger:n is not among them, and neither is the   *)
(*            branch channel of a conditional target: both are registered  *)
(*            by the executor when such a route is first taken.            *)
(* writers[n] the static channel writes of node n, in the order the edges  *)
(*            were added                                                   *)
(* triggers[n] the channels n subscribes to (Node.triggers)                *)
(***************************************************************************)
Channels(d) ==
  {TriggerChannel(n) : n \in d.nodes}
    \cup {BranchChannel(n) : n \in d.nodes \cup {End}}
    \cup {JoinChannel(d.joins[i][2], d.joins[i][1]) : i \in DOMAIN d.joins}

AddEdgeChannels(d) ==
  {BranchChannel(d.entry)} \cup {BranchChannel(d.edges[i][2]) : i \in DOMAIN d.edges}

AddJoinEdgeChannels(d) ==
  {JoinChannel(d.joins[i][2], d.joins[i][1]) : i \in DOMAIN d.joins}

AddNodeChannels(d) == {TriggerChannel(n) : n \in d.nodes}

Writers(d, n) ==
  LET edges == SelectSeq(d.edges, LAMBDA e : e[1] = n)
      joins == SelectSeq(d.joins, LAMBDA j : n \in j[1])
  IN  [i \in DOMAIN edges |-> BranchChannel(edges[i][2])]
        \o [i \in DOMAIN joins |-> JoinChannel(joins[i][2], joins[i][1])]

Triggers(d, n) ==
  {c \in AddEdgeChannels(d) \cup AddJoinEdgeChannels(d) \cup AddNodeChannels(d) : c[2] = n}

\* The compiled graph.
Compile(d) ==
  [nodes        |-> d.nodes,
   entry        |-> d.entry,
   channels     |-> Channels(d),
   declared     |-> AddNodeChannels(d) \cup AddEdgeChannels(d) \cup AddJoinEdgeChannels(d),
   mapped       |-> AddEdgeChannels(d) \cup AddJoinEdgeChannels(d),
   target       |-> [c \in Channels(d) |-> c[2]],
   expected     |-> [c \in Channels(d) |-> IF c \in AddJoinEdgeChannels(d) THEN c[3] ELSE {}],
   writers      |-> [n \in d.nodes |-> Writers(d, n)],
   triggers     |-> [n \in d.nodes |-> Triggers(d, n)],
   routes       |-> d.routes,
   gotos        |-> d.gotos,
   fanouts      |-> d.fanouts,
   before       |-> d.before,
   after        |-> d.after,
   interrupting |-> d.interrupting,
   failing      |-> d.failing,
   answered     |-> d.answered]
=============================================================================
