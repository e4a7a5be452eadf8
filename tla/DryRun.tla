--------------------------------- MODULE DryRun ---------------------------------
(***************************************************************************)
(* The dry run of a healing flow.  It walks the saved graph as the executor *)
(* would, but with answers made up for the nodes that act, and reports what *)
(* became of every node: run, or skipped because another branch was taken.  *)
(* Its routing and its idea of what a branch leaves out are code of its own *)
(* next to the executor's, which is FlowGraph.                              *)
(*                                                                         *)
(* What a node does with its data is left out, but not that it may fail.    *)
(* Saving a flow validates more than its edges (types, duplicate ids, the   *)
(* rows its nodes name): those rows are a matter of References.             *)
(***************************************************************************)
EXTENDS Null, Naturals, Sequences

CONSTANTS NodeIds,  \* what the nodes of a flow may be called
          Drafts    \* flows somebody wants to save

ASSUME DraftConstants ==
  /\ None \notin NodeIds
  /\ \A d \in Drafts : /\ DOMAIN d.type \subseteq NodeIds
                       /\ d.trueTarget \in NodeIds \cup {None}
                       /\ DOMAIN d.edges \subseteq Nat

VARIABLES
  flow,      \* the flow of the dry run: its nodes' types, its edges in order, and
             \* true_target of its condition nodes
  at,        \* the node to run next
  handles,   \* the nodes run: the output handle each was left by, or "error"
  skipped,   \* the nodes reported as skipped
  last       \* the node run last

trial == <<flow, at, handles, skipped, last>>

\* A flow is saved when its edges join nodes it has.
validateFlowGraph(d) ==
  \A i \in DOMAIN d.edges : {d.edges[i].source, d.edges[i].target} \subseteq DOMAIN d.type

Ran == DOMAIN handles
visited == Ran \cup skipped

TrialTypeOK ==
  /\ DOMAIN flow.type \subseteq NodeIds /\ flow.trueTarget \in NodeIds \cup {None}
  /\ at \in NodeIds \cup {None}
  /\ Ran \subseteq NodeIds
  /\ \A n \in Ran : handles[n] \in {"error", "default", "approved", "rejected", "success", "true"}
  /\ skipped \subseteq NodeIds
  /\ last \in NodeIds \cup {None}

\* It begins at the start node or at from_node_id.
TrialInit ==
  /\ flow \in {d \in Drafts : validateFlowGraph(d)}
  /\ at \in DOMAIN flow.type
  /\ handles = <<>> /\ skipped = {} /\ last = None
-----------------------------------------------------------------------------
(* Routing *)

HandleOf(e) == IF e.handle = "" THEN "default" ELSE e.handle

Leaving(n) == {i \in DOMAIN flow.edges : flow.edges[i].source = n}

\* The node the first of some edges leads to, if it exists.
First(I) ==
  IF I = {} THEN None
  ELSE LET n == flow.edges[CHOOSE i \in I : \A j \in I : i <= j].target
       IN  IF n \in DOMAIN flow.type THEN n ELSE None

FindNext(n) == First(Leaving(n))

\* An edge of that handle, else one drawn without.
FindNextByHandle(n, h) ==
  LET named   == {i \in Leaving(n) : HandleOf(flow.edges[i]) = h}
      unnamed == {i \in Leaving(n) : flow.edges[i].handle = ""}
  IN  First(IF named # {} THEN named ELSE unnamed)

\* No edge leads out of T but to nodes of avoid.
Closed(T, avoid) ==
  \A i \in DOMAIN flow.edges :
    flow.edges[i].source \in T => flow.edges[i].target \in T \cup avoid

\* Nodes reached from those of S without entering a node of avoid.
Reached(S, avoid) ==
  {n \in NodeIds : \A T \in SUBSET NodeIds : S \ avoid \subseteq T /\ Closed(T, avoid) => n \in T}

collectAllDownstreamNodes(n) == Reached({n}, {})

\* Mutant: nodes that the branch taken reaches as well are left out too.
SkippedOffPath(n, h) ==
  Reached({flow.edges[i].target : i \in {j \in Leaving(n) : flow.edges[j].handle \notin {h, ""}}},
          visited \cup {n})

\* The nodes of the branches not taken, but for those the branch taken leads to.
getSkippedBranchNodes(n, h) ==
  LET targets(I) == {flow.edges[i].target : i \in I}
      taken  == {i \in Leaving(n) : HandleOf(flow.edges[i]) = h}
      others == {i \in Leaving(n) \ taken : flow.edges[i].handle # ""}
      path   == UNION {collectAllDownstreamNodes(m) : m \in targets(taken)}
  IN  Reached(targets(others), visited \cup {n} \cup path)

\* A condition that names a target goes nowhere else.  A branching node that has no edge
\* for its outcome goes on as others do.
nextDryRunNode(n, h) ==
  LET branch == IF flow.type[n] \in {"approval", "execution"} THEN FindNextByHandle(n, h) ELSE None
  IN  CASE flow.type[n] = "condition" /\ flow.trueTarget # None ->
             IF flow.trueTarget \in DOMAIN flow.type THEN flow.trueTarget ELSE None
        [] branch # None -> branch
        [] OTHER -> FindNext(n)
-----------------------------------------------------------------------------
(* The walk *)

\* An approval is as mocked, an execution succeeds, a condition holds.
Answers(n) ==
  {"error"} \cup CASE flow.type[n] = "approval"  -> {"approved", "rejected"}
                   [] flow.type[n] = "execution" -> {"success"}
                   [] flow.type[n] = "condition" -> {"true"}
                   [] OTHER -> {"default"}

RunNode(h) ==
  /\ at # None /\ at \notin visited
  /\ h \in Answers(at) \ {"error"}
  /\ handles' = [n \in Ran \cup {at} |-> IF n = at THEN h ELSE handles[n]]
  /\ skipped' = skipped \cup (IF flow.type[at] \in {"approval", "execution", "condition"}
                              THEN getSkippedBranchNodes(at, h) ELSE {})
  /\ at' = IF flow.type[at] = "end" THEN None ELSE nextDryRunNode(at, h)
  /\ last' = at
  /\ UNCHANGED flow

\* An error ends the walk; what is downstream is reported skipped.
RunFails ==
  /\ at # None /\ at \notin visited
  /\ handles' = [n \in Ran \cup {at} |-> IF n = at THEN "error" ELSE handles[n]]
  /\ skipped' = skipped \cup (collectAllDownstreamNodes(at) \ (visited \cup {at}))
  /\ at' = None /\ last' = at
  /\ UNCHANGED flow

TrialNext == \/ \E h \in {"default", "approved", "rejected", "success", "true"} : RunNode(h)
             \/ RunFails

TrialSpec == TrialInit /\ [][TrialNext]_trial
-----------------------------------------------------------------------------
(* Properties *)

Executor == INSTANCE FlowGraph
              WITH Nodes <- DOMAIN flow.type, TypeOf <- flow.type, Edges <- flow.edges

\* Where the executor goes from a node it leaves by that handle.
ExecutorNext(n, h) ==
  CASE flow.type[n] = "end" -> None
    [] flow.type[n] \in {"approval", "execution"} -> Executor!FindNextNodeByHandle(n, h)
    [] OTHER -> Executor!FindNextNode(n)

\* No node branches on a condition, and every edge out of a branching node names one of
\* its outcomes.
BranchesNamed ==
  /\ \A n \in DOMAIN flow.type : flow.type[n] # "condition"
  /\ \A i \in DOMAIN flow.edges :
       LET e == flow.edges[i]
       IN  CASE flow.type[e.source] = "approval"  -> e.handle \in {"approved", "rejected"}
             [] flow.type[e.source] = "execution" -> e.handle \in {"success", "partial", "failed"}
             [] OTHER -> TRUE

\* A dry run that meets no error takes the path the executor takes with the same
\* outcomes, up to the first node it comes back to: it goes on exactly where the executor
\* goes, stops where that stops, and calls no node skipped that the executor runs.
DryRunFollowsExecutor ==
  last # None /\ handles[last] # "error" /\ BranchesNamed =>
    LET next == ExecutorNext(last, handles[last])
    IN  IF next = None THEN at = None \/ at \in visited
        ELSE at = next /\ next \notin skipped
=============================================================================
