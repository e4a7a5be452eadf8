----------------------------- MODULE FlowGraph -----------------------------
(***************************************************************************)
(* The snapshot of a healing flow that an instance carries, and the        *)
(* routing the executor does on it: the first edge in list order wins, and *)
(* an output handle falls back on the default edge, or does not, depending *)
(* on which handle it is.                                                  *)
(***************************************************************************)
EXTENDS Integers, Sequences

CONSTANTS Nodes,   \* node identifiers
          TypeOf,  \* the type of each node
          Edges,   \* the edges in list order, [source, handle, target]
          None     \* nil: no node, no walker, no task, no run

NodeTypes == {"start", "task", "approval", "execution", "end"}

\* "" is an edge drawn without a handle.
Handles == {"", "default", "approved", "rejected", "success", "partial", "failed"}

ASSUME GraphConstants ==
  /\ TypeOf \in [Nodes -> NodeTypes]
  /\ None \notin Nodes
  /\ Edges \in Seq([source : Nodes, handle : Handles, target : Nodes])
-----------------------------------------------------------------------------
GetSourceHandle(e) == IF e.handle = "" THEN "default" ELSE e.handle

From(n) == {i \in DOMAIN Edges : Edges[i].source = n}

FirstTarget(I) ==
  IF I = {} THEN None
  ELSE Edges[CHOOSE i \in I : \A j \in I : i <= j].target

FindNextNode(n) == FirstTarget(From(n))

MatchNodeByHandle(n, h) ==
  FirstTarget({i \in From(n) : GetSourceHandle(Edges[i]) = h})

MatchDefaultNodeByHandle(n, h) ==
  IF h \in {"default", "rejected", "failed"} THEN None
  ELSE FirstTarget({i \in From(n) : GetSourceHandle(Edges[i]) = "default"})

MatchUnnamedNodeByHandle(n, h) ==
  IF h \notin {"", "default", "success"} THEN None
  ELSE FirstTarget({i \in From(n) : Edges[i].handle = ""})

FindNextNodeByHandle(n, h) ==
  LET named     == MatchNodeByHandle(n, h)
      byDefault == MatchDefaultNodeByHandle(n, h)
  IN  CASE named # None     -> named
        [] byDefault # None -> byDefault
        [] OTHER            -> MatchUnnamedNodeByHandle(n, h)
=============================================================================
