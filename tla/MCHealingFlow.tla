--------------------------- MODULE MCHealingFlow ---------------------------
(* Instances of HealingFlow for TLC: four flows of a few nodes, and the sets *)
(* of outside events the configurations choose from.                        *)
EXTENDS HealingFlow, TLC

CONSTANTS w1, w2, t1, t2, x1, x2

Edge(s, h, t) == [source |-> s, handle |-> h, target |-> t]

\* start -> approval -approved-> exec -success-> end
ApprovalNodes == {"begin", "ask", "exec", "end"}
ApprovalTypes == [n \in ApprovalNodes |->
                    CASE n = "begin" -> "start" [] n = "ask" -> "approval"
                      [] n = "exec" -> "execution" [] OTHER -> "end"]
ApprovalEdges == << Edge("begin", "", "ask"), Edge("ask", "approved", "exec"),
                    Edge("exec", "success", "end") >>

\* start -> regular node -> execution -> execution; nothing behind the second
ChainNodes == {"begin", "hosts", "exec1", "exec2"}
ChainTypes == [n \in ChainNodes |->
                 CASE n = "begin" -> "start" [] n = "hosts" -> "task"
                   [] OTHER -> "execution"]
ChainEdges == << Edge("begin", "", "hosts"), Edge("hosts", "", "exec1"),
                 Edge("exec1", "", "exec2"), Edge("exec1", "partial", "exec2") >>

\* start -> execution -success-> end
LoneNodes == {"begin", "exec", "end"}
LoneTypes == [n \in LoneNodes |-> CASE n = "begin" -> "start"
                                    [] n = "exec" -> "execution" [] OTHER -> "end"]
LoneEdges == << Edge("begin", "", "exec"), Edge("exec", "success", "end") >>

\* start -> approval -approved-> end
AskNodes == {"begin", "ask", "end"}
AskTypes == [n \in AskNodes |-> CASE n = "begin" -> "start" [] n = "ask" -> "approval"
                                  [] OTHER -> "end"]
AskEdges == << Edge("begin", "", "ask"), Edge("ask", "approved", "end") >>

TwoWalkers == {w1, w2}
OneTask == {t1}
TwoTasks == {t1, t2}
OneRun == {x1}
TwoRuns == {x1, x2}

WalkerSymmetry == Permutations(Walkers)
=============================================================================
