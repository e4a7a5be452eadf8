---------------------------- MODULE OperationsProofs ----------------------------
(***************************************************************************)
(* Theorems about CommandGuard, RunEngine, References, EventStreams and     *)
(* DryRun: no run goes on that a rule should have stopped, its verdict is   *)
(* what its play said, its play has a workspace, what a row names is there, *)
(* nobody waits in vain for an end or a message, and a dry run takes the    *)
(* executor's path, for any numbers of rules, exemptions, hosts, rows,      *)
(* requests, connections and messages, and any flows.                      *)
(***************************************************************************)
EXTENDS CommandGuard, RunEngine, References, EventStreams, DryRun, FiniteSetTheorems,
        WellFoundedInduction, TLAPS

-----------------------------------------------------------------------------
(* Dry runs. *)

Before == {p \in Nat \X Nat : p[1] < p[2]}

\* A set of positions has a first one.
LEMMA FirstPosition ==
  ASSUME NEW I \in SUBSET Nat, I # {}
  PROVE  \E i \in I : \A j \in I : i <= j
<1>1. OpToRel(<, Nat) = Before
  BY DEF OpToRel, Before
<1>2. PICK i \in I : \A j \in I : <<j, i>> \notin Before
  BY <1>1, NatLessThanWellFounded, WFMin
<1>3. ASSUME NEW j \in I
      PROVE  i <= j
  <2>1. <<j, i>> \in Nat \X Nat /\ <<j, i>>[1] = j /\ <<j, i>>[2] = i
    BY <1>3
  <2> QED
    BY <1>2, <1>3, <2>1 DEF Before
<1> QED
  BY <1>3

\* The flow was saved, and the walk is at one of its nodes or over.
OnSavedFlow ==
  /\ flow \in Drafts /\ validateFlowGraph(flow)
  /\ at \in DOMAIN flow.type \cup {None}

\* Nothing the walk may still come to is reported skipped.
NothingSkippedAhead ==
  BranchesNamed /\ at # None /\ at \notin visited =>
    skipped \cap collectAllDownstreamNodes(at) = {}

TrialInv == TrialTypeOK /\ OnSavedFlow /\ NothingSkippedAhead /\ DryRunFollowsExecutor

LEMMA EdgesJoinNodes ==
  ASSUME OnSavedFlow
  PROVE  /\ DOMAIN flow.type \subseteq NodeIds
         /\ flow.trueTarget \in NodeIds \cup {None}
         /\ DOMAIN flow.edges \subseteq Nat
         /\ \A i \in DOMAIN flow.edges : /\ flow.edges[i].source \in DOMAIN flow.type
                                         /\ flow.edges[i].target \in DOMAIN flow.type
         /\ None \notin DOMAIN flow.type
BY DraftConstants DEF OnSavedFlow, validateFlowGraph

\* What is reached avoids what is to be avoided, and holds where it begins.
LEMMA ReachedAvoids ==
  ASSUME OnSavedFlow, NEW S \in SUBSET NodeIds, NEW avoid
  PROVE  /\ Reached(S, avoid) \cap avoid = {}
         /\ S \ avoid \subseteq Reached(S, avoid)
         /\ Reached(S, avoid) \subseteq NodeIds
<1>1. NodeIds \ avoid \in SUBSET NodeIds /\ S \ avoid \subseteq NodeIds \ avoid
  OBVIOUS
<1>2. Closed(NodeIds \ avoid, avoid)
  BY EdgesJoinNodes DEF Closed
<1>3. Reached(S, avoid) \subseteq NodeIds \ avoid
  BY <1>1, <1>2 DEF Reached
<1> QED
  BY <1>3 DEF Reached

\* What is downstream of a node: the node itself, and whatever is downstream of where its
\* edges lead.
LEMMA DownstreamIs ==
  ASSUME OnSavedFlow, NEW n \in NodeIds
  PROVE  /\ n \in collectAllDownstreamNodes(n)
         /\ \A i \in Leaving(n) :
              /\ flow.edges[i].target \in collectAllDownstreamNodes(n)
              /\ collectAllDownstreamNodes(flow.edges[i].target) \subseteq collectAllDownstreamNodes(n)
<1> DEFINE D == collectAllDownstreamNodes(n)
<1>1. n \in D /\ D \in SUBSET NodeIds
  BY DEF collectAllDownstreamNodes, Reached
<1>2. Closed(D, {})
  <2> SUFFICES ASSUME NEW i \in DOMAIN flow.edges, flow.edges[i].source \in D,
                      NEW T \in SUBSET NodeIds, {n} \ {} \subseteq T, Closed(T, {})
               PROVE  flow.edges[i].target \in T
    BY EdgesJoinNodes DEF Closed, collectAllDownstreamNodes, Reached
  <2>1. flow.edges[i].source \in T
    BY DEF collectAllDownstreamNodes, Reached
  <2> QED
    BY <2>1 DEF Closed
<1>3. ASSUME NEW i \in Leaving(n)
      PROVE  flow.edges[i].target \in D
  BY <1>1, <1>2 DEF Closed, Leaving
<1>4. ASSUME NEW m \in D
      PROVE  collectAllDownstreamNodes(m) \subseteq D
  <2>1. {m} \ {} \subseteq D
    BY <1>4
  <2> QED
    BY <1>1, <1>2, <2>1 DEF collectAllDownstreamNodes, Reached
<1> QED
  BY <1>1, <1>3, <1>4

\* The first of some edges leads to a node of the flow, as the executor finds it.
LEMMA FirstIs ==
  ASSUME OnSavedFlow, NEW I \in SUBSET DOMAIN flow.edges
  PROVE  /\ First(I) = Executor!FirstTarget(I)
         /\ I = {} => First(I) = None
         /\ I # {} => \E i \in I : First(I) = flow.edges[i].target
<1>1. CASE I = {}
  BY <1>1 DEF First, Executor!FirstTarget
<1>2. CASE I # {}
  <2> DEFINE first == CHOOSE i \in I : \A j \in I : i <= j
  <2>1. \E i \in I : \A j \in I : i <= j
    BY <1>2, EdgesJoinNodes, FirstPosition
  <2>2. first \in I
    BY <2>1
  <2>3. flow.edges[first].target \in DOMAIN flow.type
    BY <2>2, EdgesJoinNodes
  <2>4. First(I) = flow.edges[first].target
    BY <1>2, <2>3 DEF First
  <2>5. Executor!FirstTarget(I) = flow.edges[first].target
    BY <1>2 DEF Executor!FirstTarget
  <2> QED
    BY <1>2, <2>2, <2>4, <2>5
<1> QED
  BY <1>1, <1>2

\* A node with one way out is left alike by both.
LEMMA NextIs ==
  ASSUME OnSavedFlow, NEW n
  PROVE  FindNext(n) = Executor!FindNextNode(n)
<1>1. Executor!From(n) = Leaving(n) /\ Leaving(n) \subseteq DOMAIN flow.edges
  BY DEF Executor!From, Leaving
<1> QED
  BY <1>1, FirstIs DEF FindNext, Executor!FindNextNode

\* So is a branching node whose edges are named after its outcomes, when one of them is
\* named after this outcome; else the executor stops.
LEMMA NextByHandleIs ==
  ASSUME OnSavedFlow, BranchesNamed, NEW n \in DOMAIN flow.type,
         flow.type[n] \in {"approval", "execution"},
         NEW h \in {"approved", "rejected", "success"},
         NEW taken, taken = {i \in Leaving(n) : HandleOf(flow.edges[i]) = h}
  PROVE  /\ FindNextByHandle(n, h) = Executor!FindNextNodeByHandle(n, h)
         /\ taken = {} => FindNextByHandle(n, h) = None
         /\ taken # {} => \E i \in taken : FindNextByHandle(n, h) = flow.edges[i].target
<1>1. Executor!From(n) = Leaving(n) /\ Leaving(n) \subseteq DOMAIN flow.edges
  BY DEF Executor!From, Leaving
<1>2. \A i \in Leaving(n) : flow.edges[i].handle \notin {"", "default"}
  BY DEF BranchesNamed, Leaving
<1>3. {i \in Leaving(n) : flow.edges[i].handle = ""} = {}
  BY <1>2
<1>4. {i \in Executor!From(n) : Executor!GetSourceHandle(flow.edges[i]) = "default"} = {}
  BY <1>1, <1>2 DEF Executor!GetSourceHandle
<1>5. {i \in Executor!From(n) : Executor!GetSourceHandle(flow.edges[i]) = h} = taken
  BY <1>1 DEF Executor!GetSourceHandle, HandleOf
<1>6. FindNextByHandle(n, h) = First(taken)
  <2>1. CASE taken # {}
    BY <2>1 DEF FindNextByHandle
  <2>2. CASE taken = {}
    BY <1>3, <2>2 DEF FindNextByHandle
  <2> QED
    BY <2>1, <2>2
<1>7. /\ Executor!MatchNodeByHandle(n, h) = First(taken)
      /\ Executor!MatchDefaultNodeByHandle(n, h) = None
      /\ Executor!MatchUnnamedNodeByHandle(n, h) = None
  <2>1. taken \subseteq DOMAIN flow.edges /\ {} \subseteq DOMAIN flow.edges
    BY <1>1
  <2>2. First(taken) = Executor!FirstTarget(taken) /\ Executor!FirstTarget({}) = None
    BY <2>1, FirstIs
  <2> QED
    BY <1>1, <1>3, <1>4, <1>5, <2>2
    DEF Executor!MatchNodeByHandle, Executor!MatchDefaultNodeByHandle, Executor!MatchUnnamedNodeByHandle
<1>8. Executor!FindNextNodeByHandle(n, h) = First(taken)
  BY <1>7 DEF Executor!FindNextNodeByHandle
<1> QED
  BY <1>1, <1>6, <1>8, FirstIs

\* The nodes of the branch taken, and of what is downstream of it, are not left out.
LEMMA PathIsKept ==
  ASSUME OnSavedFlow, NEW n \in DOMAIN flow.type, NEW h, NEW i \in Leaving(n),
         HandleOf(flow.edges[i]) = h
  PROVE  getSkippedBranchNodes(n, h) \cap collectAllDownstreamNodes(flow.edges[i].target) = {}
<1> DEFINE targets(I) == {flow.edges[j].target : j \in I}
           taken  == {j \in Leaving(n) : HandleOf(flow.edges[j]) = h}
           others == {j \in Leaving(n) \ taken : flow.edges[j].handle # ""}
           path   == UNION {collectAllDownstreamNodes(m) : m \in targets(taken)}
<1>1. targets(others) \in SUBSET NodeIds
  BY EdgesJoinNodes DEF Leaving
<1>2. getSkippedBranchNodes(n, h) = Reached(targets(others), visited \cup {n} \cup path)
  BY DEF getSkippedBranchNodes
<1>3. getSkippedBranchNodes(n, h) \cap path = {}
  <2> HIDE DEF path, others, targets
  <2> QED
    BY <1>1, <1>2, ReachedAvoids
<1>4. collectAllDownstreamNodes(flow.edges[i].target) \subseteq path
  OBVIOUS
<1> QED
  BY <1>3, <1>4

\* When no branch is taken, wherever an edge leads was visited or is left out.
LEMMA AllBranchesLeftOut ==
  ASSUME OnSavedFlow, NEW n \in DOMAIN flow.type, NEW h,
         \A i \in Leaving(n) : flow.edges[i].handle # "" /\ HandleOf(flow.edges[i]) # h,
         NEW i \in Leaving(n)
  PROVE  flow.edges[i].target \in visited \cup {n} \cup getSkippedBranchNodes(n, h)
<1> DEFINE targets(I) == {flow.edges[j].target : j \in I}
           taken  == {j \in Leaving(n) : HandleOf(flow.edges[j]) = h}
           others == {j \in Leaving(n) \ taken : flow.edges[j].handle # ""}
           path   == UNION {collectAllDownstreamNodes(m) : m \in targets(taken)}
<1>1. taken = {} /\ others = Leaving(n) /\ path = {}
  OBVIOUS
<1>2. targets(others) \in SUBSET NodeIds
  BY EdgesJoinNodes DEF Leaving
<1>3. getSkippedBranchNodes(n, h) = Reached(targets(others), visited \cup {n} \cup path)
  BY DEF getSkippedBranchNodes
<1>4. flow.edges[i].target \in targets(others)
  BY <1>1
<1>5. targets(others) \ (visited \cup {n} \cup path) \subseteq getSkippedBranchNodes(n, h)
  <2> DEFINE avoid == visited \cup {n} \cup path
  <2>1. targets(others) \ avoid \subseteq Reached(targets(others), avoid)
    <3> HIDE DEF targets, others, avoid
    <3> QED
      BY <1>2, ReachedAvoids
  <2> QED
    BY <1>3, <2>1
<1>6. flow.edges[i].target \in visited \cup {n} \cup path \cup getSkippedBranchNodes(n, h)
  BY <1>4, <1>5
<1> QED
  BY <1>1, <1>6

\* Whatever a node is left by, the walk goes on to a node of the flow, or nowhere.
LEMMA NextDryRunNodeIs ==
  ASSUME OnSavedFlow, NEW n \in DOMAIN flow.type, NEW h
  PROVE  nextDryRunNode(n, h) \in DOMAIN flow.type \cup {None}
<1>1. ASSUME NEW I \in SUBSET DOMAIN flow.edges
      PROVE  First(I) \in DOMAIN flow.type \cup {None}
  BY FirstIs, EdgesJoinNodes
<1>2. FindNext(n) \in DOMAIN flow.type \cup {None}
  BY <1>1 DEF FindNext, Leaving
<1>3. FindNextByHandle(n, h) \in DOMAIN flow.type \cup {None}
  BY <1>1 DEF FindNextByHandle, Leaving
<1> QED
  BY <1>2, <1>3 DEF nextDryRunNode

LEMMA SkippedAreNodes ==
  ASSUME OnSavedFlow, NEW n \in DOMAIN flow.type, NEW h
  PROVE  /\ getSkippedBranchNodes(n, h) \subseteq NodeIds
         /\ collectAllDownstreamNodes(n) \subseteq NodeIds
BY DEF getSkippedBranchNodes, collectAllDownstreamNodes, Reached

LEMMA TrialInitially == TrialInit => TrialInv
<1> SUFFICES ASSUME TrialInit PROVE TrialInv
  OBVIOUS
<1>1. OnSavedFlow
  BY DEF TrialInit, OnSavedFlow
<1>2. TrialTypeOK
  BY <1>1, EdgesJoinNodes DEF TrialInit, TrialTypeOK, Ran
<1> QED
  BY <1>1, <1>2 DEF TrialInit, TrialInv, NothingSkippedAhead, DryRunFollowsExecutor

LEMMA TrialTypesKept ==
  ASSUME TrialTypeOK, OnSavedFlow, TrialNext
  PROVE  TrialTypeOK' /\ OnSavedFlow'
<1>1. flow' = flow /\ at \in DOMAIN flow.type /\ last' = at
  BY DEF TrialNext, RunNode, RunFails, OnSavedFlow
<1>2. at \in NodeIds
  BY <1>1, EdgesJoinNodes
<1>3. ASSUME NEW h \in {"default", "approved", "rejected", "success", "true"}, RunNode(h)
      PROVE  /\ Ran' = Ran \cup {at}
             /\ \A n \in Ran' : handles'[n] \in {"error", "default", "approved", "rejected", "success", "true"}
             /\ skipped' \subseteq NodeIds
             /\ at' \in DOMAIN flow.type \cup {None}
  <2>1. handles' = [n \in Ran \cup {at} |-> IF n = at THEN h ELSE handles[n]]
    BY <1>3 DEF RunNode
  <2>2. skipped' \subseteq NodeIds
    BY <1>1, <1>3, SkippedAreNodes DEF RunNode, TrialTypeOK
  <2>3. at' \in DOMAIN flow.type \cup {None}
    BY <1>1, <1>3, NextDryRunNodeIs DEF RunNode
  <2> QED
    BY <2>1, <2>2, <2>3 DEF Ran, TrialTypeOK
<1>4. ASSUME RunFails
      PROVE  /\ Ran' = Ran \cup {at}
             /\ \A n \in Ran' : handles'[n] \in {"error", "default", "approved", "rejected", "success", "true"}
             /\ skipped' \subseteq NodeIds
             /\ at' = None
  <2>1. handles' = [n \in Ran \cup {at} |-> IF n = at THEN "error" ELSE handles[n]]
    BY <1>4 DEF RunFails
  <2>2. skipped' \subseteq NodeIds
    BY <1>1, <1>4, SkippedAreNodes DEF RunFails, TrialTypeOK
  <2>3. at' = None
    BY <1>4 DEF RunFails
  <2> QED
    BY <2>1, <2>2, <2>3 DEF Ran, TrialTypeOK
<1>5. /\ Ran' = Ran \cup {at}
      /\ \A n \in Ran' : handles'[n] \in {"error", "default", "approved", "rejected", "success", "true"}
      /\ skipped' \subseteq NodeIds
      /\ at' \in DOMAIN flow.type \cup {None}
  BY <1>3, <1>4 DEF TrialNext
<1>6. OnSavedFlow'
  BY <1>1, <1>5 DEF OnSavedFlow, validateFlowGraph
<1> QED
  BY <1>1, <1>2, <1>5, <1>6, EdgesJoinNodes DEF TrialTypeOK

\* A step that meets no error goes where the executor goes.
LEMMA GoesOnAsExecutor ==
  ASSUME TrialInv, BranchesNamed, NEW h \in Answers(at) \ {"error"}, RunNode(h)
  PROVE  /\ LET next == ExecutorNext(at, h)
            IN  IF next = None THEN at' = None \/ at' \in visited'
                ELSE at' = next /\ next \notin skipped'
         /\ at' # None /\ at' \notin visited' =>
              skipped' \cap collectAllDownstreamNodes(at') = {}
<1>1. /\ OnSavedFlow /\ at \in DOMAIN flow.type /\ at \in NodeIds
      /\ skipped \cap collectAllDownstreamNodes(at) = {}
      /\ flow.type[at] # "condition"
  <2>1. at \in DOMAIN flow.type
    BY DEF TrialInv, OnSavedFlow, RunNode
  <2> QED
    BY <2>1, EdgesJoinNodes DEF TrialInv, NothingSkippedAhead, BranchesNamed, RunNode
<1>2. \A i \in Leaving(at) :
        /\ flow.edges[i].target \in DOMAIN flow.type /\ flow.edges[i].target # None
        /\ flow.edges[i].target \in collectAllDownstreamNodes(at)
        /\ flow.edges[i].target \in collectAllDownstreamNodes(flow.edges[i].target)
        /\ collectAllDownstreamNodes(flow.edges[i].target) \subseteq collectAllDownstreamNodes(at)
  BY <1>1, EdgesJoinNodes, DownstreamIs DEF Leaving
<1>3. visited' = Ran' \cup skipped' /\ Ran' = Ran \cup {at}
  BY DEF RunNode, visited, Ran
<1>4. CASE flow.type[at] = "end"
  BY <1>4 DEF RunNode, ExecutorNext
<1>5. CASE flow.type[at] \in {"approval", "execution"}
  <2> DEFINE taken == {i \in Leaving(at) : HandleOf(flow.edges[i]) = h}
  <2>1. h \in {"approved", "rejected", "success"}
    BY <1>5 DEF Answers
  <2>2. /\ ExecutorNext(at, h) = FindNextByHandle(at, h)
        /\ taken = {} => FindNextByHandle(at, h) = None
        /\ taken # {} => \E i \in taken : FindNextByHandle(at, h) = flow.edges[i].target
    <3>1. ExecutorNext(at, h) = Executor!FindNextNodeByHandle(at, h)
      BY <1>5 DEF ExecutorNext
    <3>2. \A s : s = taken =>
            /\ FindNextByHandle(at, h) = Executor!FindNextNodeByHandle(at, h)
            /\ s = {} => FindNextByHandle(at, h) = None
            /\ s # {} => \E i \in s : FindNextByHandle(at, h) = flow.edges[i].target
      BY <1>1, <1>5, <2>1, NextByHandleIs
    <3> HIDE DEF taken
    <3> QED
      BY <3>1, <3>2
  <2>3. /\ skipped' = skipped \cup getSkippedBranchNodes(at, h)
        /\ at' = nextDryRunNode(at, h)
    BY <1>5 DEF RunNode
  <2>4. CASE taken = {}
    <3>1. ExecutorNext(at, h) = None /\ at' = FindNext(at)
      BY <1>1, <1>5, <2>2, <2>3, <2>4 DEF nextDryRunNode
    <3>2. \A i \in Leaving(at) : flow.edges[i].handle # "" /\ HandleOf(flow.edges[i]) # h
      BY <1>5, <2>4 DEF BranchesNamed, Leaving
    <3>3. \A i \in Leaving(at) : flow.edges[i].target \in visited'
      BY <1>1, <1>3, <2>3, <3>2, AllBranchesLeftOut DEF visited
    <3>4. at' = None \/ at' \in visited'
      BY <1>1, <3>1, <3>3, FirstIs DEF FindNext, Leaving
    <3> QED
      BY <3>1, <3>4
  <2>5. CASE taken # {}
    <3>1. PICK i \in taken : FindNextByHandle(at, h) = flow.edges[i].target
      BY <2>2, <2>5
    <3>2. at' = flow.edges[i].target /\ ExecutorNext(at, h) = flow.edges[i].target
      BY <1>1, <1>2, <1>5, <2>2, <2>3, <3>1 DEF nextDryRunNode
    <3>3. getSkippedBranchNodes(at, h) \cap collectAllDownstreamNodes(flow.edges[i].target) = {}
      BY <1>1, PathIsKept
    <3>4. skipped' \cap collectAllDownstreamNodes(flow.edges[i].target) = {}
      BY <1>1, <1>2, <2>3, <3>3
    <3> QED
      BY <1>2, <3>2, <3>4
  <2> QED
    BY <2>4, <2>5
<1>6. CASE flow.type[at] \notin {"end", "approval", "execution"}
  <2>1. skipped' = skipped
    BY <1>1, <1>6 DEF RunNode
  <2>2. at' = FindNext(at) /\ ExecutorNext(at, h) = FindNext(at)
    BY <1>1, <1>6, NextIs DEF RunNode, nextDryRunNode, ExecutorNext
  <2>3. at' = None \/ \E i \in Leaving(at) : at' = flow.edges[i].target
    BY <1>1, <2>2, FirstIs DEF FindNext, Leaving
  <2>4. CASE at' = None
    BY <2>2, <2>4
  <2>5. ASSUME NEW i \in Leaving(at), at' = flow.edges[i].target
        PROVE  at' # None /\ skipped' \cap collectAllDownstreamNodes(at') = {} /\ at' \notin skipped'
    BY <1>1, <1>2, <2>1, <2>5
  <2> QED
    BY <2>2, <2>3, <2>4, <2>5
<1> QED
  BY <1>4, <1>5, <1>6

\* A step leaves the flow as it is, and with it whatever is said of the flow alone.
LEMMA FlowIsKept ==
  ASSUME flow' = flow
  PROVE  /\ BranchesNamed' = BranchesNamed
         /\ \A n : collectAllDownstreamNodes(n)' = collectAllDownstreamNodes(n)
         /\ \A n, h : ExecutorNext(n, h)' = ExecutorNext(n, h)
<1>1. BranchesNamed' = BranchesNamed
  BY DEF BranchesNamed
<1>2. \A n : collectAllDownstreamNodes(n)' = collectAllDownstreamNodes(n)
  BY DEF collectAllDownstreamNodes, Reached, Closed
<1>3. \A n, h : ExecutorNext(n, h)' = ExecutorNext(n, h)
  BY DEF ExecutorNext, Executor!FindNextNodeByHandle, Executor!FindNextNode, Executor!From,
         Executor!MatchNodeByHandle, Executor!MatchDefaultNodeByHandle,
         Executor!MatchUnnamedNodeByHandle, Executor!FirstTarget, Executor!GetSourceHandle
<1> QED
  BY <1>1, <1>2, <1>3

LEMMA TrialStep == TrialInv /\ [TrialNext]_trial => TrialInv'
<1> SUFFICES ASSUME TrialInv, [TrialNext]_trial PROVE TrialInv'
  OBVIOUS
<1>1. CASE TrialNext
  <2>1. TrialTypeOK' /\ OnSavedFlow'
    BY <1>1, TrialTypesKept DEF TrialInv
  <2>2. ASSUME NEW h \in {"default", "approved", "rejected", "success", "true"}, RunNode(h)
        PROVE  NothingSkippedAhead' /\ DryRunFollowsExecutor'
    <3>1. flow' = flow /\ last' = at /\ h \in Answers(at) \ {"error"}
      BY <2>2 DEF RunNode
    <3>2. handles'[last'] = h
      BY <2>2 DEF RunNode, Ran
    <3>3. CASE ~BranchesNamed
      BY <3>1, <3>3, FlowIsKept DEF NothingSkippedAhead, DryRunFollowsExecutor
    <3>4. CASE BranchesNamed
      <4>1. /\ LET next == ExecutorNext(at, h)
               IN  IF next = None THEN at' = None \/ at' \in visited'
                   ELSE at' = next /\ next \notin skipped'
            /\ at' # None /\ at' \notin visited' =>
                 skipped' \cap collectAllDownstreamNodes(at') = {}
        BY <2>2, <3>1, <3>4, GoesOnAsExecutor
      <4>2. NothingSkippedAhead'
        BY <3>1, <4>1, FlowIsKept DEF NothingSkippedAhead
      <4>3. ExecutorNext(last, handles[last])' = ExecutorNext(at, h)
        BY <3>1, <3>2, FlowIsKept
      <4> QED
        BY <4>1, <4>2, <4>3 DEF DryRunFollowsExecutor
    <3> QED
      BY <3>3, <3>4
  <2>3. ASSUME RunFails
        PROVE  NothingSkippedAhead' /\ DryRunFollowsExecutor'
    <3>1. at' = None /\ handles'[last'] = "error"
      BY <2>3 DEF RunFails, Ran
    <3> QED
      BY <3>1 DEF NothingSkippedAhead, DryRunFollowsExecutor
  <2> QED
    BY <1>1, <2>1, <2>2, <2>3 DEF TrialNext, TrialInv
<1>2. CASE UNCHANGED trial
  <2>1. /\ flow' = flow /\ at' = at /\ handles' = handles /\ skipped' = skipped /\ last' = last
        /\ visited' = visited
    BY <1>2 DEF trial, visited, Ran
  <2>2. TrialTypeOK' /\ OnSavedFlow'
    BY <2>1 DEF TrialInv, TrialTypeOK, OnSavedFlow, validateFlowGraph, Ran
  <2>3. NothingSkippedAhead' /\ DryRunFollowsExecutor'
    BY <2>1, FlowIsKept DEF TrialInv, NothingSkippedAhead, DryRunFollowsExecutor
  <2> QED
    BY <2>2, <2>3 DEF TrialInv
<1> QED
  BY <1>1, <1>2

\* A dry run takes the path the executor takes with the same outcomes.
THEOREM DryRunCorrect == TrialSpec => []DryRunFollowsExecutor
<1>1. TrialInv => DryRunFollowsExecutor
  BY DEF TrialInv
<1> QED
  BY <1>1, TrialInitially, TrialStep, PTL DEF TrialSpec
-----------------------------------------------------------------------------
(* Streams. *)

\* What is told, about to be told, or waiting to be forwarded is an end the row had.
EndsAreTrue ==
  /\ status \in Ends => status \in had
  /\ \A t \in Tellers : telling[t] # None => telling[t] \in had
  /\ \A s \in Streams :
       /\ told[s] \in Ends => told[s] \in had
       /\ connection[s] = "closed" => told[s] \in Ends
       /\ \A i \in DOMAIN queue[s] : queue[s][i] \in Ends => queue[s][i] \in had

StreamsInv == StreamsTypeOK /\ EndsAreTrue /\ NobodyWaitsInVain

USE StreamConstants DEF Ends, Statuses
-----------------------------------------------------------------------------
LEMMA StreamsInitially == StreamsInit => StreamsInv
<1> SUFFICES ASSUME StreamsInit PROVE StreamsInv
  OBVIOUS
<1>1. StreamsTypeOK
  BY DEF StreamsInit, StreamsTypeOK
<1>2. EndsAreTrue
  BY NoneIsNoEnd DEF StreamsInit, EndsAreTrue
<1>3. StreamsTellTheEnd
  BY DEF StreamsInit, StreamsTellTheEnd, Hoping
<1>4. MessagesReachWatchers
  BY DEF StreamsInit, MessagesReachWatchers
<1> QED
  BY <1>1, <1>2, <1>3, <1>4 DEF StreamsInv, NobodyWaitsInVain

\* An event goes to the end of the channels with a place left.
LEMMA Published ==
  ASSUME StreamsTypeOK, NEW event \in {"node"} \cup Ends, Publish(event)
  PROVE  /\ queue' \in [Streams -> Seq({"node"} \cup Ends)]
         /\ \A s \in Streams : s \notin Subscribed \ Full => queue'[s] = queue[s]
         /\ \A s \in Subscribed \ Full :
              /\ DOMAIN queue'[s] = DOMAIN queue[s] \cup {Len(queue[s]) + 1}
              /\ Len(queue[s]) + 1 \notin DOMAIN queue[s]
              /\ \A i \in DOMAIN queue[s] : queue'[s][i] = queue[s][i]
              /\ queue'[s][Len(queue[s]) + 1] = event
<1>1. ASSUME NEW s \in Streams
      PROVE  /\ queue[s] \in Seq({"node"} \cup Ends)
             /\ Append(queue[s], event) \in Seq({"node"} \cup Ends)
  BY DEF StreamsTypeOK
<1>2. queue' \in [Streams -> Seq({"node"} \cup Ends)]
  BY <1>1 DEF Publish
<1>3. \A s \in Streams : s \notin Subscribed \ Full => queue'[s] = queue[s]
  BY DEF Publish
<1>4. ASSUME NEW s \in Subscribed \ Full
      PROVE  /\ DOMAIN queue'[s] = DOMAIN queue[s] \cup {Len(queue[s]) + 1}
             /\ Len(queue[s]) + 1 \notin DOMAIN queue[s]
             /\ \A i \in DOMAIN queue[s] : queue'[s][i] = queue[s][i]
             /\ queue'[s][Len(queue[s]) + 1] = event
  <2>1. s \in Streams /\ queue'[s] = Append(queue[s], event)
    BY DEF Publish, Subscribed
  <2> QED
    BY <1>1, <2>1
<1> QED
  BY <1>2, <1>3, <1>4

\* The statements that end, restart and publish keep the invariant of the connections.
LEMMA FlowStep ==
  ASSUME StreamsInv, FlowStreamsNext
  PROVE  StreamsTypeOK' /\ EndsAreTrue' /\ StreamsTellTheEnd'
<1> USE DEF StreamsInv, NobodyWaitsInVain
<1>0. UNCHANGED messageStreams
  BY DEF FlowStreamsNext, PublishNode, EndSilently, Restart, PublishFlowComplete,
         CancelPendingFails, EndInstance, InstanceEvents, Subscribe, writeInitialInstanceEvents,
         streamInstanceEvents, Disconnect
<1> USE <1>0 DEF messageStreams
<1>1. CASE PublishNode
  <2>1. StreamsTypeOK'
    BY <1>1, Published DEF PublishNode, StreamsTypeOK, Publish
  <2>2. EndsAreTrue'
    BY <1>1, Published DEF PublishNode, EndsAreTrue, Publish
  <2>3. StreamsTellTheEnd'
    BY <1>1, Published DEF PublishNode, StreamsTellTheEnd, Hoping, Publish, Subscribed
  <2> QED
    BY <2>1, <2>2, <2>3
<1>2. CASE EndSilently
  <2>1. StreamsTypeOK'
    BY <1>2 DEF EndSilently, StreamsTypeOK, Hoping, stream
  <2>2. EndsAreTrue'
    BY <1>2 DEF EndSilently, EndsAreTrue, stream
  <2>3. StreamsTellTheEnd'
    BY <1>2 DEF EndSilently, StreamsTellTheEnd, Hoping, stream
  <2> QED
    BY <2>1, <2>2, <2>3
<1>3. CASE Restart
  <2>1. StreamsTypeOK' /\ EndsAreTrue'
    BY <1>3 DEF Restart, StreamsTypeOK, EndsAreTrue, stream
  <2>2. StreamsTellTheEnd'
    BY <1>3 DEF Restart, StreamsTellTheEnd, Hoping, stream
  <2> QED
    BY <2>1, <2>2
<1>4. ASSUME NEW t \in Tellers, PublishFlowComplete(t)
      PROVE  StreamsTypeOK' /\ EndsAreTrue' /\ StreamsTellTheEnd'
  <2>1. telling[t] \in Ends /\ telling[t] \in had
    BY <1>4 DEF PublishFlowComplete, StreamsTypeOK, EndsAreTrue
  <2>2. StreamsTypeOK'
    BY <1>4, <2>1, Published DEF PublishFlowComplete, StreamsTypeOK, Hoping, Publish
  <2>3. EndsAreTrue'
    BY <1>4, <2>1, Published DEF PublishFlowComplete, EndsAreTrue, Publish, StreamsTypeOK
  <2>4. ASSUME NEW s \in Streams, s \in Hoping' \ missed'
        PROVE  \E i \in DOMAIN queue'[s] : queue'[s][i] \in Ends
    <3>1. s \in Subscribed \ Full
      BY <1>4, <2>4 DEF PublishFlowComplete, Publish, Hoping
    <3> QED
      BY <1>4, <2>1, <3>1, Published DEF PublishFlowComplete
  <2>5. StreamsTellTheEnd'
    BY <1>4, <2>4 DEF PublishFlowComplete, StreamsTellTheEnd, Publish
  <2> QED
    BY <2>2, <2>3, <2>5
<1>5. ASSUME NEW t \in Tellers, CancelPendingFails(t)
      PROVE  StreamsTypeOK' /\ EndsAreTrue' /\ StreamsTellTheEnd'
  <2>1. StreamsTypeOK'
    BY <1>5 DEF CancelPendingFails, StreamsTypeOK, Hoping, stream
  <2>2. EndsAreTrue'
    BY <1>5 DEF CancelPendingFails, EndsAreTrue, StreamsTypeOK, stream
  <2>3. StreamsTellTheEnd'
    BY <1>5 DEF CancelPendingFails, StreamsTellTheEnd, Hoping, stream
  <2> QED
    BY <2>1, <2>2, <2>3
<1>6. ASSUME NEW t \in Tellers, NEW end \in Ends, EndInstance(t, end)
      PROVE  StreamsTypeOK' /\ EndsAreTrue' /\ StreamsTellTheEnd'
  <2>1. StreamsTypeOK'
    BY <1>6 DEF EndInstance, StreamsTypeOK, stream
  <2>2. EndsAreTrue'
    BY <1>6 DEF EndInstance, EndsAreTrue, StreamsTypeOK, stream
  <2>3. telling'[t] # None
    BY <1>6, NoneIsNoEnd DEF EndInstance, StreamsTypeOK
  <2>4. StreamsTellTheEnd'
    BY <1>6, <2>3 DEF EndInstance, StreamsTellTheEnd, Hoping, stream
  <2> QED
    BY <2>1, <2>2, <2>4
<1>7. ASSUME NEW s \in Streams, InstanceEvents(s)
      PROVE  StreamsTypeOK' /\ EndsAreTrue' /\ StreamsTellTheEnd'
  <2>1. StreamsTypeOK'
    BY <1>7 DEF InstanceEvents, StreamsTypeOK
  <2>2. EndsAreTrue'
    BY <1>7 DEF InstanceEvents, EndsAreTrue, StreamsTypeOK
  <2>3. /\ connection'[s] = "loaded" /\ told'[s] = status
        /\ \A r \in Streams \ {s} : connection'[r] = connection[r] /\ told'[r] = told[r]
    BY <1>7 DEF InstanceEvents, StreamsTypeOK
  <2>4. status # "active" => Hoping' \subseteq Hoping
    BY <2>3 DEF Hoping
  <2>5. StreamsTellTheEnd'
    BY <1>7, <2>3, <2>4 DEF InstanceEvents, StreamsTellTheEnd
  <2> QED
    BY <2>1, <2>2, <2>5
<1>8. ASSUME NEW s \in Streams, Subscribe(s)
      PROVE  StreamsTypeOK' /\ EndsAreTrue' /\ StreamsTellTheEnd'
  <2>1. StreamsTypeOK' /\ EndsAreTrue'
    BY <1>8 DEF Subscribe, StreamsTypeOK, EndsAreTrue
  <2>2. /\ connection'[s] = "subscribed" /\ connection[s] = "loaded"
        /\ \A r \in Streams \ {s} : connection'[r] = connection[r]
    BY <1>8 DEF Subscribe, StreamsTypeOK
  <2>3. Hoping' = Hoping
    BY <1>8, <2>2 DEF Subscribe, Hoping
  <2>4. StreamsTellTheEnd'
    BY <1>8, <2>2, <2>3 DEF Subscribe, StreamsTellTheEnd
  <2> QED
    BY <2>1, <2>4
<1>9. ASSUME NEW s \in Streams, writeInitialInstanceEvents(s)
      PROVE  StreamsTypeOK' /\ EndsAreTrue' /\ StreamsTellTheEnd'
  <2>1. StreamsTypeOK'
    BY <1>9 DEF writeInitialInstanceEvents, StreamsTypeOK
  <2>2. EndsAreTrue'
    BY <1>9 DEF writeInitialInstanceEvents, EndsAreTrue, StreamsTypeOK
  <2>3. StreamsTellTheEnd'
    BY <1>9 DEF writeInitialInstanceEvents, StreamsTellTheEnd, EndsAreTrue, Hoping, StreamsTypeOK
  <2> QED
    BY <2>1, <2>2, <2>3
<1>10. ASSUME NEW s \in Streams, streamInstanceEvents(s)
       PROVE  StreamsTypeOK' /\ EndsAreTrue' /\ StreamsTellTheEnd'
  <2> DEFINE q == queue[s]
  <2>1. q \in Seq({"node"} \cup Ends) /\ q # <<>>
    BY <1>10 DEF streamInstanceEvents, StreamsTypeOK
  <2>2. /\ Head(q) = q[1] /\ 1 \in DOMAIN q /\ Tail(q) \in Seq({"node"} \cup Ends)
        /\ \A i \in DOMAIN Tail(q) : Tail(q)[i] = q[i + 1] /\ i + 1 \in DOMAIN q
        /\ \A i \in DOMAIN q \ {1} : i - 1 \in DOMAIN Tail(q) /\ Tail(q)[i - 1] = q[i]
    BY <2>1
  <2> HIDE DEF q
  <2>3. CASE Head(q) \in Ends
    <3>1. /\ connection' = [connection EXCEPT ![s] = "closed"]
          /\ told' = [told EXCEPT ![s] = Head(q)] /\ queue' = [queue EXCEPT ![s] = <<>>]
          /\ UNCHANGED <<status, had, telling, missed>>
      BY <1>10, <2>3 DEF streamInstanceEvents, q
    <3>2. Head(q) \in had
      BY <2>2, <2>3 DEF EndsAreTrue, q
    <3>3. StreamsTypeOK'
      BY <2>3, <3>1 DEF StreamsTypeOK
    <3>4. EndsAreTrue'
      BY <2>3, <3>1, <3>2 DEF EndsAreTrue, StreamsTypeOK
    <3>5. StreamsTellTheEnd'
      BY SMTT(20), ZenonT(30), <3>1, <3>2 DEF StreamsTellTheEnd, Hoping, StreamsTypeOK
    <3> QED
      BY <3>3, <3>4, <3>5
  <2>4. CASE Head(q) \notin Ends
    <3>1. /\ connection' = connection /\ told' = told
          /\ queue' = [queue EXCEPT ![s] = Tail(q)]
          /\ UNCHANGED <<status, had, telling, missed>>
      BY <1>10, <2>4 DEF streamInstanceEvents, q, StreamsTypeOK
    <3>2. queue'[s] = Tail(q) /\ \A r \in Streams \ {s} : queue'[r] = queue[r]
      BY <3>1 DEF StreamsTypeOK
    <3>3. StreamsTypeOK'
      BY <2>2, <3>1 DEF StreamsTypeOK
    <3>4. \A i \in DOMAIN Tail(q) : Tail(q)[i] \in Ends => Tail(q)[i] \in had
      BY <2>2 DEF EndsAreTrue, q
    <3>5. EndsAreTrue'
      BY <3>1, <3>2, <3>4 DEF EndsAreTrue
    <3>6. ASSUME NEW i \in DOMAIN q, q[i] \in Ends
          PROVE  \E j \in DOMAIN Tail(q) : Tail(q)[j] \in Ends
      <4>1. i # 1
        BY <2>2, <2>4, <3>6
      <4> QED
        BY <2>2, <3>6, <4>1
    <3>7. ASSUME NEW r \in Streams, r \in Hoping' \ missed', status' # "active"
          PROVE  \/ \E i \in DOMAIN queue'[r] : queue'[r][i] \in Ends
                 \/ \E t \in Tellers : telling'[t] # None
      <4>1. \/ \E i \in DOMAIN queue[r] : queue[r][i] \in Ends
            \/ \E t \in Tellers : telling[t] # None
        BY <3>1, <3>7 DEF StreamsTellTheEnd, Hoping
      <4> QED
        BY <3>1, <3>2, <3>6, <4>1 DEF q
    <3>8. StreamsTellTheEnd'
      BY <3>1, <3>7 DEF StreamsTellTheEnd
    <3> QED
      BY <3>3, <3>5, <3>8
  <2> QED
    BY <2>3, <2>4
<1>11. ASSUME NEW s \in Streams, Disconnect(s)
       PROVE  StreamsTypeOK' /\ EndsAreTrue' /\ StreamsTellTheEnd'
  <2>1. StreamsTypeOK'
    BY <1>11 DEF Disconnect, StreamsTypeOK
  <2>2. EndsAreTrue'
    BY <1>11, NoneIsNoEnd DEF Disconnect, EndsAreTrue, StreamsTypeOK
  <2>3. StreamsTellTheEnd'
    BY SMTT(20), <1>11 DEF Disconnect, StreamsTellTheEnd, Hoping, StreamsTypeOK
  <2> QED
    BY <2>1, <2>2, <2>3
<1> QED
  BY <1>1, <1>2, <1>3, <1>4, <1>5, <1>6, <1>7, <1>8, <1>9, <1>10, <1>11 DEF FlowStreamsNext

\* The statements on messages keep what a watcher can count on.
LEMMA MessageStep ==
  ASSUME StreamsInv, MessageStreamsNext
  PROVE  StreamsTypeOK' /\ MessagesReachWatchers'
<1> USE DEF StreamsInv, NobodyWaitsInVain, StreamsTypeOK, MessagesReachWatchers, flowStreams,
            stream
<1>1. ASSUME NEW m \in Messages, CreateMessage(m)
      PROVE  StreamsTypeOK' /\ MessagesReachWatchers'
  BY <1>1 DEF CreateMessage
<1>2. ASSUME NEW m \in Messages, Broadcast(m)
      PROVE  StreamsTypeOK' /\ MessagesReachWatchers'
  BY <1>2 DEF Broadcast
<1>3. ASSUME NEW v \in Watchers, Events(v)
      PROVE  StreamsTypeOK' /\ MessagesReachWatchers'
  BY <1>3 DEF Events
<1>4. ASSUME NEW v \in Watchers, pushInitialUnreadCount(v)
      PROVE  StreamsTypeOK' /\ MessagesReachWatchers'
  BY <1>4 DEF pushInitialUnreadCount
<1>5. ASSUME NEW v \in Watchers, InitialCountFails(v)
      PROVE  StreamsTypeOK' /\ MessagesReachWatchers'
  BY <1>5 DEF InitialCountFails
<1>6. ASSUME NEW v \in Watchers, streamSiteMessageEvents(v)
      PROVE  StreamsTypeOK' /\ MessagesReachWatchers'
  BY <1>6 DEF streamSiteMessageEvents
<1>7. ASSUME NEW v \in Watchers, GetUnreadCount(v)
      PROVE  StreamsTypeOK' /\ MessagesReachWatchers'
  BY <1>7 DEF GetUnreadCount
<1>8. ASSUME NEW v \in Watchers, Unsubscribe(v)
      PROVE  StreamsTypeOK' /\ MessagesReachWatchers'
  BY <1>8 DEF Unsubscribe
<1> QED
  BY <1>1, <1>2, <1>3, <1>4, <1>5, <1>6, <1>7, <1>8 DEF MessageStreamsNext

LEMMA StreamsInductive == StreamsInv /\ [StreamsNext]_streams => StreamsInv'
<1> SUFFICES ASSUME StreamsInv, [StreamsNext]_streams PROVE StreamsInv'
  OBVIOUS
<1>1. CASE FlowStreamsNext
  <2>1. UNCHANGED messageStreams
    BY <1>1 DEF FlowStreamsNext, PublishNode, EndSilently, Restart, PublishFlowComplete,
         CancelPendingFails, EndInstance, InstanceEvents, Subscribe, writeInitialInstanceEvents,
         streamInstanceEvents, Disconnect
  <2>2. MessagesReachWatchers'
    BY <2>1 DEF messageStreams, StreamsInv, NobodyWaitsInVain, MessagesReachWatchers
  <2> QED
    BY <1>1, <2>2, FlowStep DEF StreamsInv, NobodyWaitsInVain
<1>2. CASE MessageStreamsNext
  <2>1. UNCHANGED flowStreams
    BY <1>2 DEF MessageStreamsNext, CreateMessage, Broadcast, Events, pushInitialUnreadCount,
         InitialCountFails, streamSiteMessageEvents, GetUnreadCount, Unsubscribe
  <2>2. EndsAreTrue' /\ StreamsTellTheEnd'
    BY <2>1 DEF flowStreams, stream, StreamsInv, NobodyWaitsInVain, EndsAreTrue,
                StreamsTellTheEnd, Hoping
  <2> QED
    BY <1>2, <2>2, MessageStep DEF StreamsInv, NobodyWaitsInVain
<1>3. CASE UNCHANGED streams
  BY <1>3 DEF streams, flowStreams, stream, messageStreams, StreamsInv, NobodyWaitsInVain,
       StreamsTypeOK, EndsAreTrue, StreamsTellTheEnd, Hoping, MessagesReachWatchers
<1> QED
  BY <1>1, <1>2, <1>3 DEF StreamsNext

\* However many connections and messages there are and however small the channels:
\* the type invariant holds.
THEOREM StreamsTypeCorrect == StreamsSpec => []StreamsTypeOK
<1>1. StreamsInv => StreamsTypeOK
  BY DEF StreamsInv
<1> QED
  BY <1>1, StreamsInitially, StreamsInductive, PTL DEF StreamsSpec

\* Whatever the sizes: no client that could be told of a flow's end or of a message waits
\* in vain, though both buses drop events.
THEOREM StreamsCorrect == StreamsSpec => []NobodyWaitsInVain
<1>1. StreamsInv => NobodyWaitsInVain
  BY DEF StreamsInv
<1> QED
  BY <1>1, StreamsInitially, StreamsInductive, PTL DEF StreamsSpec

HIDE StreamConstants DEF Ends, Statuses

-----------------------------------------------------------------------------
(* Commands. *)

\* What an exemption's row says of who decided on it, and of whom was told what.
RowIsTrue(e) ==
  LET row == exemption[e]
  IN  /\ row.status \in {"none", "pending"} =>
           e \notin approvals \cup denials /\ row.until = "none"
      /\ row.status \in {"approved", "expired"} =>
           e \in approvals \ denials /\ row.approvedBy \notin {None, row.by}
      /\ row.status = "rejected" => e \notin approvals

\* A request that decides has read a row of somebody else's; one that asks has none yet.
ClerkFits(c) ==
  /\ clerk[c].at = "ask" => clerk[c].asks.status = "pending" /\ clerk[c].asks.until = "none"
  /\ clerk[c].at \in {"edit", "switch"} => clerk[c].rule \in AllRules
  /\ Deciding(c) =>
       /\ clerk[c].on \in Exemptions /\ exemption[clerk[c].on].status # "none"
       /\ clerk[c].who \notin {None, exemption[clerk[c].on].by}

\* A run that is being scanned has found what it broke all along, as far as it has looked;
\* what was over when it began stays over.
ScanFinds(w) ==
  /\ scan[w].at \in {"system", "exempt"} => armed[w] \subseteq InForce
  /\ scan[w].at = "system" => armed[w] \cap OwnRules \subseteq scan[w].found
  /\ scan[w].at = "exempt" => armed[w] \subseteq scan[w].found
  /\ \A e \in scan[w].late : exemption[e].until = "past"

GuardInv ==
  /\ GuardTypeOK
  /\ \A e \in Exemptions : RowIsTrue(e)
  /\ \A c \in Clerks : ClerkFits(c)
  /\ \A w \in Scans : ScanFinds(w)
  /\ DangerIsStopped

-----------------------------------------------------------------------------
(* Runs. *)

Early == {"begin", "scan", "load", "hosts", "start"}

\* Before the command there is no play; a play on the machine itself is over with its
\* command; behind the command the play is over, or its container was left.
PlayFits ==
  /\ call.at \in Early => command = "none" /\ play = "none" /\ ~left
  /\ call.at \in {"waiting", "stopping"} => ~left
  /\ call.at \in {"waiting", "stopping", "drain", "collect"} => command # "none"
  /\ (command = "none") <=> (play = "none")
  /\ call.kind = "local" /\ command = "exited" => play # "running"
  /\ closed => command = "exited"
  /\ call.at \in {"collect", "returned", "cleanup", "done"} /\ ~left => play # "running"
  /\ call.kind = "docker" /\ call.at = "drain" /\ ~left => play # "running"
  /\ call.at = "collect" => closed
  /\ call.kind = "local" => call.at # "stopping"

\* Every line the play said is in the output, in the reader's hand, or in the pipe.
EveryLineIsKept ==
  /\ play = "none" => \A h \in Hosts : fate[h] = None
  /\ ~cut => Range(fate) \ {None} = Range(heard) \cup Range(hand) \cup Range(pipe)

\* What the result is made of, unless the context ended or the container was left.
ResultIsWhole ==
  stopped = "no" /\ ~left =>
    /\ call.at \in {"stopping", "drain"} => FALSE
    /\ call.at \in Early \cup {"waiting", "collect"} => ~call.parsed
    /\ call.at = "returned" =>
         IF call.parsed THEN hand = <<>> /\ pipe = <<>> ELSE play = "none"
    /\ call.at \in {"cleanup", "done"} /\ ~cut =>
         call.verdict = resolveRunStatus(Range(fate) \ {None})

\* The workspace is there while the run is at work, and the credentials are as they were found.
CredentialsFit ==
  /\ call.at \notin {"begin", "done"} => workdir
  /\ \A h \in Hosts : creds[h] = None \/ h \in knows[creds[h]]
  /\ call.at \in {"begin", "scan", "load"} => call.todo = Hosts
  /\ call.at = "hosts" => \A h \in Hosts \ call.todo : creds[h] # None
  /\ play # "none" \/ call.at = "start" => call.bare \/ \A h \in Hosts : creds[h] # None

EngineInv == EngineTypeOK /\ PlayFits /\ EveryLineIsKept /\ ResultIsWhole /\ CredentialsFit

-----------------------------------------------------------------------------
(* Rows. *)

Saving(u) == edit[u].at \in {"create", "update"}

\* Every name is of a kind its row may name, and only templates are listed.
NamesFit(o, N) ==
  /\ N \in Names
  /\ \A t \in N.to : Pair(o, t) \in Columns \cup InJSON
  /\ \A t \in N.listed : KindOf[t] = "template"

\* A foreign key guards this name.
Guarded(o, t) == keys /\ Pair(o, t) \in Columns

\* What a request is about to write was there when it looked; if it is gone, then somebody
\* deleted it meanwhile, or it need not be there.
NamesHold(u) ==
  Saving(u) => \A t \in edit[u].names.to :
    Guarded(edit[u].id, t) \/ t \in rows \cup raced \cup edit[u].names.listed

\* A row being created is nobody else's.
CreatesAlone(u) ==
  edit[u].at = "create" =>
    edit[u].id \notin rows /\ \A v \in Editors \ {u} : edit[v].id # edit[u].id

\* A row about to be deleted is named by none that was counted, nor by one that is about
\* to be written, unless the two ran beside one another.
DeletesUnnamed(u) ==
  edit[u].at = "delete" =>
    /\ \A x \in rows : edit[u].id \in names[x].to =>
         edit[u].id \in raced \cup names[x].listed
    /\ \A v \in Editors : Saving(v) /\ edit[u].id \in edit[v].names.to =>
         edit[u].id \in raced

RowsFit ==
  /\ rows \subseteq Objects /\ raced \subseteq Objects
  /\ names \in [Objects -> Names]
  /\ edit \in [Editors -> [at : {"idle", "create", "update", "delete"},
                           id : Objects \cup {None}, names : Names]]
  /\ \A o \in rows : NamesFit(o, names[o])
  /\ \A u \in Editors : /\ Saving(u) => NamesFit(edit[u].id, edit[u].names)
                        /\ edit[u].at # "idle" => edit[u].id \in Objects
                        /\ ~Saving(u) => edit[u].names = Nothing

RowsInv ==
  /\ ids \subseteq Objects
  /\ RowsFit
  /\ ReferencesExist
  /\ \A u \in Editors : NamesHold(u) /\ CreatesAlone(u) /\ DeletesUnnamed(u)

-----------------------------------------------------------------------------
(* Dangerous commands. *)

USE GuardConstants

ClerkRows == [at : {"free", "edit", "switch", "batch", "ask", "approved", "rejected"},
              rule : AllRules \cup {None}, row : RuleRows, on : Exemptions \cup {None},
              asks : ExemptionRows, who : Staff \cup {None}]

ScanRows == [at : {"idle", "system", "exempt", "passed", "stopped"},
             task : ScannedTasks \cup {None}, found : SUBSET AllRules,
             late : SUBSET Exemptions]

LEMMA EmptyRows ==
  /\ NoRule \in RuleRows /\ NoExemption \in ExemptionRows
  /\ FreeClerk \in ClerkRows /\ FreeClerk.at = "free"
  /\ FreeClerk.row = NoRule /\ FreeClerk.asks = NoExemption
  /\ NotScanning \in ScanRows /\ NotScanning.at = "idle" /\ NotScanning.late = {}
BY DEF NoRule, RuleRows, NoExemption, ExemptionRows, FreeClerk, ClerkRows, NotScanning, ScanRows

\* Where no rule changes, the same rules are broken and in force.
LEMMA RulesStay == RulesLeft => InForce' = InForce /\ UNCHANGED <<rule, override, armed>>
BY DEF RulesLeft, InForce, Broken, Merged

\* A change of rules takes from what a run is held to; what it has found stays found.
LEMMA RulesChanged ==
  ASSUME GuardInv, rule' \in [AllRules -> RuleRows], override' \in [SystemRules -> {"none", "on", "off"}],
         clerk' \in [Clerks -> ClerkRows], \A c \in Clerks : ClerkFits(c)',
         UNCHANGED scan, DecisionsLeft, Rearmed
  PROVE  GuardInv'
<1>1. /\ \A w \in Scans : armed'[w] = armed[w] \cap InForce'
      /\ armed' = [w \in Scans |-> armed[w] \cap InForce']
  BY DEF Rearmed
<1>2. GuardTypeOK'
  <2>1. armed' \in [Scans -> SUBSET AllRules]
    BY <1>1 DEF GuardInv, GuardTypeOK
  <2> QED
    BY <2>1 DEF GuardInv, GuardTypeOK, DecisionsLeft, ClerkRows
<1>3. \A e \in Exemptions : RowIsTrue(e)'
  BY DEF GuardInv, RowIsTrue, DecisionsLeft
<1>4. \A w \in Scans : ScanFinds(w)'
  BY <1>1 DEF GuardInv, ScanFinds, DecisionsLeft
<1>5. DangerIsStopped'
  BY <1>1 DEF GuardInv, DangerIsStopped, Granted, DecisionsLeft
<1> QED
  BY <1>2, <1>3, <1>4, <1>5 DEF GuardInv

\* A change of exemptions keeps what was granted, and what is over.
LEMMA ExemptionsChanged ==
  ASSUME GuardInv, exemption' \in [Exemptions -> ExemptionRows],
         approvals' \subseteq Exemptions, denials' \subseteq Exemptions,
         clerk' \in [Clerks -> ClerkRows], \A c \in Clerks : ClerkFits(c)',
         \A e \in Exemptions : RowIsTrue(e)',
         \A e \in Exemptions : exemption[e].until = "past" => exemption'[e].until = "past",
         \A e \in approvals \ denials :
           /\ e \in approvals' \ denials'
           /\ exemption'[e].task = exemption[e].task /\ exemption'[e].rule = exemption[e].rule
           /\ exemption'[e].by = exemption[e].by
           /\ exemption'[e].approvedBy = exemption[e].approvedBy,
         UNCHANGED scan, RulesLeft
  PROVE  GuardInv'
<1>1. InForce' = InForce /\ UNCHANGED <<rule, override, armed>>
  BY RulesStay
<1>2. GuardTypeOK'
  BY <1>1 DEF GuardInv, GuardTypeOK, ClerkRows
<1>3. \A w \in Scans : ScanFinds(w)'
  BY <1>1 DEF GuardInv, GuardTypeOK, ScanFinds
<1>4. DangerIsStopped'
  BY <1>1 DEF GuardInv, DangerIsStopped, Granted
<1> QED
  BY <1>2, <1>3, <1>4 DEF GuardInv

\* What a request has read is written to its row of clerk alone.
LEMMA ClerkChanged ==
  ASSUME GuardInv, NEW c \in Clerks, NEW row \in ClerkRows, clerk' = [clerk EXCEPT ![c] = row],
         \A e \in Exemptions : /\ exemption[e].status # "none" => exemption'[e].status # "none"
                               /\ exemption[e].status # "none" => exemption'[e].by = exemption[e].by,
         row.at = "ask" => row.asks.status = "pending" /\ row.asks.until = "none",
         row.at \in {"edit", "switch"} => row.rule \in AllRules,
         row.at \in {"approved", "rejected"} =>
           /\ row.on \in Exemptions /\ exemption[row.on].status # "none"
           /\ row.who \notin {None, exemption[row.on].by}
  PROVE  clerk' \in [Clerks -> ClerkRows] /\ \A d \in Clerks : ClerkFits(d)'
<1>1. clerk \in [Clerks -> ClerkRows]
  BY DEF GuardInv, GuardTypeOK, ClerkRows
<1>2. clerk' \in [Clerks -> ClerkRows] /\ clerk'[c] = row
  BY <1>1
<1>3. ClerkFits(c)'
  BY <1>2 DEF ClerkFits, Deciding
<1>4. ASSUME NEW d \in Clerks \ {c}
      PROVE  ClerkFits(d)'
  <2>1. clerk'[d] = clerk[d] /\ ClerkFits(d)
    BY <1>1 DEF GuardInv
  <2> QED
    BY <2>1 DEF ClerkFits, Deciding
<1> QED
  BY <1>2, <1>3, <1>4

\* A rule is broken and in force, or it is not, whoever writes its row.
LEMMA RuleStepKept ==
  ASSUME GuardInv, RuleSteps
  PROVE  GuardInv'
<1>0. /\ rule \in [AllRules -> RuleRows] /\ override \in [SystemRules -> {"none", "on", "off"}]
      /\ clerk \in [Clerks -> ClerkRows] /\ \A c \in Clerks : ClerkFits(c)
      /\ OwnRules \subseteq AllRules /\ SystemRules \subseteq AllRules
  BY DEF GuardInv, GuardTypeOK, ClerkRows, AllRules
<1>1. ASSUME NEW r \in AllRules, NEW row \in RuleRows, UNCHANGED <<override, clerk, scan>>,
             DecisionsLeft, Rearmed, rule' = [rule EXCEPT ![r] = row]
      PROVE  GuardInv'
  <2>1. rule' \in [AllRules -> RuleRows]
    BY <1>0, <1>1
  <2>2. \A c \in Clerks : ClerkFits(c)'
    BY <1>0, <1>1 DEF ClerkFits, Deciding, DecisionsLeft
  <2> QED
    BY <1>0, <1>1, <2>1, <2>2, RulesChanged
<1>2. ASSUME NEW r \in OwnRules, CreateRule(r)
      PROVE  GuardInv'
  <2>1. \A on, hits \in BOOLEAN : [there |-> TRUE, on |-> on, hits |-> hits] \in RuleRows
    BY DEF RuleRows
  <2> QED
    BY <1>0, <1>1, <1>2, <2>1 DEF CreateRule
<1>3. ASSUME NEW r \in OwnRules, DeleteRule(r)
      PROVE  GuardInv'
  BY <1>0, <1>1, <1>3, EmptyRows DEF DeleteRule
<1>4. ASSUME NEW c \in Clerks, NEW row \in ClerkRows, clerk' = [clerk EXCEPT ![c] = row],
             row.at \in {"free", "batch", "edit", "switch"},
             row.at \in {"edit", "switch"} => row.rule \in AllRules,
             rule' \in [AllRules -> RuleRows], override' \in [SystemRules -> {"none", "on", "off"}],
             UNCHANGED scan, DecisionsLeft, Rearmed
      PROVE  GuardInv'
  <2>1. clerk' \in [Clerks -> ClerkRows] /\ \A d \in Clerks : ClerkFits(d)'
    BY <1>4, ClerkChanged DEF DecisionsLeft
  <2> QED
    BY <1>4, <2>1, RulesChanged
<1>5. ASSUME NEW c \in Clerks, NEW r \in AllRules, NEW place \in {"edit", "switch"}, GetRuleByID(c, place, r)
      PROVE  GuardInv'
  <2> DEFINE on == Merged(r, rule[r], override)
             shown == [rule[r] EXCEPT !.on = on]
             row == [FreeClerk EXCEPT !.at = place, !.rule = r, !.row = shown]
  <2>0. rule[r] \in RuleRows
    BY <1>0
  <2>1. on \in BOOLEAN
    BY <2>0 DEF Merged, RuleRows
  <2> HIDE DEF on
  <2>2. shown \in RuleRows
    BY <2>0, <2>1 DEF RuleRows
  <2> HIDE DEF shown
  <2>3. row \in ClerkRows /\ row.at = place /\ row.rule = r
    BY <2>2, EmptyRows DEF ClerkRows, FreeClerk
  <2>4. /\ clerk' = [clerk EXCEPT ![c] = row] /\ RulesLeft /\ UNCHANGED scan /\ DecisionsLeft
    BY <1>5 DEF GetRuleByID, shown, on
  <2> HIDE DEF row
  <2>5. clerk' \in [Clerks -> ClerkRows] /\ \A d \in Clerks : ClerkFits(d)'
    BY <2>3, <2>4, ClerkChanged DEF DecisionsLeft
  <2>6. UNCHANGED <<exemption, approvals, denials>>
    BY <2>4 DEF DecisionsLeft
  <2>7. \A e \in Exemptions : RowIsTrue(e)'
    BY <2>6 DEF GuardInv, RowIsTrue
  <2> QED
    BY <2>4, <2>5, <2>6, <2>7, ExemptionsChanged DEF GuardInv, GuardTypeOK
<1>6. ASSUME NEW r \in AllRules, NEW row \in RuleRows
      PROVE  WriteOwnRow(r, row) => rule' \in [AllRules -> RuleRows]
  BY <1>0 DEF WriteOwnRow
<1>7. ASSUME NEW c \in Clerks, UpdateRule(c)
      PROVE  GuardInv'
  <2>1. clerk[c].rule \in AllRules /\ clerk[c].row \in RuleRows
    BY <1>0, <1>7 DEF UpdateRule, ClerkFits, ClerkRows
  <2>2. \A hits \in BOOLEAN : [clerk[c].row EXCEPT !.hits = hits] \in RuleRows
    BY <2>1 DEF RuleRows
  <2>3. rule' \in [AllRules -> RuleRows]
    BY <1>6, <1>7, <2>1, <2>2 DEF UpdateRule
  <2> QED
    BY <1>0, <1>4, <1>7, <2>3, EmptyRows DEF UpdateRule, FreeTheClerk
<1>8. ASSUME NEW r \in SystemRules, NEW on \in BOOLEAN
      PROVE  UpsertOverride(r, on) => override' \in [SystemRules -> {"none", "on", "off"}]
  BY <1>0 DEF UpsertOverride
<1>9. ASSUME NEW c \in Clerks, ToggleActive(c)
      PROVE  GuardInv'
  <2>1. clerk[c].rule \in AllRules /\ clerk[c].row \in RuleRows
    BY <1>0, <1>9 DEF ToggleActive, ClerkFits, ClerkRows
  <2> DEFINE on == ~clerk[c].row.on
             row == [clerk[c].row EXCEPT !.on = on]
  <2>2. on \in BOOLEAN /\ row \in RuleRows
    BY <2>1 DEF RuleRows
  <2>3. /\ IF clerk[c].rule \in SystemRules
           THEN UpsertOverride(clerk[c].rule, on) /\ UNCHANGED rule
           ELSE WriteOwnRow(clerk[c].rule, row) /\ UNCHANGED override
        /\ FreeTheClerk(c) /\ Rearmed /\ UNCHANGED scan /\ DecisionsLeft
    BY <1>9 DEF ToggleActive
  <2> HIDE DEF on, row
  <2>4. rule' \in [AllRules -> RuleRows] /\ override' \in [SystemRules -> {"none", "on", "off"}]
    BY <1>0, <1>6, <1>8, <2>1, <2>2, <2>3
  <2> QED
    BY <1>4, <2>3, <2>4, EmptyRows DEF FreeTheClerk
<1>10. ASSUME NEW c \in Clerks, BatchToggle(c)
       PROVE  GuardInv'
  <2>1. PICK on \in BOOLEAN, R \in SUBSET OwnRules :
          /\ rule' = [r \in AllRules |-> IF r \in R /\ rule[r].there
                                         THEN [rule[r] EXCEPT !.on = on] ELSE rule[r]]
          /\ clerk' = [clerk EXCEPT ![c] = [FreeClerk EXCEPT !.at = "batch", !.row.on = on]]
    BY <1>10 DEF BatchToggle
  <2>2. \A r \in AllRules : [rule[r] EXCEPT !.on = on] \in RuleRows
    BY <1>0 DEF RuleRows
  <2>3. rule' \in [AllRules -> RuleRows]
    BY <1>0, <2>1, <2>2
  <2> DEFINE row == [FreeClerk EXCEPT !.at = "batch", !.row.on = on]
  <2>4. row \in ClerkRows /\ row.at = "batch"
    BY EmptyRows DEF ClerkRows, RuleRows, FreeClerk
  <2> HIDE DEF row
  <2>5. /\ UNCHANGED <<override, scan>> /\ DecisionsLeft /\ Rearmed
    BY <1>10 DEF BatchToggle
  <2>6. clerk' = [clerk EXCEPT ![c] = row]
    BY <2>1 DEF row
  <2> QED
    BY <1>0, <1>4, <2>3, <2>4, <2>5, <2>6
<1>11. ASSUME NEW c \in Clerks, BatchToggleSystem(c)
       PROVE  GuardInv'
  <2>1. clerk[c].row \in RuleRows /\ clerk[c].row.on \in BOOLEAN
    BY <1>0 DEF ClerkRows, RuleRows
  <2>2. /\ UNCHANGED <<rule, scan>> /\ DecisionsLeft /\ Rearmed
        /\ \/ \E r \in SystemRules : UpsertOverride(r, clerk[c].row.on) /\ UNCHANGED clerk
           \/ FreeTheClerk(c) /\ UNCHANGED override
    BY <1>11 DEF BatchToggleSystem
  <2>3. override' \in [SystemRules -> {"none", "on", "off"}]
    BY <1>0, <1>8, <2>1, <2>2
  <2>4. clerk' \in [Clerks -> ClerkRows] /\ \A d \in Clerks : ClerkFits(d)'
    <3>1. CASE UNCHANGED clerk
      BY <1>0, <2>2, <3>1 DEF ClerkFits, Deciding, DecisionsLeft
    <3>2. CASE FreeTheClerk(c)
      BY <2>2, <3>2, ClerkChanged, EmptyRows DEF FreeTheClerk, DecisionsLeft
    <3> QED
      BY <2>2, <3>1, <3>2
  <2> QED
    BY <1>0, <2>2, <2>3, <2>4, RulesChanged
<1> QED
  BY <1>2, <1>3, <1>5, <1>7, <1>9, <1>10, <1>11 DEF RuleSteps

\* Only what waits is decided, and only once.
LEMMA ExemptionStepKept ==
  ASSUME GuardInv, ExemptionSteps
  PROVE  GuardInv'
<1>0. /\ exemption \in [Exemptions -> ExemptionRows]
      /\ clerk \in [Clerks -> ClerkRows] /\ \A c \in Clerks : ClerkFits(c)
      /\ approvals \subseteq Exemptions /\ denials \subseteq Exemptions
      /\ \A e \in Exemptions : RowIsTrue(e)
  BY DEF GuardInv, GuardTypeOK, ClerkRows
<1>1. ASSUME NEW c \in Clerks, NEW row \in ClerkRows, clerk' = [clerk EXCEPT ![c] = row],
             row.at = "ask" => row.asks.status = "pending" /\ row.asks.until = "none",
             row.at \in {"ask", "approved", "rejected"},
             row.at \in {"approved", "rejected"} =>
               /\ row.on \in Exemptions /\ exemption[row.on].status # "none"
               /\ row.who \notin {None, exemption[row.on].by},
             RulesLeft, UNCHANGED scan, DecisionsLeft
      PROVE  GuardInv'
  <2>1. UNCHANGED <<exemption, approvals, denials>>
    BY <1>1 DEF DecisionsLeft
  <2>2. clerk' \in [Clerks -> ClerkRows] /\ \A d \in Clerks : ClerkFits(d)'
    BY <1>1, <2>1, ClerkChanged
  <2>3. \A e \in Exemptions : RowIsTrue(e)'
    BY <1>0, <2>1 DEF RowIsTrue
  <2> QED
    BY <1>0, <1>1, <2>1, <2>2, <2>3, ExemptionsChanged
<1>2. ASSUME NEW c \in Clerks, NEW t \in ScannedTasks, NEW r \in AllRules, NEW u \in Staff,
             AskExemption(c, t, r, u)
      PROVE  GuardInv'
  <2> DEFINE asks == [NoExemption EXCEPT !.status = "pending", !.task = t, !.rule = r, !.by = u]
             row == [FreeClerk EXCEPT !.at = "ask", !.asks = asks]
  <2>1. asks \in ExemptionRows /\ asks.status = "pending" /\ asks.until = "none"
    BY DEF NoExemption, ExemptionRows
  <2>2. clerk' = [clerk EXCEPT ![c] = row] /\ RulesLeft /\ UNCHANGED scan /\ DecisionsLeft
    BY <1>2 DEF AskExemption
  <2> HIDE DEF asks
  <2>3. row \in ClerkRows /\ row.at = "ask" /\ row.asks = asks
    BY <2>1, EmptyRows DEF ClerkRows, FreeClerk
  <2> HIDE DEF row
  <2> QED
    BY <1>1, <2>1, <2>2, <2>3
<1>3. ASSUME NEW c \in Clerks, NEW d \in {"approved", "rejected"}, NEW e \in Exemptions,
             NEW u \in Staff, GetExemption(c, d, e, u)
      PROVE  GuardInv'
  <2> DEFINE row == [FreeClerk EXCEPT !.at = d, !.on = e, !.who = u]
  <2>1. row \in ClerkRows /\ row.at = d /\ row.on = e /\ row.who = u
    BY EmptyRows DEF ClerkRows, FreeClerk
  <2>2. /\ clerk' = [clerk EXCEPT ![c] = row] /\ RulesLeft /\ UNCHANGED scan /\ DecisionsLeft
        /\ exemption[e].status = "pending" /\ exemption[e].by # u
    BY <1>3 DEF GetExemption
  <2> HIDE DEF row
  <2> QED
    BY <1>1, <2>1, <2>2
<1>4. ASSUME NEW e \in Exemptions, NEW row \in ExemptionRows, RulesLeft, UNCHANGED scan,
             exemption' = [exemption EXCEPT ![e] = row],
             row.status # "none",
             exemption[e].status # "none" => row.by = exemption[e].by,
             NEW decisions \in SUBSET {e}, NEW refusals \in SUBSET {e},
             approvals' = approvals \cup decisions, denials' = denials \cup refusals,
             RowIsTrue(e)', exemption[e].until = "past" => row.until = "past",
             e \in approvals \ denials =>
               /\ e \in approvals' \ denials'
               /\ row.task = exemption[e].task /\ row.rule = exemption[e].rule
               /\ row.by = exemption[e].by /\ row.approvedBy = exemption[e].approvedBy,
             \/ UNCHANGED clerk
             \/ \E c \in Clerks : FreeTheClerk(c)
      PROVE  GuardInv'
  <2>1. exemption' \in [Exemptions -> ExemptionRows] /\ exemption'[e] = row
    BY <1>0, <1>4
  <2>2. \A d \in Exemptions \ {e} : /\ exemption'[d] = exemption[d]
                                    /\ d \in approvals' <=> d \in approvals
                                    /\ d \in denials' <=> d \in denials
    BY <1>0, <1>4
  <2>3. \A d \in Exemptions : RowIsTrue(d)'
    BY <1>0, <1>4, <2>2 DEF RowIsTrue
  <2>4. clerk' \in [Clerks -> ClerkRows] /\ \A c \in Clerks : ClerkFits(c)'
    <3>1. CASE UNCHANGED clerk
      BY <1>0, <1>4, <2>1, <2>2, <3>1 DEF ClerkFits, Deciding
    <3>2. ASSUME NEW c \in Clerks, FreeTheClerk(c)
          PROVE  clerk' \in [Clerks -> ClerkRows] /\ \A d \in Clerks : ClerkFits(d)'
      BY <1>4, <2>1, <2>2, <3>2, ClerkChanged, EmptyRows DEF FreeTheClerk
    <3> QED
      BY <1>4, <3>1, <3>2
  <2>5. approvals' \subseteq Exemptions /\ denials' \subseteq Exemptions
    BY <1>0, <1>4
  <2>6. \A d \in Exemptions : exemption[d].until = "past" => exemption'[d].until = "past"
    BY <1>4, <2>1, <2>2
  <2>7. \A d \in approvals \ denials :
           /\ d \in approvals' \ denials'
           /\ exemption'[d].task = exemption[d].task /\ exemption'[d].rule = exemption[d].rule
           /\ exemption'[d].by = exemption[d].by
           /\ exemption'[d].approvedBy = exemption[d].approvedBy
    BY <1>0, <1>4, <2>1, <2>2
  <2> QED
    BY <1>4, <2>1, <2>3, <2>4, <2>5, <2>6, <2>7, ExemptionsChanged
<1>5. ASSUME NEW c \in Clerks, NEW e \in Exemptions, CreateExemption(c, e)
      PROVE  GuardInv'
  <2> DEFINE row == clerk[c].asks
  <2>1. row \in ExemptionRows /\ row.status = "pending" /\ row.until = "none"
    BY <1>0, <1>5 DEF CreateExemption, ClerkFits, ClerkRows
  <2>2. /\ exemption[e].status = "none" /\ exemption' = [exemption EXCEPT ![e] = row]
        /\ FreeTheClerk(c) /\ RulesLeft /\ UNCHANGED <<scan, approvals, denials>>
    BY <1>5 DEF CreateExemption
  <2>3. e \notin approvals \cup denials /\ exemption[e].until = "none"
    BY <1>0, <2>2 DEF RowIsTrue
  <2>4. RowIsTrue(e)'
    BY <1>0, <2>1, <2>2, <2>3 DEF RowIsTrue
  <2>5. approvals' = approvals \cup {} /\ denials' = denials \cup {}
    BY <2>2
  <2> QED
    BY <1>4, <2>1, <2>2, <2>3, <2>4, <2>5
<1>6. ASSUME NEW c \in Clerks, DecideExemption(c)
      PROVE  GuardInv'
  <2>0. PICK e \in Exemptions : e = clerk[c].on
    BY <1>0, <1>6 DEF DecideExemption, ClerkFits
  <2> DEFINE decision == clerk[c].at
             until == IF decision = "approved" THEN "ahead" ELSE exemption[e].until
             row == [exemption[e] EXCEPT !.status = decision, !.approvedBy = clerk[c].who,
                                         !.until = until]
  <2>1. /\ decision \in {"approved", "rejected"} /\ clerk[c].who \in Staff \cup {None}
        /\ clerk[c].who \notin {None, exemption[e].by}
        /\ FreeTheClerk(c) /\ RulesLeft /\ UNCHANGED scan
    BY <1>0, <1>6, <2>0 DEF DecideExemption, Deciding, ClerkFits, ClerkRows
  <2>2. CASE exemption[e].status # "pending"
    <3>1. UNCHANGED <<exemption, approvals, denials>>
      BY <1>6, <2>0, <2>2 DEF DecideExemption, DecisionsLeft
    <3>2. clerk' \in [Clerks -> ClerkRows] /\ \A d \in Clerks : ClerkFits(d)'
      BY <2>1, <3>1, ClerkChanged, EmptyRows DEF FreeTheClerk
    <3>3. \A d \in Exemptions : RowIsTrue(d)'
      BY <1>0, <3>1 DEF RowIsTrue
    <3> QED
      BY <1>0, <2>1, <3>1, <3>2, <3>3, ExemptionsChanged
  <2>3. CASE exemption[e].status = "pending"
    <3>1. /\ exemption' = [exemption EXCEPT ![e] = row]
          /\ approvals' = approvals \cup {d \in {e} : decision = "approved"}
          /\ denials' = denials \cup {d \in {e} : decision = "rejected"}
      BY <1>6, <2>0, <2>3 DEF DecideExemption, WriteDecision
    <3>2. /\ exemption[e] \in ExemptionRows /\ e \notin approvals \cup denials
          /\ exemption[e].until = "none"
      BY <1>0, <2>3 DEF RowIsTrue
    <3>3. until \in {"none", "ahead", "past"}
      BY <3>2
    <3> HIDE DEF until
    <3>4. /\ row \in ExemptionRows /\ row.status = decision /\ row.by = exemption[e].by
          /\ row.approvedBy = clerk[c].who
      BY <2>1, <3>2, <3>3 DEF ExemptionRows
    <3> HIDE DEF row
    <3>5. exemption'[e] = row
      BY <1>0, <3>1
    <3>6. RowIsTrue(e)'
      BY <2>1, <3>1, <3>2, <3>4, <3>5 DEF RowIsTrue
    <3>7. {d \in {e} : decision = "approved"} \in SUBSET {e} /\ {d \in {e} : decision = "rejected"} \in SUBSET {e}
      OBVIOUS
    <3> HIDE DEF decision
    <3> QED
      BY <1>4, <2>1, <3>1, <3>2, <3>4, <3>6, <3>7
  <2> QED
    BY <2>2, <2>3
<1>7. ASSUME NEW e \in Exemptions, ValidityEnds(e)
      PROVE  GuardInv'
  <2> DEFINE row == [exemption[e] EXCEPT !.until = "past"]
  <2>1. exemption[e] \in ExemptionRows /\ exemption[e].until = "ahead"
    BY <1>0, <1>7 DEF ValidityEnds
  <2>2. /\ row \in ExemptionRows /\ row.status = exemption[e].status /\ row.by = exemption[e].by
        /\ row.approvedBy = exemption[e].approvedBy /\ row.task = exemption[e].task
        /\ row.rule = exemption[e].rule /\ row.until = "past"
    BY <2>1 DEF ExemptionRows
  <2>3. /\ exemption' = [exemption EXCEPT ![e] = row] /\ RulesLeft
        /\ UNCHANGED <<clerk, scan, approvals, denials>>
    BY <1>7 DEF ValidityEnds
  <2> HIDE DEF row
  <2>4. RowIsTrue(e) /\ exemption[e].status \notin {"none", "pending"}
    BY <1>0, <2>1 DEF RowIsTrue
  <2>5. exemption'[e] = row
    BY <1>0, <2>3
  <2>6. RowIsTrue(e)'
    BY <2>2, <2>3, <2>4, <2>5 DEF RowIsTrue
  <2>7. approvals' = approvals \cup {} /\ denials' = denials \cup {}
    BY <2>3
  <2> QED
    BY <1>4, <2>2, <2>3, <2>4, <2>6, <2>7
<1>8. CASE ExpireOverdue
  <2> DEFINE row(e) == [exemption[e] EXCEPT !.status = "expired"]
  <2>1. \A e \in Exemptions :
          /\ row(e) \in ExemptionRows /\ row(e).status = "expired" /\ row(e).by = exemption[e].by
          /\ row(e).approvedBy = exemption[e].approvedBy /\ row(e).task = exemption[e].task
          /\ row(e).rule = exemption[e].rule /\ row(e).until = exemption[e].until
    BY <1>0 DEF ExemptionRows
  <2>2. /\ exemption' = [e \in Exemptions |-> IF e \in OverdueExemptions THEN row(e) ELSE exemption[e]]
        /\ RulesLeft /\ UNCHANGED <<clerk, scan, approvals, denials>>
    BY <1>8 DEF ExpireOverdue
  <2> HIDE DEF row
  <2>3. \A e \in Exemptions :
          /\ exemption'[e] = exemption[e] \/
             (exemption'[e] = row(e) /\ exemption[e].status = "approved")
    BY <2>2 DEF OverdueExemptions
  <2>4. exemption' \in [Exemptions -> ExemptionRows]
    BY <1>0, <2>1, <2>2
  <2>5. \A e \in Exemptions : RowIsTrue(e)'
    BY <1>0, <2>1, <2>2, <2>3 DEF RowIsTrue
  <2>6. \A c \in Clerks : ClerkFits(c)'
    BY <1>0, <2>1, <2>2, <2>3 DEF ClerkFits, Deciding
  <2>7. /\ \A e \in Exemptions : exemption[e].until = "past" => exemption'[e].until = "past"
        /\ \A e \in approvals \ denials :
             /\ e \in approvals' \ denials'
             /\ exemption'[e].task = exemption[e].task /\ exemption'[e].rule = exemption[e].rule
             /\ exemption'[e].by = exemption[e].by
             /\ exemption'[e].approvedBy = exemption[e].approvedBy
    BY <1>0, <2>1, <2>2, <2>3
  <2> QED
    BY <1>0, <2>2, <2>4, <2>5, <2>6, <2>7, ExemptionsChanged
<1> QED
  BY <1>2, <1>3, <1>5, <1>6, <1>7, <1>8 DEF ExemptionSteps

\* A run finds every rule it broke all along, and goes on with those it is exempted from.
LEMMA ScanStepKept ==
  ASSUME GuardInv, ScanSteps
  PROVE  GuardInv'
<1>0. /\ rule \in [AllRules -> RuleRows] /\ scan \in [Scans -> ScanRows]
      /\ armed \in [Scans -> SUBSET AllRules] /\ InForce \subseteq AllRules
      /\ \A e \in Exemptions : RowIsTrue(e)
      /\ OwnRules \subseteq AllRules /\ SystemRules \subseteq AllRules
  BY DEF GuardInv, GuardTypeOK, ScanRows, AllRules, InForce
<1>1. ASSUME NEW w \in Scans, NEW row \in ScanRows, scan' = [scan EXCEPT ![w] = row],
             UNCHANGED <<rule, override, clerk>>, DecisionsLeft,
             armed' \in [Scans -> SUBSET AllRules],
             \A v \in Scans \ {w} : armed'[v] = armed[v],
             row.at \in {"system", "exempt"} => armed'[w] \subseteq InForce,
             row.at = "system" => armed'[w] \cap OwnRules \subseteq row.found,
             row.at = "exempt" => armed'[w] \subseteq row.found,
             \A e \in row.late : exemption[e].until = "past",
             row.at = "passed" =>
               \A r \in armed'[w] : \E e \in Exemptions \ row.late : Granted(e, row.task, r)
      PROVE  GuardInv'
  <2>1. UNCHANGED <<rule, override, clerk, exemption, approvals, denials>>
    BY <1>1 DEF DecisionsLeft
  <2>2. /\ scan' \in [Scans -> ScanRows] /\ scan'[w] = row
        /\ \A v \in Scans \ {w} : scan'[v] = scan[v]
    BY <1>0, <1>1
  <2>3. GuardTypeOK'
    BY <1>1, <2>1, <2>2 DEF GuardInv, GuardTypeOK, ScanRows
  <2>4. InForce' = InForce
    BY <2>1 DEF InForce, Broken, Merged
  <2>5. \A e \in Exemptions : RowIsTrue(e)'
    BY <1>0, <2>1 DEF RowIsTrue
  <2>6. \A c \in Clerks : ClerkFits(c)'
    BY <2>1 DEF GuardInv, ClerkFits, Deciding
  <2>7. \A v \in Scans : ScanFinds(v)'
    BY <1>1, <2>1, <2>2, <2>4 DEF GuardInv, ScanFinds
  <2>8. DangerIsStopped'
    BY <1>1, <2>1, <2>2 DEF GuardInv, DangerIsStopped, Granted
  <2> QED
    BY <2>3, <2>5, <2>6, <2>7, <2>8 DEF GuardInv
<1>2. ASSUME NEW w \in Scans, NEW t \in ScannedTasks, ListTenantActiveRules(w, t)
      PROVE  GuardInv'
  <2> DEFINE found == {r \in OwnRules : Broken(r) /\ rule[r].on}
             late == {e \in Exemptions : exemption[e].until = "past"}
             row == [at |-> "system", task |-> t, found |-> found, late |-> late]
  <2>1. InForce \cap OwnRules \subseteq found /\ found \subseteq AllRules
    BY <1>0 DEF InForce, Merged
  <2>2. row \in ScanRows /\ row.at = "system" /\ row.found = found /\ row.late = late
    BY <2>1 DEF ScanRows
  <2>3. /\ scan' = [scan EXCEPT ![w] = row] /\ armed' = [armed EXCEPT ![w] = InForce]
        /\ UNCHANGED <<rule, override, clerk>> /\ DecisionsLeft
    BY <1>2 DEF ListTenantActiveRules
  <2> HIDE DEF row, found
  <2>4. /\ armed' \in [Scans -> SUBSET AllRules] /\ armed'[w] = InForce
        /\ \A v \in Scans \ {w} : armed'[v] = armed[v]
    BY <1>0, <2>3
  <2> QED
    BY <1>1, <2>1, <2>2, <2>3, <2>4
<1>3. ASSUME NEW w \in Scans, ListSystemRules(w)
      PROVE  GuardInv'
  <2> DEFINE found == scan[w].found \cup (InForce \cap SystemRules)
             row == [scan[w] EXCEPT !.at = "exempt", !.found = found]
  <2>1. scan[w] \in ScanRows /\ scan[w].at = "system" /\ ScanFinds(w)
    BY <1>0, <1>3 DEF ListSystemRules, GuardInv
  <2>2. /\ row \in ScanRows /\ row.at = "exempt" /\ row.found = found /\ row.late = scan[w].late
    BY <1>0, <2>1 DEF ScanRows
  <2>3. armed[w] \subseteq found
    BY <1>0, <2>1 DEF ScanFinds, InForce, AllRules
  <2>4. /\ scan' = [scan EXCEPT ![w] = row] /\ RulesLeft /\ UNCHANGED clerk /\ DecisionsLeft
    BY <1>3 DEF ListSystemRules
  <2> HIDE DEF row, found
  <2> QED
    BY <1>0, <1>1, <2>1, <2>2, <2>3, <2>4 DEF ScanFinds, RulesLeft
<1>4. ASSUME NEW w \in Scans, FilterExempted(w)
      PROVE  GuardInv'
  <2> DEFINE exempted == {exemption[e].rule : e \in GetApprovedByTaskID(scan[w].task)}
             place == IF scan[w].found \subseteq exempted THEN "passed" ELSE "stopped"
             row == [scan[w] EXCEPT !.at = place]
  <2>1. scan[w] \in ScanRows /\ scan[w].at = "exempt" /\ ScanFinds(w)
    BY <1>0, <1>4 DEF FilterExempted, GuardInv
  <2>2. /\ scan' = [scan EXCEPT ![w] = row] /\ RulesLeft /\ UNCHANGED clerk /\ DecisionsLeft
    BY <1>4 DEF FilterExempted
  <2>3. place \in {"passed", "stopped"} /\ (place = "passed" => scan[w].found \subseteq exempted)
    OBVIOUS
  <2> HIDE DEF place
  <2>4. row \in ScanRows /\ row.at = place /\ row.late = scan[w].late /\ row.task = scan[w].task
    BY <2>1, <2>3 DEF ScanRows
  <2> HIDE DEF row
  <2>5. ASSUME place = "passed", NEW r \in armed[w]
        PROVE  \E e \in Exemptions \ scan[w].late : Granted(e, scan[w].task, r)
    <3>1. PICK e \in Exemptions : /\ exemption[e].rule = r /\ exemption[e].task = scan[w].task
                                  /\ exemption[e].status = "approved"
                                  /\ exemption[e].until = "ahead"
      BY <2>1, <2>3, <2>5 DEF ScanFinds, GetApprovedByTaskID
    <3> QED
      BY <1>0, <2>1, <3>1 DEF ScanFinds, RowIsTrue, Granted
  <2> QED
    BY <1>0, <1>1, <2>1, <2>2, <2>3, <2>4, <2>5 DEF ScanFinds, RulesLeft
<1> QED
  BY <1>2, <1>3, <1>4 DEF ScanSteps

LEMMA GuardInvariant == GuardSpec => []GuardInv
<1>1. GuardInit => GuardInv
  BY EmptyRows DEF GuardInit, GuardInv, GuardTypeOK, RowIsTrue, ClerkFits, Deciding, ScanFinds,
     DangerIsStopped, NoExemption, ClerkRows, ScanRows
<1>2. GuardInv /\ UNCHANGED guard => GuardInv'
  BY DEF guard, GuardInv, GuardTypeOK, RowIsTrue, ClerkFits, Deciding, ScanFinds, InForce, Broken,
     Merged, DangerIsStopped, Granted
<1>3. GuardInv /\ [GuardNext]_guard => GuardInv'
  BY <1>2, RuleStepKept, ExemptionStepKept, ScanStepKept DEF GuardNext
<1> QED
  BY <1>1, <1>3, PTL DEF GuardSpec

\* However many rules, exemptions, users and runs there are, and whatever is switched, edited,
\* decided or expires while a run is scanned, the run goes on only if each rule that it broke all
\* along was exempted by somebody else than who asked (ScanWorkspace, filterExempted).
THEOREM DangerStoppedCorrect == GuardSpec => []DangerIsStopped
<1>1. GuardInv => DangerIsStopped
  BY DEF GuardInv
<1> QED
  BY <1>1, GuardInvariant, PTL

-----------------------------------------------------------------------------
(* What a run leaves behind, and what it runs on. *)

USE EngineConstants

LEMMA OrdersAreSequences == SetToAllKPermutations(Vaults) \subseteq Seq(Vaults)
<1> SUFFICES ASSUME NEW S \in SUBSET Vaults, NEW s \in SetToSeqs(S)
             PROVE  s \in Seq(Vaults)
  BY DEF SetToAllKPermutations
<1>1. Cardinality(S) \in Nat
  BY FS_Subset, FS_CardinalityType
<1>2. s \in [1 .. Cardinality(S) -> S]
  BY DEF SetToSeqs
<1>3. s \in [1 .. Cardinality(S) -> Vaults]
  BY <1>2
<1> QED
  BY <1>1, <1>3

\* What is in a sequence, as lines are added, read, and passed on.
LEMMA RangeOfLines ==
  ASSUME NEW S, NEW s \in Seq(S)
  PROVE  /\ Range(<<>>) = {}
         /\ \A e \in S : Append(s, e) \in Seq(S) /\ Range(Append(s, e)) = Range(s) \cup {e}
         /\ s # <<>> => /\ Head(s) \in S /\ Tail(s) \in Seq(S)
                        /\ Range(s) = {Head(s)} \cup Range(Tail(s))
         /\ \A n \in 1 .. Len(s) :
              /\ SubSeq(s, 1, n) \in Seq(S) /\ SubSeq(s, n + 1, Len(s)) \in Seq(S)
              /\ Range(s) = Range(SubSeq(s, 1, n)) \cup Range(SubSeq(s, n + 1, Len(s)))
<1> USE DEF Range
<1>1. Range(<<>>) = {}
  OBVIOUS
<1>2. ASSUME NEW e \in S
      PROVE  Append(s, e) \in Seq(S) /\ Range(Append(s, e)) = Range(s) \cup {e}
  <2>1. /\ DOMAIN s = 1 .. Len(s) /\ Len(s) \in Nat
        /\ DOMAIN Append(s, e) = 1 .. Len(s) + 1
        /\ Append(s, e)[Len(s) + 1] = e
        /\ \A i \in 1 .. Len(s) : Append(s, e)[i] = s[i]
    OBVIOUS
  <2> QED
    BY <2>1
<1>3. ASSUME s # <<>>
      PROVE  /\ Head(s) \in S /\ Tail(s) \in Seq(S)
             /\ Range(s) = {Head(s)} \cup Range(Tail(s))
  <2> DEFINE rest == Tail(s)
  <2>1. /\ DOMAIN s = 1 .. Len(s) /\ Len(s) \in Nat \ {0} /\ Head(s) = s[1] /\ s[1] \in S
        /\ rest \in Seq(S) /\ DOMAIN rest = 1 .. Len(s) - 1
        /\ \A i \in 1 .. Len(s) - 1 : rest[i] = s[i + 1]
    BY <1>3
  <2> HIDE DEF rest
  <2>2. \A i \in 2 .. Len(s) : i - 1 \in 1 .. Len(s) - 1 /\ rest[i - 1] = s[i]
    BY <2>1
  <2>3. /\ \A i \in 1 .. Len(s) : i = 1 \/ i \in 2 .. Len(s)
        /\ 1 \in 1 .. Len(s) /\ \A i \in 1 .. Len(s) - 1 : i + 1 \in 1 .. Len(s)
    BY <2>1
  <2>4. ASSUME NEW i \in 1 .. Len(s)
        PROVE  s[i] \in {Head(s)} \cup Range(rest)
    <3>1. CASE i = 1
      BY <2>1, <3>1
    <3>2. CASE i \in 2 .. Len(s)
      <4>1. i - 1 \in DOMAIN rest /\ rest[i - 1] = s[i]
        BY <2>1, <2>2, <3>2
      <4> QED
        BY <4>1
    <3> QED
      BY <2>3, <3>1, <3>2
  <2>5. {Head(s)} \cup Range(rest) \subseteq Range(s)
    BY <2>1, <2>3
  <2> QED
    BY <2>1, <2>4, <2>5 DEF rest
<1>4. ASSUME NEW n \in 1 .. Len(s)
      PROVE  /\ SubSeq(s, 1, n) \in Seq(S) /\ SubSeq(s, n + 1, Len(s)) \in Seq(S)
             /\ Range(s) = Range(SubSeq(s, 1, n)) \cup Range(SubSeq(s, n + 1, Len(s)))
  <2> DEFINE read == SubSeq(s, 1, n)
             rest == SubSeq(s, n + 1, Len(s))
  <2>1. /\ DOMAIN s = 1 .. Len(s) /\ Len(s) \in Nat
        /\ read \in Seq(S) /\ DOMAIN read = 1 .. n /\ \A i \in 1 .. n : read[i] = s[i]
        /\ rest \in Seq(S) /\ DOMAIN rest = 1 .. Len(s) - n
        /\ \A i \in 1 .. Len(s) - n : rest[i] = s[n + i]
    OBVIOUS
  <2>2. \A i \in n + 1 .. Len(s) : i - n \in 1 .. Len(s) - n /\ rest[i - n] = s[i]
    BY <2>1
  <2>3. /\ \A i \in 1 .. Len(s) : i \in 1 .. n \/ i \in n + 1 .. Len(s)
        /\ \A i \in 1 .. n : i \in 1 .. Len(s)
        /\ \A i \in 1 .. Len(s) - n : n + i \in 1 .. Len(s)
    BY <2>1
  <2> HIDE DEF read, rest
  <2>4. Range(s) \subseteq Range(read) \cup Range(rest)
    BY <2>1, <2>2, <2>3
  <2>5. Range(read) \subseteq Range(s) /\ Range(rest) \subseteq Range(s)
    BY <2>1, <2>3
  <2> QED
    BY <2>1, <2>4, <2>5 DEF read, rest
<1> QED
  BY <1>1, <1>2, <1>3, <1>4

Places == {"begin", "scan", "load", "hosts", "start", "waiting", "stopping", "drain",
           "collect", "returned", "cleanup", "done"}

\* A step of the run's own goroutine that only goes on, or fails.
LEMMA GoesOn ==
  ASSUME EngineInv, NEW label \in Places, Go(label) \/ (Fail /\ label = "cleanup")
  PROVE  /\ call' \in CallRows /\ call'.at = label
         /\ call'.kind = call.kind /\ call'.bare = call.bare /\ call'.todo = call.todo
         /\ call'.parsed = call.parsed
         /\ Fail => call'.verdict = "failed"
         /\ Go(label) => call'.verdict = call.verdict
<1>1. call \in CallRows
  BY DEF EngineInv, EngineTypeOK
<1> HIDE DEF EngineInv
<1>2. CASE Go(label)
  BY <1>1, <1>2 DEF Go, Fail, CallRows, Places
<1>3. CASE Fail /\ label = "cleanup"
  BY <1>1, <1>3 DEF Go, Fail, CallRows, Places
<1> QED
  BY <1>2, <1>3

LEMMA NothingSaid ==
  ASSUME \A h \in Hosts : fate[h] = None, fate \in [Hosts -> Fates \cup {None}]
  PROVE  resolveRunStatus(Range(fate) \ {None}) = "failed"
BY DEF resolveRunStatus, Range

\* Up to the command.
LEMMA PreparingKept ==
  ASSUME EngineInv, Preparing \/ \E v \in Vaults : SwitchVault(v)
  PROVE  EngineInv'
<1>0. /\ call \in CallRows /\ enabled \subseteq Vaults /\ knows \in [Vaults -> SUBSET Hosts]
      /\ creds \in [Hosts -> Vaults \cup {None}] /\ fate \in [Hosts -> Fates \cup {None}]
  BY DEF EngineInv, EngineTypeOK
<1>1. ASSUME call.at \in Early, call' \in CallRows, call'.kind = call.kind,
             call'.parsed = call.parsed, call'.at \in Early \cup {"cleanup", "done"},
             call'.at \in {"cleanup", "done"} => call'.verdict = "failed",
             UNCHANGED <<stopped, knows, left, process>>, enabled' \subseteq Vaults,
             workdir' \in BOOLEAN, creds' \in [Hosts -> Vaults \cup {None}], CredentialsFit'
      PROVE  EngineInv'
  <2>1. EngineTypeOK'
    BY <1>1 DEF EngineInv, EngineTypeOK, process
  <2>2. PlayFits'
    BY <1>1 DEF EngineInv, PlayFits, process, Early
  <2>3. EveryLineIsKept'
    BY <1>1 DEF EngineInv, EveryLineIsKept, process
  <2>4. resolveRunStatus(Range(fate) \ {None}) = "failed"
    BY <1>0, <1>1, NothingSaid DEF EngineInv, PlayFits, EveryLineIsKept
  <2>5. ResultIsWhole'
    BY <1>1, <2>4 DEF EngineInv, ResultIsWhole, PlayFits, process, Early
  <2> QED
    BY <1>1, <2>1, <2>2, <2>3, <2>5 DEF EngineInv
<1>2. CASE PrepareWorkspace
  <2>1. call.at = "begin" /\ OutsideLeft /\ UNCHANGED <<creds, left, process>>
    BY <1>2 DEF PrepareWorkspace
  <2>2. CASE workdir' = TRUE /\ Go("scan")
    <3>1. /\ call' \in CallRows /\ call'.at = "scan" /\ call'.kind = call.kind
          /\ call'.parsed = call.parsed /\ call'.bare = call.bare /\ call'.todo = call.todo
      BY <2>2, GoesOn DEF Places
    <3>2. CredentialsFit'
      BY <2>1, <2>2, <3>1 DEF EngineInv, CredentialsFit, PlayFits, Early, OutsideLeft, process
    <3> QED
      BY <1>0, <1>1, <2>1, <2>2, <3>1, <3>2 DEF OutsideLeft, Early
  <2>3. CASE workdir' = FALSE /\ call' = [call EXCEPT !.at = "done", !.verdict = "failed"]
    <3>1. /\ call' \in CallRows /\ call'.at = "done" /\ call'.kind = call.kind
          /\ call'.verdict = "failed"
          /\ call'.parsed = call.parsed /\ call'.bare = call.bare /\ call'.todo = call.todo
      BY <1>0, <2>3 DEF CallRows
    <3>2. CredentialsFit'
      BY <2>1, <2>3, <3>1 DEF EngineInv, CredentialsFit, PlayFits, Early, OutsideLeft, process
    <3> QED
      BY <1>0, <1>1, <2>1, <2>3, <3>1, <3>2 DEF OutsideLeft, Early
  <2> QED
    BY <1>2, <2>2, <2>3 DEF PrepareWorkspace
<1>3. ASSUME NEW label \in Early \cup {"cleanup"}, Go(label) \/ (Fail /\ label = "cleanup"),
             label = "cleanup" => Fail,
             call.at \in Early \ {"begin"}, OutsideLeft, UNCHANGED <<creds, workdir, left, process>>,
             label \in {"begin", "scan", "load"} => call.at \in {"begin", "scan", "load"},
             label = "hosts" => call.at \in {"begin", "scan", "load", "hosts"},
             label = "start" => call.bare \/ \A h \in Hosts : creds[h] # None
      PROVE  EngineInv'
  <2>1. label \in Places
    BY DEF Early, Places
  <2>2. /\ call' \in CallRows /\ call'.at = label /\ call'.kind = call.kind
        /\ call'.parsed = call.parsed /\ call'.bare = call.bare /\ call'.todo = call.todo
        /\ label = "cleanup" => call'.verdict = "failed"
    BY <1>3, <2>1, GoesOn
  <2>3. CredentialsFit'
    BY <1>3, <2>2 DEF EngineInv, CredentialsFit, PlayFits, Early, OutsideLeft, process
  <2>4. label # "done" /\ workdir' \in BOOLEAN
    BY <1>3 DEF Early, EngineInv, EngineTypeOK
  <2> QED
    BY <1>0, <1>1, <1>3, <2>2, <2>3, <2>4 DEF OutsideLeft, Early
<1>4. CASE ScanWorkspace
  BY <1>3, <1>4 DEF ScanWorkspace, Early
<1>5. CASE LoadSecretProvider
  <2> DEFINE v == Head(call.asked)
             taken == [call EXCEPT !.asked = Tail(@), !.loaded = Append(@, v)]
             refused == [call EXCEPT !.asked = Tail(@)]
  <2>1. /\ call.at = "load" /\ call.asked # <<>> /\ OutsideLeft
        /\ UNCHANGED <<creds, workdir, left, process>>
        /\ \/ v \in enabled /\ call' = taken
           \/ call' = refused
    BY <1>5 DEF LoadSecretProvider
  <2>2. call.asked \in Seq(Vaults) /\ call.loaded \in Seq(Vaults)
    BY <1>0 DEF CallRows
  <2>3. v \in Vaults /\ Tail(call.asked) \in Seq(Vaults) /\ Append(call.loaded, v) \in Seq(Vaults)
    BY <2>1, <2>2, RangeOfLines
  <2> HIDE DEF v
  <2>4. /\ call' \in CallRows /\ call'.at = call.at /\ call'.kind = call.kind
        /\ call'.parsed = call.parsed /\ call'.bare = call.bare /\ call'.todo = call.todo
    BY ZenonT(40), <1>0, <2>1, <2>3 DEF CallRows
  <2>5. CredentialsFit'
    BY <2>1, <2>4 DEF EngineInv, CredentialsFit, OutsideLeft, process
  <2>6. workdir' \in BOOLEAN
    BY <2>1 DEF EngineInv, EngineTypeOK
  <2> QED
    BY <1>0, <1>1, <2>1, <2>4, <2>5, <2>6 DEF OutsideLeft, Early
<1>6. CASE ProvidersLoaded
  BY <1>3, <1>6 DEF ProvidersLoaded, Early
<1>7. ASSUME NEW h \in Hosts, ResolveHostCredential(h)
      PROVE  EngineInv'
  <2>1. /\ call.at = "hosts" /\ h \in call.todo /\ OutsideLeft
        /\ UNCHANGED <<workdir, left, process>>
    BY <1>7 DEF ResolveHostCredential
  <2>2. CASE Fail /\ UNCHANGED creds
    BY <1>3, <2>1, <2>2 DEF Early
  <2>3. CASE \E n \in 1 .. Len(call.loaded) :
               /\ h \in knows[call.loaded[n]]
               /\ creds' = [creds EXCEPT ![h] = call.loaded[n]]
               /\ call' = [call EXCEPT !.todo = @ \ {h}]
    <3>1. PICK n \in 1 .. Len(call.loaded) :
               /\ h \in knows[call.loaded[n]]
               /\ creds' = [creds EXCEPT ![h] = call.loaded[n]]
               /\ call' = [call EXCEPT !.todo = @ \ {h}]
      BY <2>3
    <3>2. call.loaded[n] \in Vaults
      BY <1>0 DEF CallRows
    <3>3. /\ call' \in CallRows /\ call'.at = call.at /\ call'.kind = call.kind
          /\ call'.parsed = call.parsed /\ call'.bare = call.bare
          /\ call'.todo = call.todo \ {h}
      BY <1>0, <3>1 DEF CallRows
    <3>4. /\ creds' \in [Hosts -> Vaults \cup {None}] /\ creds'[h] # None
          /\ h \in knows[creds'[h]]
          /\ \A g \in Hosts \ {h} : creds'[g] = creds[g]
      BY <1>0, <3>1, <3>2
    <3>5. CredentialsFit'
      BY <2>1, <3>3, <3>4 DEF EngineInv, CredentialsFit, PlayFits, Early, OutsideLeft, process
    <3>6. workdir' \in BOOLEAN
      BY <2>1 DEF EngineInv, EngineTypeOK
    <3> QED
      BY <1>0, <1>1, <2>1, <3>3, <3>4, <3>5, <3>6 DEF OutsideLeft, Early
  <2> QED
    BY <1>7, <2>2, <2>3 DEF ResolveHostCredential
<1>8. CASE WriteInventory
  <2>1. \A h \in Hosts : creds[h] # None
    BY <1>8 DEF WriteInventory, EngineInv, CredentialsFit
  <2> QED
    BY <1>3, <1>8, <2>1 DEF WriteInventory, Early
<1>9. ASSUME NEW v \in Vaults, SwitchVault(v)
      PROVE  EngineInv'
  <2>1. CredentialsFit' /\ workdir' \in BOOLEAN
    BY <1>9 DEF SwitchVault, EngineInv, EngineTypeOK, CredentialsFit, process
  <2> QED
    BY <1>0, <1>1, <1>9, <2>1 DEF SwitchVault, Early
<1> QED
  BY <1>2, <1>4, <1>5, <1>6, <1>7, <1>8, <1>9 DEF Preparing

\* The command, its play, and the lines on their way.
LEMMA CommandKept ==
  ASSUME EngineInv,
         \/ \E h \in Hosts : PlaySays(h)
         \/ PlayEnds \/ CommandExits \/ KillCommand \/ WaitReturns \/ ReadChunk \/ CollectLine
  PROVE  EngineInv'
<1>0. /\ call \in CallRows /\ fate \in [Hosts -> Fates \cup {None}]
      /\ pipe \in Seq(Fates) /\ hand \in Seq(Fates) /\ heard \in Seq(Fates)
      /\ command \in {"none", "running", "exited"} /\ play \in {"none", "running", "over"}
      /\ closed \in BOOLEAN /\ cut \in BOOLEAN /\ left \in BOOLEAN
      /\ call.kind \in {"local", "docker"}
  BY DEF EngineInv, EngineTypeOK, CallRows
<1>1. ASSUME UNCHANGED <<call, stopped, enabled, knows, creds, workdir, left>>,
             fate' \in [Hosts -> Fates \cup {None}], pipe' \in Seq(Fates), hand' \in Seq(Fates),
             heard' \in Seq(Fates), command' \in {"none", "running", "exited"},
             play' \in {"none", "running", "over"}, closed' \in BOOLEAN, cut' \in BOOLEAN,
             play' = "none" <=> play = "none", PlayFits', EveryLineIsKept', ResultIsWhole'
      PROVE  EngineInv'
  <2>1. EngineTypeOK'
    BY <1>1 DEF EngineInv, EngineTypeOK
  <2>2. CredentialsFit'
    BY <1>1 DEF EngineInv, CredentialsFit
  <2> QED
    BY <1>1, <2>1, <2>2 DEF EngineInv
<1>2. ASSUME NEW h \in Hosts, PlaySays(h)
      PROVE  EngineInv'
  <2>1. PICK f \in Fates : /\ fate' = [fate EXCEPT ![h] = f]
                           /\ IF command = "running" THEN pipe' = Append(pipe, f) /\ UNCHANGED cut
                              ELSE cut' = TRUE /\ UNCHANGED pipe
    BY <1>2 DEF PlaySays
  <2>2. /\ play = "running" /\ fate[h] = None
        /\ UNCHANGED <<call, stopped, enabled, knows, creds, workdir, left, command, play, hand,
                       heard, closed>>
    BY <1>2 DEF PlaySays
  <2>3. /\ pipe' \in Seq(Fates) /\ cut' \in BOOLEAN
        /\ ~cut' => ~cut /\ Range(pipe') = Range(pipe) \cup {f}
    <3>1. Append(pipe, f) \in Seq(Fates) /\ Range(Append(pipe, f)) = Range(pipe) \cup {f}
      BY <1>0, RangeOfLines
    <3>2. CASE command = "running"
      BY <1>0, <2>1, <3>1, <3>2
    <3>3. CASE command # "running"
      BY <1>0, <2>1, <3>3
    <3> QED
      BY <3>2, <3>3
  <2>4. Range(fate') \ {None} = (Range(fate) \ {None}) \cup {f}
    <3>1. f # None
      OBVIOUS
    <3>2. /\ DOMAIN fate = Hosts /\ DOMAIN fate' = Hosts
          /\ fate'[h] = f /\ \A g \in Hosts \ {h} : fate'[g] = fate[g]
      BY <1>0, <2>1
    <3> QED
      BY <2>2, <3>1, <3>2 DEF Range
  <2>5. PlayFits'
    BY <2>2 DEF EngineInv, PlayFits
  <2>6. EveryLineIsKept'
    BY <2>2, <2>3, <2>4 DEF EngineInv, EveryLineIsKept
  <2>7. ResultIsWhole'
    BY <2>2 DEF EngineInv, ResultIsWhole, PlayFits
  <2>8. fate' \in [Hosts -> Fates \cup {None}]
    BY <1>0, <2>1
  <2> QED
    BY <1>0, <1>1, <2>2, <2>3, <2>5, <2>6, <2>7, <2>8
<1>3. ASSUME PlayEnds \/ CommandExits \/ KillCommand
      PROVE  EngineInv'
  <2>1. /\ UNCHANGED <<call, stopped, enabled, knows, creds, workdir, left, fate, pipe, hand, heard,
                       closed, cut>>
        /\ \/ play = "running" /\ play' = "over" /\ command' = command
           \/ command = "running" /\ play = "over" /\ command' = "exited" /\ play' = play
           \/ /\ command = "running" /\ command' = "exited"
              /\ play' = IF call.kind = "local" THEN "over" ELSE play
    BY <1>3 DEF PlayEnds, CommandExits, KillCommand
  <2>2. play # "none" /\ play' # "none" /\ command # "none" /\ command' # "none"
    BY <2>1 DEF EngineInv, PlayFits
  <2>3. PlayFits'
    BY <2>1, <2>2 DEF EngineInv, PlayFits
  <2>4. EveryLineIsKept'
    BY <2>1, <2>2 DEF EngineInv, EveryLineIsKept
  <2>5. ResultIsWhole'
    BY <2>1, <2>2 DEF EngineInv, ResultIsWhole
  <2> QED
    BY <1>0, <1>1, <2>1, <2>2, <2>3, <2>4, <2>5
<1>4. CASE WaitReturns
  <2>1. /\ command = "exited" /\ closed' = TRUE /\ cut' = (cut \/ pipe # <<>>) /\ pipe' = <<>>
        /\ UNCHANGED <<call, stopped, enabled, knows, creds, workdir, left, command, play, fate,
                       hand, heard>>
    BY <1>4 DEF WaitReturns
  <2>2. cut' \in BOOLEAN /\ pipe' \in Seq(Fates) /\ (~cut' => ~cut /\ pipe' = pipe)
    <3>1. CASE pipe = <<>>
      BY <1>0, <2>1, <3>1
    <3>2. CASE pipe # <<>>
      <4>1. cut' = TRUE
        BY <2>1, <3>2
      <4> QED
        BY <2>1, <4>1
    <3> QED
      BY <3>1, <3>2
  <2>3. PlayFits' /\ EveryLineIsKept'
    BY <2>1, <2>2 DEF EngineInv, PlayFits, EveryLineIsKept
  <2>4. ResultIsWhole'
    BY <2>1, <2>2 DEF EngineInv, ResultIsWhole
  <2> QED
    BY <1>0, <1>1, <2>1, <2>2, <2>3, <2>4
<1>5. CASE ReadChunk
  <2>1. PICK n \in 1 .. Len(pipe) : /\ hand' = SubSeq(pipe, 1, n)
                                    /\ pipe' = SubSeq(pipe, n + 1, Len(pipe))
    BY <1>5 DEF ReadChunk
  <2>2. /\ hand = <<>> /\ pipe # <<>>
        /\ UNCHANGED <<call, stopped, enabled, knows, creds, workdir, left, command, play, fate,
                       heard, closed, cut>>
    BY <1>5 DEF ReadChunk
  <2>3. /\ hand' \in Seq(Fates) /\ pipe' \in Seq(Fates)
        /\ Range(hand') \cup Range(pipe') = Range(hand) \cup Range(pipe)
    BY <1>0, <2>1, <2>2, RangeOfLines
  <2>4. PlayFits' /\ EveryLineIsKept'
    BY <2>2, <2>3 DEF EngineInv, PlayFits, EveryLineIsKept
  <2>5. ResultIsWhole'
    BY <2>2, <2>3 DEF EngineInv, ResultIsWhole
  <2> QED
    BY <1>0, <1>1, <2>2, <2>3, <2>4, <2>5
<1>6. CASE CollectLine
  <2>1. /\ hand # <<>> /\ heard' = Append(heard, Head(hand)) /\ hand' = Tail(hand)
        /\ UNCHANGED <<call, stopped, enabled, knows, creds, workdir, left, command, play, fate,
                       pipe, closed, cut>>
    BY <1>6 DEF CollectLine
  <2>2. /\ Head(hand) \in Fates /\ Tail(hand) \in Seq(Fates)
        /\ Range(hand) = {Head(hand)} \cup Range(Tail(hand))
    BY <1>0, <2>1, RangeOfLines
  <2>3. heard' \in Seq(Fates) /\ Range(heard') = Range(heard) \cup {Head(hand)}
    BY <1>0, <2>1, <2>2, RangeOfLines
  <2>4. PlayFits' /\ EveryLineIsKept'
    BY <2>1, <2>2, <2>3 DEF EngineInv, PlayFits, EveryLineIsKept
  <2>5. ResultIsWhole'
    BY <2>1 DEF EngineInv, ResultIsWhole
  <2> QED
    BY <1>0, <1>1, <2>1, <2>2, <2>3, <2>4, <2>5
<1> QED
  BY <1>2, <1>3, <1>4, <1>5, <1>6

\* The run's own goroutine, from the command to the end.
LEMMA WaitingKept ==
  ASSUME EngineInv,
         \/ StartCommand \/ TakeCancelled \/ TakeEnded \/ StopContainer
         \/ CancelledResult \/ BuildResult \/ PersistRunResult \/ ReleaseWorkspace \/ ContextEnds
  PROVE  EngineInv'
<1>0. /\ call \in CallRows /\ fate \in [Hosts -> Fates \cup {None}]
      /\ stopped \in {"no", "cancelled", "late"}
      /\ command \in {"none", "running", "exited"} /\ play \in {"none", "running", "over"}
      /\ left \in BOOLEAN /\ workdir \in BOOLEAN /\ call.kind \in {"local", "docker"}
      /\ Range(<<>>) = {}
  BY RangeOfLines DEF EngineInv, EngineTypeOK, CallRows
<1>1. ASSUME call' \in CallRows, stopped' \in {"no", "cancelled", "late"}, workdir' \in BOOLEAN,
             left' \in BOOLEAN, command' \in {"none", "running", "exited"},
             play' \in {"none", "running", "over"},
             UNCHANGED <<enabled, knows, creds, fate, pipe, hand, heard, closed, cut>>,
             call'.bare = call.bare, call'.at \notin Early \/ UNCHANGED call,
             call'.at \notin {"begin", "done"} => workdir',
             play # "none" \/ call.at = "start" \/ play' = "none",
             play' = "none" => play = "none", PlayFits', ResultIsWhole'
      PROVE  EngineInv'
  <2>1. EngineTypeOK'
    BY <1>1 DEF EngineInv, EngineTypeOK
  <2>2. CredentialsFit'
    BY <1>1 DEF EngineInv, CredentialsFit, Early
  <2>3. EveryLineIsKept'
    BY <1>1 DEF EngineInv, EveryLineIsKept
  <2> QED
    BY <1>1, <2>1, <2>2, <2>3 DEF EngineInv
<1> USE DEF Places
<1>2. CASE StartCommand
  <2>1. /\ call.at = "start" /\ OutsideLeft
        /\ UNCHANGED <<creds, workdir, left, fate, pipe, hand, heard, closed, cut>>
        /\ \/ command' = "running" /\ play' = "running" /\ Go("waiting")
           \/ Go("returned") /\ UNCHANGED <<command, play>>
    BY <1>2 DEF StartCommand
  <2>2. /\ call' \in CallRows /\ call'.kind = call.kind /\ call'.bare = call.bare
        /\ call'.parsed = call.parsed
        /\ \/ command' = "running" /\ play' = "running" /\ call'.at = "waiting"
           \/ call'.at = "returned" /\ UNCHANGED <<command, play>>
    BY <2>1, GoesOn
  <2>3. command = "none" /\ play = "none" /\ ~left /\ ~closed
    BY <2>1 DEF EngineInv, PlayFits, Early
  <2>4. PlayFits' /\ ResultIsWhole'
    BY <2>1, <2>2, <2>3 DEF EngineInv, PlayFits, ResultIsWhole, OutsideLeft, Early
  <2>5. workdir
    BY <2>1 DEF EngineInv, CredentialsFit
  <2>6. call'.at \notin Early
    BY <2>2 DEF Early
  <2> QED
    BY <1>0, <1>1, <2>1, <2>2, <2>3, <2>4, <2>5, <2>6 DEF OutsideLeft
<1>3. CASE TakeCancelled \/ CancelledResult
  <2> DEFINE label == IF call.at = "drain" THEN "returned"
                      ELSE IF call.kind = "docker" THEN "stopping" ELSE "drain"
  <2>1. /\ \/ call.at = "waiting" /\ stopped # "no"
           \/ call.at = "drain" /\ closed
        /\ Go(label) /\ OutsideLeft /\ UNCHANGED <<creds, workdir, left, process>>
    BY <1>3 DEF TakeCancelled, CancelledResult
  <2>2. label \in Places /\ label \in {"returned", "stopping", "drain"}
    OBVIOUS
  <2>3. /\ call' \in CallRows /\ call'.kind = call.kind /\ call'.bare = call.bare
        /\ call'.parsed = call.parsed /\ call'.at = label
    BY <2>1, <2>2, GoesOn
  <2>4. PlayFits' /\ ResultIsWhole'
    BY <1>0, <2>1, <2>2, <2>3 DEF EngineInv, PlayFits, ResultIsWhole, OutsideLeft, Early, process
  <2>5. workdir
    BY <2>1 DEF EngineInv, CredentialsFit
  <2>6. call'.at \notin Early
    BY <2>2, <2>3 DEF Early
  <2>7. play # "none"
    BY <2>1 DEF EngineInv, PlayFits
  <2> QED
    BY <1>0, <1>1, <2>1, <2>3, <2>4, <2>5, <2>6, <2>7 DEF OutsideLeft, process
<1>4. CASE TakeEnded
  <2>1. /\ call.at = "waiting" /\ closed /\ Go("collect") /\ left' = (play = "running")
        /\ OutsideLeft /\ UNCHANGED <<creds, workdir, process>>
    BY <1>4 DEF TakeEnded
  <2>2. /\ call' \in CallRows /\ call'.kind = call.kind /\ call'.bare = call.bare
        /\ call'.parsed = call.parsed /\ call'.at = "collect"
    BY <2>1, GoesOn
  <2>3. left' \in BOOLEAN /\ (left' <=> play = "running") /\ ~left
    BY <2>1 DEF EngineInv, PlayFits
  <2>4. PlayFits' /\ ResultIsWhole'
    BY <1>0, <2>1, <2>2, <2>3 DEF EngineInv, PlayFits, ResultIsWhole, OutsideLeft, Early, process
  <2>5. workdir /\ play # "none"
    BY <2>1 DEF EngineInv, CredentialsFit, PlayFits
  <2>6. call'.at \notin Early
    BY <2>2 DEF Early
  <2> QED
    BY <1>0, <1>1, <2>1, <2>2, <2>3, <2>4, <2>5, <2>6 DEF OutsideLeft, process
<1>5. CASE StopContainer
  <2>1. /\ call.at = "stopping" /\ Go("drain") /\ OutsideLeft
        /\ \/ play' = "over" /\ UNCHANGED left
           \/ left' = TRUE /\ UNCHANGED play
        /\ UNCHANGED <<creds, workdir, command, fate, pipe, hand, heard, closed, cut>>
    BY <1>5 DEF StopContainer
  <2>2. /\ call' \in CallRows /\ call'.kind = call.kind /\ call'.bare = call.bare
        /\ call'.parsed = call.parsed /\ call'.at = "drain"
    BY <2>1, GoesOn
  <2>3. PlayFits' /\ ResultIsWhole'
    BY <1>0, <2>1, <2>2 DEF EngineInv, PlayFits, ResultIsWhole, OutsideLeft, Early
  <2>4. workdir /\ play # "none"
    BY <2>1 DEF EngineInv, CredentialsFit, PlayFits
  <2>5. call'.at \notin Early
    BY <2>2 DEF Early
  <2> QED
    BY <1>0, <1>1, <2>1, <2>2, <2>3, <2>4, <2>5 DEF OutsideLeft
<1>6. CASE BuildResult
  <2>1. PICK parsed \in BOOLEAN : /\ parsed \/ stopped # "no"
                                  /\ call' = [call EXCEPT !.at = "returned", !.parsed = parsed]
    BY <1>6 DEF BuildResult
  <2>2. /\ call.at = "collect" /\ pipe = <<>> /\ hand = <<>>
        /\ OutsideLeft /\ UNCHANGED <<creds, workdir, left, process>>
    BY <1>6 DEF BuildResult, ReaderDone
  <2>3. /\ call' \in CallRows /\ call'.kind = call.kind /\ call'.bare = call.bare
        /\ call'.parsed = parsed /\ call'.at = "returned"
    BY <1>0, <2>1 DEF CallRows
  <2>4. PlayFits' /\ ResultIsWhole'
    BY <1>0, <2>1, <2>2, <2>3 DEF EngineInv, PlayFits, ResultIsWhole, OutsideLeft, Early, process
  <2>5. workdir /\ play # "none"
    BY <2>2 DEF EngineInv, CredentialsFit, PlayFits
  <2>6. call'.at \notin Early
    BY <2>3 DEF Early
  <2> QED
    BY <1>0, <1>1, <2>2, <2>3, <2>4, <2>5, <2>6 DEF OutsideLeft, process
<1>7. CASE PersistRunResult
  <2> DEFINE verdict == IF stopped # "cancelled" /\ call.parsed
                        THEN resolveRunStatus(Range(heard)) ELSE "failed"
  <2>1. /\ call.at = "returned" /\ call' = [call EXCEPT !.at = "cleanup", !.verdict = verdict]
        /\ OutsideLeft /\ UNCHANGED <<creds, workdir, left, process>>
    BY <1>7 DEF PersistRunResult
  <2>2. verdict \in {"success", "partial", "failed"}
    BY DEF resolveRunStatus
  <2>3. ASSUME stopped = "no", ~left, ~cut
        PROVE  verdict = resolveRunStatus(Range(fate) \ {None})
    <3>1. CASE call.parsed
      <4>1. hand = <<>> /\ pipe = <<>>
        BY <2>1, <2>3, <3>1 DEF EngineInv, ResultIsWhole
      <4>2. Range(fate) \ {None} = Range(heard)
        BY <1>0, <2>3, <4>1 DEF EngineInv, EveryLineIsKept
      <4> QED
        BY <2>3, <3>1, <4>2
    <3>2. CASE ~call.parsed
      <4>1. \A h \in Hosts : fate[h] = None
        BY <2>1, <2>3, <3>2 DEF EngineInv, ResultIsWhole, EveryLineIsKept
      <4> QED
        BY <1>0, <3>2, <4>1, NothingSaid
    <3> QED
      BY <3>1, <3>2
  <2> HIDE DEF verdict
  <2>4. /\ call' \in CallRows /\ call'.kind = call.kind /\ call'.bare = call.bare
        /\ call'.verdict = verdict /\ call'.at = "cleanup"
    BY <1>0, <2>1, <2>2 DEF CallRows
  <2>5. PlayFits'
    BY <1>0, <2>1, <2>4 DEF EngineInv, PlayFits, OutsideLeft, Early, process
  <2>6. ResultIsWhole'
    BY <2>1, <2>3, <2>4 DEF ResultIsWhole, OutsideLeft, Early, process
  <2>7. workdir
    BY <2>1 DEF EngineInv, CredentialsFit
  <2>8. call'.at \notin Early
    BY <2>4 DEF Early
  <2> QED
    BY <1>0, <1>1, <2>1, <2>4, <2>5, <2>6, <2>7, <2>8 DEF OutsideLeft, process
<1>8. CASE ReleaseWorkspace
  <2>1. /\ call.at = "cleanup" /\ workdir' = FALSE /\ Go("done")
        /\ OutsideLeft /\ UNCHANGED <<creds, left, process>>
    BY <1>8 DEF ReleaseWorkspace
  <2>2. /\ call' \in CallRows /\ call'.kind = call.kind /\ call'.bare = call.bare
        /\ call'.at = "done" /\ call'.verdict = call.verdict
    BY <2>1, GoesOn
  <2>3. PlayFits'
    BY <1>0, <2>1, <2>2 DEF EngineInv, PlayFits, OutsideLeft, Early, process
  <2>4. ResultIsWhole'
    BY <2>1, <2>2 DEF EngineInv, ResultIsWhole, OutsideLeft, Early, process
  <2>5. call'.at \notin Early
    BY <2>2 DEF Early
  <2> QED
    BY <1>0, <1>1, <2>1, <2>2, <2>3, <2>4, <2>5 DEF OutsideLeft, process
<1>9. CASE ContextEnds
  <2>1. /\ stopped' \in {"cancelled", "late"}
        /\ UNCHANGED <<call, enabled, knows, creds, workdir, left, process>>
    BY <1>9 DEF ContextEnds
  <2>2. PlayFits' /\ ResultIsWhole'
    BY <2>1 DEF EngineInv, PlayFits, ResultIsWhole, process
  <2>3. call.at \notin {"begin", "done"} => workdir
    BY DEF EngineInv, CredentialsFit
  <2> QED
    BY <1>0, <1>1, <2>1, <2>2, <2>3 DEF process
<1> QED
  BY <1>2, <1>3, <1>4, <1>5, <1>6, <1>7, <1>8, <1>9

LEMMA EngineInvariant == EngineSpec => []EngineInv
<1>1. EngineInit => EngineInv
  <2> SUFFICES ASSUME EngineInit PROVE EngineInv
    OBVIOUS
  <2>1. PICK kind \in {"local", "docker"}, order \in SetToAllKPermutations(Vaults) :
          call = [at |-> "begin", kind |-> kind, asked |-> order, loaded |-> <<>>,
                  bare |-> order = <<>>, todo |-> Hosts, parsed |-> FALSE, verdict |-> None]
    BY DEF EngineInit
  <2>2. order \in Seq(Vaults)
    BY OrdersAreSequences
  <2>3. /\ call \in CallRows /\ call.at = "begin" /\ call.todo = Hosts /\ ~call.parsed
        /\ call.kind \in {"local", "docker"}
    BY <2>1, <2>2 DEF CallRows
  <2>4. Range(fate) \ {None} = {} /\ Range(<<>>) = {}
    <3>1. \A h \in DOMAIN fate : fate[h] = None
      BY DEF EngineInit
    <3>2. \A x \in Range(fate) : x = None
      BY <3>1 DEF Range
    <3>3. Range(<<>>) = {}
      BY DEF Range
    <3> QED
      BY <3>2, <3>3
  <2>5. EngineTypeOK
    <3>1. <<>> \in Seq(Fates)
      OBVIOUS
    <3>2. {pipe, hand, heard} \subseteq Seq(Fates)
      BY <3>1 DEF EngineInit
    <3> QED
      BY <2>3, <3>2 DEF EngineInit, EngineTypeOK
  <2>6. PlayFits /\ ResultIsWhole /\ CredentialsFit
    BY <2>3 DEF EngineInit, PlayFits, ResultIsWhole, CredentialsFit, Early
  <2>7. EveryLineIsKept
    BY <2>4 DEF EngineInit, EveryLineIsKept
  <2> QED
    BY <2>5, <2>6, <2>7 DEF EngineInv
<1>2. EngineInv /\ UNCHANGED engine => EngineInv'
  BY DEF engine, process, EngineInv, EngineTypeOK, PlayFits, EveryLineIsKept, ResultIsWhole,
     CredentialsFit
<1>3. EngineInv /\ [EngineNext]_engine => EngineInv'
  BY <1>2, PreparingKept, CommandKept, WaitingKept DEF EngineNext
<1> QED
  BY <1>1, <1>3, PTL DEF EngineSpec

\* However many hosts a run has and however its goroutines take turns, a run that nothing
\* stopped and whose output was read to its end has the status its play left its hosts in
\* (waitStreamingCommand, collectStreamingOutput, persistRunResult).
THEOREM VerdictCorrect == EngineSpec => []VerdictIsThePlays
<1>1. EngineInv => VerdictIsThePlays
  BY DEF EngineInv, ResultIsWhole, VerdictIsThePlays
<1> QED
  BY <1>1, EngineInvariant, PTL

\* A play never runs without its workspace, nor without the credentials of a host, but for a
\* container that was left running (runExecution, buildInventoryWithAuth).
THEOREM WorkspaceCorrect == EngineSpec => []PlayHasItsWorkspace
<1>1. EngineInv => PlayHasItsWorkspace
  BY DEF EngineInv, PlayFits, CredentialsFit, PlayHasItsWorkspace, Early
<1> QED
  BY <1>1, EngineInvariant, PTL

-----------------------------------------------------------------------------
(* Rows. *)

USE ReferenceConstants

EditRows == [at : {"idle", "create", "update", "delete"},
             id : Objects \cup {None}, names : Names]

LEMMA EmptyEdits ==
  /\ Nothing \in Names /\ Nothing.to = {} /\ Nothing.listed = {}
  /\ NoEdit \in EditRows /\ NoEdit.at = "idle" /\ NoEdit.names = Nothing
BY DEF Nothing, Names, NoEdit, EditRows

\* Nothing that goes with another row is named in JSON, or keeps a third one.
LEMMA KindsApart ==
  ASSUME NEW x, NEW t, NEW o, Pair(t, o) \in Cascade, Pair(x, t) \in Columns \cup InJSON
  PROVE  Pair(x, t) \in Columns /\ Pair(x, t) \notin Cascade
BY DEF Pair, Cascade, Columns, Restricting, SetNull, InJSON

\* A column names no template.
LEMMA ColumnsNameNoTemplate ==
  ASSUME NEW x, NEW t, KindOf[t] = "template"
  PROVE  Pair(x, t) \notin Columns
BY DEF Pair, Columns, Cascade, Restricting, SetNull

\* What a request may name is of kinds its row may name.
LEMMA MayNameFits ==
  ASSUME NEW o \in Objects, NEW T \in MayName(o), NEW L \in MayList(o, T), ids \subseteq Objects
  PROVE  NamesFit(o, [to |-> T, listed |-> L])
<1>1. T \subseteq Objects /\ \A t \in T : Pair(o, t) \in Columns \cup InJSON
  BY DEF MayName
<1>2. L \subseteq T /\ \A t \in L : KindOf[t] = "template"
  BY DEF MayList, OfKind
<1> QED
  BY <1>1, <1>2 DEF NamesFit, Names

\* A request that has looked keeps the invariant, if what it names is there or need not be.
LEMMA EntersKeeps ==
  ASSUME RowsInv, NEW u \in Editors, NEW place \in {"create", "update"}, NEW o \in Objects,
         NEW N, NamesFit(o, N), edit[u] = NoEdit, Enters(u, place, o, N),
         \A t \in N.to : Guarded(o, t) \/ t \in rows \cup raced \cup N.listed,
         place = "create" => o \notin rows /\ \A v \in Editors : edit[v].id # o,
         place = "update" => o \in rows
  PROVE  RowsInv'
<1> DEFINE req == [at |-> place, id |-> o, names |-> N]
<1>1. /\ edit' = [edit EXCEPT ![u] = req] /\ UNCHANGED <<ids, keys, rows, names>>
      /\ raced' = raced \cup {t \in N.to : BeingDeleted(t)}
  BY DEF Enters
<1>2. /\ req \in EditRows /\ req.at = place /\ req.id = o /\ req.names = N
  BY DEF EditRows, NamesFit
<1>3. edit \in [Editors -> EditRows] /\ N.to \subseteq Objects
  BY DEF RowsInv, RowsFit, EditRows, NamesFit, Names
<1> HIDE DEF req
<1>4. edit'[u] = req /\ \A v \in Editors \ {u} : edit'[v] = edit[v]
  BY <1>1, <1>3
<1>5. RowsFit'
  <2>1. edit' \in [Editors -> EditRows] /\ raced' \subseteq Objects
    BY <1>1, <1>2, <1>3 DEF RowsInv, RowsFit
  <2>2. \A x \in rows' : NamesFit(x, names[x])'
    BY <1>1 DEF RowsInv, RowsFit, NamesFit
  <2>3. \A v \in Editors : /\ Saving(v)' => NamesFit(edit[v].id, edit[v].names)'
                           /\ edit'[v].at # "idle" => edit'[v].id \in Objects
                           /\ ~Saving(v)' => edit'[v].names = Nothing
    BY <1>2, <1>4 DEF RowsInv, RowsFit, Saving, NamesFit
  <2> QED
    BY <1>1, <2>1, <2>2, <2>3 DEF RowsInv, RowsFit, EditRows
<1>6. ReferencesExist'
  BY <1>1 DEF RowsInv, ReferencesExist
<1>7. ASSUME NEW v \in Editors
      PROVE  NamesHold(v)'
  BY <1>1, <1>2, <1>4, <1>7 DEF RowsInv, NamesHold, Saving, Guarded
<1>8. ASSUME NEW v \in Editors
      PROVE  CreatesAlone(v)'
  BY <1>1, <1>2, <1>4, <1>8 DEF RowsInv, CreatesAlone
<1>9. ASSUME NEW v \in Editors
      PROVE  DeletesUnnamed(v)'
  <2>1. SUFFICES ASSUME edit'[v].at = "delete"
                 PROVE  DeletesUnnamed(v)'
    BY DEF DeletesUnnamed
  <2>2. v # u /\ edit'[v] = edit[v]
    BY <1>2, <1>4, <1>9, <2>1
  <2>3. edit[v].id \in N.to => edit[v].id \in raced'
    BY <1>1, <1>9, <2>1, <2>2 DEF BeingDeleted
  <2> QED
    BY <1>1, <1>2, <1>4, <1>9, <2>1, <2>2, <2>3 DEF RowsInv, DeletesUnnamed, Saving
<1> QED
  BY <1>1, <1>5, <1>6, <1>7, <1>8, <1>9 DEF RowsInv

\* A request that gives up keeps the invariant.
LEMMA EditFailsKeeps ==
  ASSUME RowsInv, NEW u \in Editors, EditFails(u)
  PROVE  RowsInv'
<1>1. edit' = [edit EXCEPT ![u] = NoEdit] /\ UNCHANGED <<ids, keys, rows, names, raced>>
  BY DEF EditFails
<1>2. edit \in [Editors -> EditRows]
  BY DEF RowsInv, RowsFit, EditRows
<1>3. edit'[u] = NoEdit /\ \A v \in Editors \ {u} : edit'[v] = edit[v]
  BY <1>1, <1>2
<1>4. RowsFit'
  <2>1. edit' \in [Editors -> EditRows]
    BY <1>1, <1>2, EmptyEdits
  <2>2. \A x \in rows' : NamesFit(x, names[x])'
    BY <1>1 DEF RowsInv, RowsFit, NamesFit
  <2>3. \A v \in Editors : /\ Saving(v)' => NamesFit(edit[v].id, edit[v].names)'
                           /\ edit'[v].at # "idle" => edit'[v].id \in Objects
                           /\ ~Saving(v)' => edit'[v].names = Nothing
    BY <1>3, EmptyEdits DEF RowsInv, RowsFit, Saving, NamesFit
  <2> QED
    BY <1>1, <2>1, <2>2, <2>3 DEF RowsInv, RowsFit, EditRows
<1>5. ReferencesExist'
  BY <1>1 DEF RowsInv, ReferencesExist
<1>6. \A v \in Editors : NamesHold(v)' /\ DeletesUnnamed(v)'
  BY <1>1, <1>3, EmptyEdits DEF RowsInv, NamesHold, Saving, Guarded, DeletesUnnamed
<1>7. \A v \in Editors : CreatesAlone(v)'
  <2>1. \A v \in Editors : edit[v].at = "create" => edit[v].id # None
    BY DEF RowsInv, RowsFit
  <2> QED
    BY <1>1, <1>3, <2>1, EmptyEdits DEF RowsInv, CreatesAlone, NoEdit
<1> QED
  BY <1>1, <1>4, <1>5, <1>6, <1>7 DEF RowsInv

\* The looks: a create, an update, a review that is confirmed.
LEMMA LooksKeep ==
  ASSUME RowsInv, NEW u \in Editors, NEW o \in Objects,
         Create(u, o) \/ Update(u, o) \/ ConfirmReview(u, o)
  PROVE  RowsInv'
<1>1. CASE Create(u, o)
  <2>1. PICK T \in MayName(o) : \E L \in MayList(o, T) :
          T \subseteq rows /\ Enters(u, "create", o, [to |-> T, listed |-> L])
    BY <1>1 DEF Create
  <2>2. PICK L \in MayList(o, T) :
          T \subseteq rows /\ Enters(u, "create", o, [to |-> T, listed |-> L])
    BY <2>1
  <2>3. NamesFit(o, [to |-> T, listed |-> L])
    BY MayNameFits DEF RowsInv
  <2>4. edit[u] = NoEdit /\ o \notin rows /\ \A v \in Editors : edit[v].id # o
    BY <1>1 DEF Create, Unmentioned
  <2> QED
    BY <2>2, <2>3, <2>4, EntersKeeps
<1>2. CASE Update(u, o)
  <2> DEFINE kept(T) == {t \in T \cap names[o].to : Pair(o, t) \in Cascade \cup Restricting}
  <2>1. PICK T \in MayName(o) : \E L \in MayList(o, T) :
          T \ kept(T) \subseteq rows /\ Enters(u, "update", o, [to |-> T, listed |-> L])
    BY <1>2 DEF Update
  <2>2. PICK L \in MayList(o, T) :
          T \ kept(T) \subseteq rows /\ Enters(u, "update", o, [to |-> T, listed |-> L])
    BY <2>1
  <2>3. NamesFit(o, [to |-> T, listed |-> L])
    BY MayNameFits DEF RowsInv
  <2>4. edit[u] = NoEdit /\ o \in rows
    BY <1>2 DEF Update
  <2>5. \A t \in kept(T) : Guarded(o, t) \/ t \in rows \cup raced
    BY <2>4, ColumnsNameNoTemplate
       DEF RowsInv, RowsFit, NamesFit, ReferencesExist, Guarded, Columns
  <2> HIDE DEF kept
  <2>6. \A t \in T : Guarded(o, t) \/ t \in rows \cup raced \cup L
    BY <2>2, <2>5
  <2> QED
    BY <2>2, <2>3, <2>4, <2>6, EntersKeeps
<1>3. CASE ConfirmReview(u, o)
  <2>1. edit[u] = NoEdit /\ o \in rows /\ Enters(u, "update", o, names[o])
    BY <1>3 DEF ConfirmReview
  <2>2. NamesFit(o, names[o])
    BY <2>1 DEF RowsInv, RowsFit
  <2>3. \A t \in names[o].to : Guarded(o, t) \/ t \in rows \cup raced \cup names[o].listed
    BY <2>1 DEF RowsInv, ReferencesExist
  <2> QED
    BY <2>1, <2>2, <2>3, EntersKeeps
<1> QED
  BY <1>1, <1>2, <1>3

\* A delete that has counted: whoever names the row from now on runs beside it.
LEMMA CountKeeps ==
  ASSUME RowsInv, NEW u \in Editors, NEW o \in Objects, CountUsers(u, o)
  PROVE  RowsInv'
<1> DEFINE req == [NoEdit EXCEPT !.at = "delete", !.id = o]
<1>1. /\ edit[u] = NoEdit /\ o \in rows /\ edit' = [edit EXCEPT ![u] = req]
      /\ UNCHANGED <<ids, keys, rows, names>>
      /\ \A x \in rows : o \in names[x].to => o \in names[x].listed
      /\ raced \subseteq raced' /\ raced' \subseteq raced \cup {o}
      /\ BeingNamed(o) => o \in raced'
  BY DEF CountUsers, BeginDelete, NamedBy
<1>2. req \in EditRows /\ req.at = "delete" /\ req.id = o /\ req.names = Nothing
  BY EmptyEdits DEF EditRows, NoEdit
<1>3. edit \in [Editors -> EditRows]
  BY DEF RowsInv, RowsFit, EditRows
<1> HIDE DEF req
<1>4. edit'[u] = req /\ \A v \in Editors \ {u} : edit'[v] = edit[v]
  BY <1>1, <1>3
<1>5. RowsFit'
  <2>1. edit' \in [Editors -> EditRows] /\ raced' \subseteq Objects
    BY <1>1, <1>2, <1>3 DEF RowsInv, RowsFit
  <2>2. \A x \in rows' : NamesFit(x, names[x])'
    BY <1>1 DEF RowsInv, RowsFit, NamesFit
  <2>3. \A v \in Editors : /\ Saving(v)' => NamesFit(edit[v].id, edit[v].names)'
                           /\ edit'[v].at # "idle" => edit'[v].id \in Objects
                           /\ ~Saving(v)' => edit'[v].names = Nothing
    BY <1>2, <1>4 DEF RowsInv, RowsFit, Saving, NamesFit
  <2> QED
    BY <1>1, <2>1, <2>2, <2>3 DEF RowsInv, RowsFit, EditRows
<1>6. ReferencesExist'
  BY <1>1 DEF RowsInv, ReferencesExist
<1>7. \A v \in Editors : NamesHold(v)' /\ CreatesAlone(v)'
  BY <1>1, <1>2, <1>4 DEF RowsInv, NamesHold, CreatesAlone, Saving, Guarded
<1>8. ASSUME NEW v \in Editors
      PROVE  DeletesUnnamed(v)'
  <2>1. \A w \in Editors : Saving(w)' => w # u /\ Saving(w) /\ edit'[w].names = edit[w].names
    BY <1>2, <1>4 DEF Saving
  <2>2. CASE v = u
    BY <1>1, <1>2, <1>4, <2>1, <2>2 DEF DeletesUnnamed, BeingNamed
  <2>3. CASE v # u
    BY <1>1, <1>4, <1>8, <2>1, <2>3 DEF RowsInv, DeletesUnnamed
  <2> QED
    BY <2>2, <2>3
<1> QED
  BY <1>1, <1>5, <1>6, <1>7, <1>8 DEF RowsInv

\* A write.
LEMMA SaveKeeps ==
  ASSUME RowsInv, NEW u \in Editors, Save(u)
  PROVE  RowsInv'
<1> DEFINE o == edit[u].id
           N == edit[u].names
           writes == edit[u].at = "create" \/ o \in rows
<1>1. /\ Saving(u) /\ UNCHANGED <<ids, keys>> /\ edit' = [edit EXCEPT ![u] = NoEdit]
      /\ \A t \in N.to : Guarded(o, t) => t \in rows
      /\ raced' \subseteq raced
      /\ raced \subseteq raced' \cup {o}
      /\ edit[u].at = "update" => raced' = raced
      /\ writes => rows' = rows \cup {o} /\ names' = [names EXCEPT ![o] = N]
      /\ ~writes => rows' = rows /\ names' = names
  BY DEF Save, Saving, Guarded
<1>2. edit \in [Editors -> EditRows] /\ names \in [Objects -> Names]
  BY DEF RowsInv, RowsFit, EditRows
<1>3. edit'[u] = NoEdit /\ \A v \in Editors \ {u} : edit'[v] = edit[v]
  BY <1>1, <1>2
<1>4. o \in Objects /\ NamesFit(o, N) /\ N \in Names
  BY <1>1 DEF RowsInv, RowsFit, Saving, NamesFit
<1>5. \A x \in Objects : names'[x] = IF writes /\ x = o THEN N ELSE names[x]
  BY <1>1, <1>2, <1>4
<1>6. rows \subseteq rows' /\ rows' \subseteq rows \cup {o} /\ (writes => o \in rows')
  BY <1>1
\* What this write frees of having been raced for is there.
<1>7. raced \ raced' \subseteq rows'
  BY <1>1, <1>6 DEF Saving
<1>8. edit[u].at = "create" => \A v \in Editors \ {u} : edit[v].id # o
  BY DEF RowsInv, CreatesAlone
<1>9. \A t \in N.to : Guarded(o, t) \/ t \in rows \cup raced \cup N.listed
  BY <1>1 DEF RowsInv, NamesHold
<1>10. rows \subseteq Objects
  BY DEF RowsInv, RowsFit
<1>11. \A v \in Editors : Saving(v)' => v # u /\ Saving(v)
  BY <1>3, EmptyEdits DEF Saving
<1>12. \A v \in Editors : edit[v].at # "idle" => edit[v].id # None
  BY DEF RowsInv, RowsFit
<1> HIDE DEF writes
<1>13. RowsFit'
  <2>1. edit' \in [Editors -> EditRows] /\ names' \in [Objects -> Names]
        /\ rows' \subseteq Objects /\ raced' \subseteq Objects
    <3>1. edit' \in [Editors -> EditRows]
      BY <1>1, <1>2, EmptyEdits
    <3>2. names' \in [Objects -> Names]
      BY <1>1, <1>2, <1>4
    <3> QED
      BY <3>1, <3>2, <1>1, <1>4, <1>6, <1>10 DEF RowsInv, RowsFit
  <2>2. \A x \in rows' : NamesFit(x, names[x])'
    <3>1. SUFFICES ASSUME NEW x \in rows'
                   PROVE  NamesFit(x, names'[x])
      BY DEF NamesFit
    <3>2. CASE writes /\ x = o
      BY <1>4, <1>5, <3>2
    <3>3. CASE ~(writes /\ x = o)
      <4>1. x \in rows /\ x \in Objects
        BY <1>1, <1>10, <3>1, <3>3 DEF writes
      <4> QED
        BY <1>5, <3>3, <4>1 DEF RowsInv, RowsFit
    <3> QED
      BY <3>2, <3>3
  <2>3. \A v \in Editors : /\ Saving(v)' => NamesFit(edit[v].id, edit[v].names)'
                           /\ edit'[v].at # "idle" => edit'[v].id \in Objects
                           /\ ~Saving(v)' => edit'[v].names = Nothing
    BY <1>3, EmptyEdits DEF RowsInv, RowsFit, Saving, NamesFit
  <2> QED
    BY <2>1, <2>2, <2>3 DEF RowsFit, EditRows
<1>14. ReferencesExist'
  <2>1. SUFFICES ASSUME NEW x \in rows', NEW t \in names'[x].to, t \notin rows'
                 PROVE  ~Guarded(x, t)' /\ t \in raced' \cup names'[x].listed
    BY DEF ReferencesExist, Guarded
  <2>2. Guarded(x, t)' <=> Guarded(x, t)
    BY <1>1 DEF Guarded
  <2>3. CASE writes /\ x = o
    BY <1>1, <1>4, <1>5, <1>6, <1>7, <1>9, <2>1, <2>2, <2>3
  <2>4. CASE ~(writes /\ x = o)
    <3>1. x \in rows
      BY <1>1, <2>1, <2>4 DEF writes
    <3> QED
      BY <1>5, <1>6, <1>7, <1>10, <2>1, <2>2, <2>4, <3>1 DEF RowsInv, ReferencesExist, Guarded
  <2> QED
    BY <2>3, <2>4
<1>15. ASSUME NEW v \in Editors
       PROVE  NamesHold(v)'
  BY <1>1, <1>3, <1>6, <1>7, <1>11, <1>15 DEF RowsInv, NamesHold, Guarded
<1>16. ASSUME NEW v \in Editors
       PROVE  CreatesAlone(v)'
  <2>1. SUFFICES ASSUME edit'[v].at = "create"
                 PROVE  edit'[v].id \notin rows' /\ \A w \in Editors \ {v} : edit'[w].id # edit'[v].id
    BY DEF CreatesAlone
  <2>2. v # u /\ edit'[v] = edit[v]
    BY <1>3, <1>16, <2>1, EmptyEdits
  <2>3. edit[v].id \notin rows /\ \A w \in Editors \ {v} : edit[w].id # edit[v].id
    BY <2>1, <2>2 DEF RowsInv, CreatesAlone
  <2>4. edit[v].id # o
    BY <2>2, <2>3
  <2> QED
    BY <1>3, <1>6, <1>12, <2>1, <2>2, <2>3, <2>4 DEF NoEdit
<1>17. ASSUME NEW v \in Editors
       PROVE  DeletesUnnamed(v)'
  <2>1. SUFFICES ASSUME edit'[v].at = "delete"
                 PROVE  DeletesUnnamed(v)'
    BY DEF DeletesUnnamed
  <2>2. v # u /\ edit'[v] = edit[v]
    BY <1>3, <1>17, <2>1, EmptyEdits
  <2> DEFINE d == edit[v].id
  <2>3. d \in raced => d \in raced'
    BY <1>1, <1>8, <2>2 DEF Saving
  <2>4. /\ \A x \in rows : d \in names[x].to => d \in raced \cup names[x].listed
        /\ \A w \in Editors : Saving(w) /\ d \in edit[w].names.to => d \in raced
    BY <1>17, <2>1, <2>2 DEF RowsInv, DeletesUnnamed
  <2> HIDE DEF d
  <2>5. \A x \in rows' : d \in names'[x].to => d \in raced' \cup names'[x].listed
    <3>1. SUFFICES ASSUME NEW x \in rows', d \in names'[x].to
                   PROVE  d \in raced' \cup names'[x].listed
      OBVIOUS
    <3>2. CASE writes /\ x = o
      BY <1>1, <1>4, <1>5, <2>3, <2>4, <3>1, <3>2
    <3>3. CASE ~(writes /\ x = o)
      <4>1. x \in rows
        BY <1>1, <3>1, <3>3 DEF writes
      <4> QED
        BY <1>5, <1>10, <2>3, <2>4, <3>1, <3>3, <4>1
    <3> QED
      BY <3>2, <3>3
  <2>6. \A w \in Editors : Saving(w)' /\ d \in edit'[w].names.to => d \in raced'
    BY <1>3, <1>11, <2>3, <2>4
  <2> QED
    BY <2>2, <2>5, <2>6 DEF DeletesUnnamed, d
<1> QED
  BY <1>1, <1>13, <1>14, <1>15, <1>16, <1>17 DEF RowsInv

\* A delete: what goes with the row is named in JSON by nobody.
LEMMA DeleteKeeps ==
  ASSUME RowsInv, NEW u \in Editors, Delete(u)
  PROVE  RowsInv'
<1> DEFINE o == edit[u].id
           gone == GoWith(o)
<1>1. /\ edit[u].at = "delete" /\ UNCHANGED <<ids, keys, raced>>
      /\ edit' = [edit EXCEPT ![u] = NoEdit]
      /\ rows' = rows \ gone
      /\ keys => \A x \in rows \ gone : \A t \in names[x].to \cap gone :
                   Pair(x, t) \notin Restricting
  BY DEF Delete
<1>2. names' = [x \in Objects |->
                  IF x \in gone THEN Nothing
                  ELSE [names[x] EXCEPT !.to = {t \in @ : ~(/\ keys
                                                            /\ t \in gone
                                                            /\ Pair(x, t) \in SetNull)}]]
  BY DEF Delete
<1>3. edit \in [Editors -> EditRows] /\ names \in [Objects -> Names] /\ rows \subseteq Objects
  BY DEF RowsInv, RowsFit, EditRows
<1>4. edit'[u] = NoEdit /\ \A v \in Editors \ {u} : edit'[v] = edit[v]
  BY <1>1, <1>3
<1>5. /\ o \in gone
      /\ \A t \in gone : t # o => keys /\ Pair(t, o) \in Cascade
      /\ keys => \A x \in rows : o \in names[x].to /\ Pair(x, o) \in Cascade => x \in gone
  BY DEF GoWith
<1> HIDE DEF gone
<1>6. ASSUME NEW x \in Objects, x \notin gone
      PROVE  /\ names'[x] \in Names /\ names'[x].listed = names[x].listed
             /\ names'[x].to \subseteq names[x].to
             /\ keys => \A t \in names'[x].to \cap gone : Pair(x, t) \notin SetNull
  <2> DEFINE rest == {t \in names[x].to : ~(keys /\ t \in gone /\ Pair(x, t) \in SetNull)}
  <2>1. names'[x] = [names[x] EXCEPT !.to = rest]
    BY <1>2, <1>6
  <2>2. names[x] \in Names /\ names[x].to \subseteq Objects /\ rest \subseteq names[x].to
    BY <1>3 DEF Names
  <2>3. keys => \A t \in rest \cap gone : Pair(x, t) \notin SetNull
    OBVIOUS
  <2> HIDE DEF rest
  <2>4. names'[x] \in Names /\ names'[x].listed = names[x].listed /\ names'[x].to = rest
    BY <2>1, <2>2 DEF Names
  <2> QED
    BY <2>2, <2>3, <2>4
<1>7. names' \in [Objects -> Names]
  <2>1. \A x \in Objects : names'[x] \in Names
    BY <1>2, <1>6, EmptyEdits
  <2> QED
    BY <1>2, <2>1
<1>8. \A v \in Editors : Saving(v)' => v # u /\ Saving(v)
  BY <1>4, EmptyEdits DEF Saving
\* A name of what went with the row is a column, that keeps or loses it.
<1>9. ASSUME NEW x, NEW t \in gone, t # o, Pair(x, t) \in Columns \cup InJSON
      PROVE  Guarded(x, t) /\ Pair(x, t) \notin Cascade
  BY <1>5, <1>9, KindsApart DEF Guarded
<1>10. RowsFit'
  <2>1. edit' \in [Editors -> EditRows]
    BY <1>1, <1>3, EmptyEdits
  <2>2. \A x \in rows' : NamesFit(x, names[x])'
    <3>1. SUFFICES ASSUME NEW x \in rows'
                   PROVE  NamesFit(x, names'[x])
      BY DEF NamesFit
    <3>2. x \in rows /\ x \in Objects /\ x \notin gone
      BY <1>1, <1>3, <3>1
    <3>3. NamesFit(x, names[x])
      BY <3>2 DEF RowsInv, RowsFit
    <3> QED
      BY <1>6, <3>2, <3>3 DEF NamesFit
  <2>3. \A v \in Editors : /\ Saving(v)' => NamesFit(edit[v].id, edit[v].names)'
                           /\ edit'[v].at # "idle" => edit'[v].id \in Objects
                           /\ ~Saving(v)' => edit'[v].names = Nothing
    BY <1>4, EmptyEdits DEF RowsInv, RowsFit, Saving, NamesFit
  <2> QED
    BY <1>1, <1>7, <2>1, <2>2, <2>3 DEF RowsInv, RowsFit, EditRows
<1>11. ASSUME NEW x \in rows, x \notin gone, o \in names[x].to
       PROVE  o \in raced \cup names[x].listed
  BY <1>1, <1>11 DEF RowsInv, DeletesUnnamed
<1>12. ReferencesExist'
  <2>1. SUFFICES ASSUME NEW x \in rows', NEW t \in names'[x].to, t \notin rows'
                 PROVE  ~Guarded(x, t) /\ t \in raced \cup names[x].listed
    <3>1. \A x \in rows' : x \in Objects /\ x \notin gone
      BY <1>1, <1>3
    <3>2. \A x \in rows' : names'[x].listed = names[x].listed
      BY <1>6, <3>1
    <3> QED
      BY <1>1, <2>1, <3>2 DEF ReferencesExist, Guarded
  <2>2. x \in rows /\ x \in Objects /\ x \notin gone
    BY <1>1, <1>3, <2>1
  <2>3. t \in names[x].to /\ (keys /\ t \in gone => Pair(x, t) \notin SetNull)
    BY <1>6, <2>1, <2>2
  <2>4. Pair(x, t) \in Columns \cup InJSON
    BY <2>2, <2>3 DEF RowsInv, RowsFit, NamesFit
  <2>5. CASE t \notin gone
    BY <1>1, <2>1, <2>2, <2>3, <2>5 DEF RowsInv, ReferencesExist, Guarded
  <2>6. CASE t = o
    <3>1. ~Guarded(x, t)
      BY <1>1, <1>5, <2>2, <2>3, <2>6 DEF Guarded, Columns
    <3> QED
      BY <1>11, <2>2, <2>3, <2>6, <3>1
  <2>7. CASE t \in gone /\ t # o
    BY <1>1, <1>9, <2>2, <2>3, <2>4, <2>7 DEF Guarded, Columns
  <2> QED
    BY <2>5, <2>6, <2>7
<1>13. ASSUME NEW v \in Editors
       PROVE  NamesHold(v)'
  <2>1. SUFFICES ASSUME Saving(v)'
                 PROVE  \A t \in edit'[v].names.to :
                          \/ Guarded(edit[v].id, t)'
                          \/ t \in rows' \cup raced' \cup edit'[v].names.listed
    BY DEF NamesHold
  <2>2. v # u /\ Saving(v) /\ edit'[v] = edit[v]
    BY <1>4, <1>8, <1>13, <2>1
  <2>3. \A t \in edit[v].names.to : /\ Pair(edit[v].id, t) \in Columns \cup InJSON
                                    /\ \/ Guarded(edit[v].id, t)
                                       \/ t \in rows \cup raced \cup edit[v].names.listed
    BY <1>13, <2>2 DEF RowsInv, RowsFit, NamesFit, NamesHold
  <2>4. o \in edit[v].names.to => o \in raced
    BY <1>1, <1>13, <2>2 DEF RowsInv, DeletesUnnamed
  <2>5. \A t \in edit[v].names.to : t \in gone /\ t # o => Guarded(edit[v].id, t)
    BY <1>9, <2>3
  <2>6. \A t : Guarded(edit[v].id, t)' <=> Guarded(edit[v].id, t)
    BY <1>1, <2>2 DEF Guarded
  <2> QED
    BY <1>1, <2>2, <2>3, <2>4, <2>5, <2>6
<1>14. ASSUME NEW v \in Editors
       PROVE  CreatesAlone(v)'
  <2>1. edit[v].at = "create" => edit[v].id # None
    BY DEF RowsInv, RowsFit
  <2> QED
    BY <1>1, <1>4, <1>14, <2>1, EmptyEdits DEF RowsInv, CreatesAlone, NoEdit
<1>15. ASSUME NEW v \in Editors
       PROVE  DeletesUnnamed(v)'
  <2>1. SUFFICES ASSUME edit'[v].at = "delete"
                 PROVE  DeletesUnnamed(v)'
    BY DEF DeletesUnnamed
  <2>2. v # u /\ edit'[v] = edit[v]
    BY <1>4, <1>15, <2>1, EmptyEdits
  <2> DEFINE d == edit[v].id
  <2>3. /\ \A x \in rows : d \in names[x].to => d \in raced \cup names[x].listed
        /\ \A w \in Editors : Saving(w) /\ d \in edit[w].names.to => d \in raced
    BY <1>15, <2>1, <2>2 DEF RowsInv, DeletesUnnamed
  <2> HIDE DEF d
  <2>4. \A x \in rows' : d \in names'[x].to => d \in raced \cup names'[x].listed
    BY <1>1, <1>3, <1>6, <2>3
  <2>5. \A w \in Editors : Saving(w)' /\ d \in edit'[w].names.to => d \in raced
    BY <1>4, <1>8, <2>3
  <2> QED
    BY <1>1, <2>2, <2>4, <2>5 DEF DeletesUnnamed, d
<1> QED
  BY <1>1, <1>10, <1>12, <1>13, <1>14, <1>15 DEF RowsInv

THEOREM RowsInvariant == ReferencesSpec => []RowsInv
<1>1. ReferencesInit => RowsInv
  BY EmptyEdits DEF ReferencesInit, RowsInv, RowsFit, ReferencesExist, NamesHold, CreatesAlone,
     DeletesUnnamed, Saving, NoEdit, EditRows
<1>2. ASSUME RowsInv, UNCHANGED references
      PROVE  RowsInv'
  BY <1>2 DEF references, RowsInv, RowsFit, NamesFit, ReferencesExist, NamesHold, Guarded,
     CreatesAlone, DeletesUnnamed, Saving
<1>3. ASSUME RowsInv, ReferencesNext
      PROVE  RowsInv'
  BY <1>3, LooksKeep, CountKeeps, SaveKeeps, DeleteKeeps, EditFailsKeeps DEF ReferencesNext
<1> QED
  BY <1>1, <1>2, <1>3, PTL DEF ReferencesSpec

\* However saves and deletes of rows that name one another take turns, with foreign keys or
\* without them, whatever a row names is there, but for what was named while it was being
\* deleted, and for a template that only a flow's notification_configs name
\* (validateTaskForSave, validateFlowGraph, the counts of DeleteTask, DeleteChannel and the like).
THEOREM NamesCorrect == ReferencesSpec => []ReferencesExist
<1>1. RowsInv => ReferencesExist
  BY DEF RowsInv
<1> QED
  BY <1>1, RowsInvariant, PTL
=============================================================================
