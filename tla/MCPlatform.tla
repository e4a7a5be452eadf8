----------------------------- MODULE MCPlatform -----------------------------
(* Instances for TLC of modules that share no variable: a behaviour is of one  *)
(* of them, chosen at the start, while the others stay where they are.      *)
EXTENDS Accounts, TenantAccess, Tenancy, DryRun, References, EventStreams, CommandGuard,
        RunEngine, SequencesExt, TLC

CONSTANTS w1, w2, u1, u2, x1, x2, s1, s2, s3, admin, m1, m2, begin, ask, exec, more, stop,
          mail, i1, repo, playbook1, task1, schedule, secret, template, channel, solution,
          flow1, rule1, stream1, note1, note2, system1, own1, scan1, waiver1, waiver2,
          p1, p2, h1, h2, v1, v2

TwoWorkers == {w1, w2}
TwoUsers == {u1, u2}
TwoIds == {x1, x2}
ThreeSessions == {s1, s2, s3}
OneRequester == {admin}
TwoMembers == {m1, m2}
OneAdmin == {m1}
OneEmail == {mail}
OneInvitation == {i1}

FiveNodes == {begin, ask, exec, more, stop}
Edge(n, h, m) == [source |-> n, handle |-> h, target |-> m]

\* The edges a draft chooses from, in the order they are drawn; None is no node.
SomeEdges == <<Edge(begin, "", ask), Edge(begin, "", None),
               Edge(ask, "approved", exec), Edge(ask, "rejected", more),
               Edge(ask, "", stop),
               Edge(exec, "success", more), Edge(exec, "failed", stop),
               Edge(more, "", stop), Edge(more, "", exec)>>

\* The kinds of the node more.
TypesWith(kind) == begin :> "start" @@ ask :> "approval" @@ exec :> "execution" @@
                   more :> kind @@ stop :> "end"

\* The types of its nodes and the target its condition names: none, a node it has, or
\* one it lacks.
SomeNodes ==
  {<<TypesWith("task"), None>>, <<TypesWith("condition"), None>>, <<TypesWith("condition"), exec>>,
   <<Restrict(TypesWith("condition"), FiveNodes \ {stop}), stop>>}

SomeDrafts ==
  {[type |-> nodes[1], trueTarget |-> nodes[2],
    edges |-> SelectSeq(SomeEdges, LAMBDA e : e \in chosen)] :
   nodes \in SomeNodes, chosen \in SUBSET Range(SomeEdges)}

Tables == playbook1 :> "playbook" @@ repo :> "repo" @@ task1 :> "task" @@
          schedule :> "schedule" @@ secret :> "source" @@ template :> "template" @@
          channel :> "channel" @@ solution :> "solution" @@ flow1 :> "flow" @@
          rule1 :> "rule"
AllRows == DOMAIN Tables

\* The rows around a task and those around a flow.
SomeWorlds == {{repo, playbook1, task1, schedule}, {repo, playbook1, task1, secret},
               {repo, playbook1, task1, template, channel},
               {repo, playbook1, task1, flow1},
               {flow1, template, channel}, {flow1, solution, rule1}}

OneStream == {stream1}
TwoMessages == {note1, note2}
OneSystemRule == {system1}
OneOwnRule == {own1}
TwoExemptions == {waiver1, waiver2}
TwoStaff == {p1, p2}
OneScan == {scan1}
OneTask == {task1}

\* A run asks for no vault, or for one that knows a host and then for one that knows all.
TwoHosts == {h1, h2}
TwoVaults == {v1, v2}
SomeVaults == {<<>>, <<v1, v2>>}
SomeSecrets == v1 :> {h1} @@ v2 :> {h1, h2}

VARIABLE part   \* the module a behaviour is of

people == <<accounts, access, tenancy>>
work == <<references, streams, guard, engine>>
platform == <<part, people, trial, work>>

\* Accounts are alike until they are made, and so are sessions: they are made in order.
TakenInOrder ==
  /\ user[u2].row # "none" => user[u1].row # "none"
  /\ session[s3] # NoSession => session[s2] # NoSession
  /\ session[s2] # NoSession => session[s1] # NoSession

PlatformInit ==
  /\ part \in {"accounts", "sessions", "access", "tenancy", "dryrun",
                "references", "flows", "messages", "rules", "exemptions", "engine"}
  /\ AccountsInit /\ TakenInOrder
  /\ AccessInit /\ (part # "access" => approvers = {})
  /\ TenancyInit
  /\ TrialInit
  /\ part # "dryrun" => flow.type[more] = "task" /\ flow.edges = <<>> /\ at = begin
  /\ ReferencesInit /\ (part # "references" => keys /\ ids = {flow1, solution, rule1})
  /\ StreamsInit
  /\ GuardInit /\ (part # "rules" => \A r \in AllRules : rule[r] = [there |-> TRUE, on |-> TRUE,
                                                              hits |-> TRUE])
  /\ EngineInit /\ knows = SomeSecrets /\ call.asked \in SomeVaults
  /\ part # "engine" => call.kind = "local" /\ call.bare /\ enabled = {}

\* Accounts are looked at twice: administered while no two requests about them overlap
\* and two sessions are enough, and left alone while sessions are refreshed and ended.
Administration == /\ part = "accounts" /\ UNCHANGED <<part, access, tenancy, trial, work>>
                  /\ LoggingIn \/ Administering
                  /\ TakenInOrder' /\ orderly' /\ session'[s3] = NoSession
SessionSteps == /\ part = "sessions" /\ UNCHANGED <<part, access, tenancy, trial, work>>
                /\ LoggingIn \/ Refreshing
                /\ TakenInOrder'
AccessSteps == /\ part = "access" /\ UNCHANGED <<part, accounts, tenancy, trial, work>>
               /\ AccessNext
TrialSteps == part = "dryrun" /\ UNCHANGED <<part, people, work>> /\ TrialNext

SeatWork == {"add", "promote", "role", "remove"}

\* A request that manages seats is looked at beside registrations, but not beside another
\* one, and while the tenant is active; a role of its own is there only beside such
\* requests; and nothing more happens once the invitation is exempted.
TenancySteps == /\ part = "tenancy" /\ UNCHANGED <<part, accounts, access, trial, work>>
                /\ spoiled # Invitations
                /\ Inviting \/ Managing
                /\ own' => /\ tenant' = "active"
                            /\ \A d \in Desks : desk'[d].at \in {"free"} \cup SeatWork
                /\ \A d \in Desks :
                     desk'[d].at \in SeatWork \cup {"save", "invite"} =>
                       /\ desk'[d].at \in SeatWork => tenant' = "active"
                       /\ \A e \in Desks \ {d} :
                            desk'[e].at \in {"free", "check", "register"} \cup Registering

ReferenceSteps == /\ part = "references"
                  /\ UNCHANGED <<part, people, trial, streams, guard, engine>>
                  /\ ReferencesNext

StreamSteps == /\ UNCHANGED <<part, people, trial, references, guard, engine>>
               /\ \/ part = "flows" /\ FlowStreamsNext
                  \/ part = "messages" /\ MessageStreamsNext

\* The rules change while a run is scanned, or the exemptions do.
GuardSteps == /\ UNCHANGED <<part, people, trial, references, streams, engine>>
              /\ \/ part = "rules" /\ RuleSteps
                 \/ part = "exemptions" /\ ExemptionSteps
                 \/ part \in {"rules", "exemptions"} /\ ScanSteps

EngineSteps == /\ part = "engine"
               /\ UNCHANGED <<part, people, trial, references, streams, guard>>
               /\ EngineNext

PlatformNext == \/ Administration \/ SessionSteps \/ AccessSteps \/ TenancySteps
                \/ TrialSteps
                \/ ReferenceSteps \/ StreamSteps \/ GuardSteps \/ EngineSteps

PlatformSpec == PlatformInit /\ [][PlatformNext]_platform

Symmetry == UNION {Permutations(S) : S \in {TwoWorkers, TwoIds}}

\* The variables of every module have their types.
PlatformTypeOK == /\ AccountsTypeOK /\ AccessTypeOK /\ TenancyTypeOK /\ TrialTypeOK
                  /\ ReferencesTypeOK /\ StreamsTypeOK /\ GuardTypeOK /\ EngineTypeOK
=============================================================================
