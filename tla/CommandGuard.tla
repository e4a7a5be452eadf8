------------------------------ MODULE CommandGuard ------------------------------
(***************************************************************************)
(* What keeps a run from executing a dangerous command: the rules of the    *)
(* command blacklist as one tenant sees them, the exemptions its users ask  *)
(* for and others grant, and the scan of a run's workspace, which stops the *)
(* run unless each rule it finds broken is exempted for its task.           *)
(*                                                                         *)
(* A handler reads a row, decides, and writes.  Whether the pattern of a    *)
(* rule occurs in a workspace is a bit of the rule, changed with its        *)
(* pattern; the workspace is a copy of the run's own and does not change.   *)
(***************************************************************************)
EXTENDS Null

CONSTANTS SystemRules,  \* rows of command_blacklist that belong to no tenant
          OwnRules,     \* those of the tenant
          Exemptions,   \* rows of blacklist_exemptions
          ScannedTasks, \* task templates
          Staff,        \* users of the tenant
          Clerks,       \* their requests at work at once
          Scans         \* runs that scan their workspace

ASSUME GuardConstants == /\ SystemRules \cap OwnRules = {}
                         /\ None \notin SystemRules \cup OwnRules \cup Exemptions \cup Staff

VARIABLES
  rule,       \* the rows of the blacklist
  override,   \* tenant_blacklist_overrides: what the tenant set a system rule to
  exemption,  \* the rows of exemptions
  clerk,      \* what each request has read
  scan,       \* how far each run is
  approvals,  \* exemptions whose approver was answered with success (history)
  denials,    \* exemptions whose rejection was answered with success (history)
  armed       \* by run: the rules broken and in force ever since it began (history)

guard == <<rule, override, exemption, clerk, scan, approvals, denials, armed>>

AllRules == SystemRules \cup OwnRules

RuleRows == [there : BOOLEAN, on : BOOLEAN, hits : BOOLEAN]
NoRule == [there |-> FALSE, on |-> FALSE, hits |-> FALSE]

ExemptionRows == [status : {"none", "pending", "approved", "rejected", "expired"},
                  task : ScannedTasks \cup {None}, rule : AllRules \cup {None},
                  by : Staff \cup {None}, approvedBy : Staff \cup {None},
                  until : {"none", "ahead", "past"}]
NoExemption == [status |-> "none", task |-> None, rule |-> None, by |-> None,
                approvedBy |-> None, until |-> "none"]

\* What a request carries from its reads to its write.
FreeClerk == [at |-> "free", rule |-> None, row |-> NoRule, on |-> None, asks |-> NoExemption,
              who |-> None]
NotScanning == [at |-> "idle", task |-> None, found |-> {}, late |-> {}]

GuardTypeOK ==
  /\ rule \in [AllRules -> RuleRows]
  /\ override \in [SystemRules -> {"none", "on", "off"}]
  /\ exemption \in [Exemptions -> ExemptionRows]
  /\ clerk \in [Clerks -> [at : {"free", "edit", "switch", "batch", "ask", "approved",
                                 "rejected"},
                           rule : AllRules \cup {None}, row : RuleRows,
                           on : Exemptions \cup {None}, asks : ExemptionRows,
                           who : Staff \cup {None}]]
  /\ scan \in [Scans -> [at : {"idle", "system", "exempt", "passed", "stopped"},
                         task : ScannedTasks \cup {None}, found : SUBSET AllRules,
                         late : SUBSET Exemptions]]
  /\ approvals \subseteq Exemptions /\ denials \subseteq Exemptions
  /\ armed \in [Scans -> SUBSET AllRules]

GuardInit ==
  /\ rule \in [AllRules -> RuleRows]
  /\ \A r \in AllRules : rule[r].there \/ (r \in OwnRules /\ rule[r] = NoRule)
  /\ override = [r \in SystemRules |-> "none"]
  /\ exemption = [e \in Exemptions |-> NoExemption]
  /\ clerk = [c \in Clerks |-> FreeClerk]
  /\ scan = [w \in Scans |-> NotScanning]
  /\ approvals = {} /\ denials = {}
  /\ armed = [w \in Scans |-> {}]

FreeTheClerk(c) == clerk' = [clerk EXCEPT ![c] = FreeClerk]
-----------------------------------------------------------------------------
(* Rules *)

\* The tenant's setting of a system rule goes before the row's own.
Merged(r, row, o) == IF r \in SystemRules /\ o[r] # "none" THEN o[r] = "on" ELSE row.on

\* A line of a file that is scanned matches the pattern.
Broken(r) == rule[r].there /\ rule[r].hits

InForce == {r \in AllRules : Broken(r) /\ Merged(r, rule[r], override)}

\* What a change of rules does to the history of the runs that scan.
Rearmed == armed' = [w \in Scans |-> armed[w] \cap InForce']

RulesLeft == UNCHANGED <<rule, override, armed>>
DecisionsLeft == UNCHANGED <<exemption, approvals, denials>>

\* A rule is inactive unless the request says otherwise, and never a system rule.
CreateRule(r) ==
  /\ r \in OwnRules /\ ~rule[r].there
  /\ \E on \in BOOLEAN, hits \in BOOLEAN :
       rule' = [rule EXCEPT ![r] = [there |-> TRUE, on |-> on, hits |-> hits]]
  /\ UNCHANGED <<override, clerk, scan>> /\ DecisionsLeft
  /\ Rearmed

\* GetByID shows a system rule with the tenant's setting.
GetRuleByID(c, at, r) ==
  /\ clerk[c].at = "free" /\ rule[r].there
  /\ clerk' = [clerk EXCEPT ![c] = [FreeClerk EXCEPT !.at = at, !.rule = r,
                 !.row = [rule[r] EXCEPT !.on = Merged(r, rule[r], override)]]]
  /\ RulesLeft /\ UNCHANGED scan /\ DecisionsLeft

\* The write of a whole row read before touches a row of the tenant that is there still.
WriteOwnRow(r, row) ==
  rule' = IF r \in OwnRules /\ rule[r].there THEN [rule EXCEPT ![r] = row] ELSE rule

\* An edit may change the pattern; a system rule stays as it is, and nobody is told.
UpdateRule(c) ==
  /\ clerk[c].at = "edit"
  /\ \E hits \in BOOLEAN :
       WriteOwnRow(clerk[c].rule, [clerk[c].row EXCEPT !.hits = hits])
  /\ FreeTheClerk(c)
  /\ UNCHANGED <<override, scan>> /\ DecisionsLeft
  /\ Rearmed

UpsertOverride(r, on) ==
  override' = [override EXCEPT ![r] = IF on THEN "on" ELSE "off"]

ToggleActive(c) ==
  /\ clerk[c].at = "switch"
  /\ LET r == clerk[c].rule
         on == ~clerk[c].row.on
     IN  IF r \in SystemRules
         THEN UpsertOverride(r, on) /\ UNCHANGED rule
         ELSE WriteOwnRow(r, [clerk[c].row EXCEPT !.on = on]) /\ UNCHANGED override
  /\ FreeTheClerk(c) /\ Rearmed
  /\ UNCHANGED scan /\ DecisionsLeft

\* The tenant's rules of a batch are switched by one statement, the system rules behind
\* it, here all of them, by one each, of which one may fail.
BatchToggle(c) ==
  /\ clerk[c].at = "free"
  /\ \E on \in BOOLEAN, R \in SUBSET OwnRules :
       /\ rule' = [r \in AllRules |-> IF r \in R /\ rule[r].there
                                      THEN [rule[r] EXCEPT !.on = on] ELSE rule[r]]
       /\ clerk' = [clerk EXCEPT ![c] = [FreeClerk EXCEPT !.at = "batch", !.row.on = on]]
  /\ UNCHANGED <<override, scan>> /\ DecisionsLeft
  /\ Rearmed

BatchToggleSystem(c) ==
  /\ clerk[c].at = "batch"
  /\ \/ \E r \in SystemRules : UpsertOverride(r, clerk[c].row.on) /\ UNCHANGED clerk
     \/ FreeTheClerk(c) /\ UNCHANGED override
  /\ UNCHANGED <<rule, scan>> /\ DecisionsLeft
  /\ Rearmed

DeleteRule(r) ==
  /\ r \in OwnRules /\ rule[r].there
  /\ rule' = [rule EXCEPT ![r] = NoRule]
  /\ UNCHANGED <<override, clerk, scan>> /\ DecisionsLeft
  /\ Rearmed
-----------------------------------------------------------------------------
(* Exemptions *)

\* One request for a task and a rule waits at a time, as far as the count can tell.
CheckDuplicate(t, r) ==
  \E e \in Exemptions : /\ exemption[e].status = "pending"
                        /\ exemption[e].task = t /\ exemption[e].rule = r

AskExemption(c, t, r, u) ==
  /\ clerk[c].at = "free" /\ rule[r].there
  /\ ~CheckDuplicate(t, r)
  /\ clerk' = [clerk EXCEPT ![c] = [FreeClerk EXCEPT !.at = "ask",
                 !.asks = [NoExemption EXCEPT !.status = "pending", !.task = t, !.rule = r,
                                              !.by = u]]]
  /\ RulesLeft /\ UNCHANGED scan /\ DecisionsLeft

CreateExemption(c, e) ==
  /\ clerk[c].at = "ask" /\ exemption[e].status = "none"
  /\ exemption' = [exemption EXCEPT ![e] = clerk[c].asks]
  /\ FreeTheClerk(c)
  /\ RulesLeft /\ UNCHANGED <<scan, approvals, denials>>

\* Nobody decides on a request of his own.
GetExemption(c, decision, e, u) ==
  /\ clerk[c].at = "free"
  /\ exemption[e].status = "pending" /\ exemption[e].by # u
  /\ clerk' = [clerk EXCEPT ![c] = [FreeClerk EXCEPT !.at = decision, !.on = e, !.who = u]]
  /\ RulesLeft /\ UNCHANGED scan /\ DecisionsLeft

Deciding(c) == clerk[c].at \in {"approved", "rejected"}

WriteDecision(c) ==
  LET e == clerk[c].on
      decision == clerk[c].at
  IN  /\ exemption' = [exemption EXCEPT ![e].status = decision,
                                        ![e].approvedBy = clerk[c].who,
                                        ![e].until = IF decision = "approved" THEN "ahead" ELSE @]
      /\ approvals' = approvals \cup {d \in {e} : decision = "approved"}
      /\ denials' = denials \cup {d \in {e} : decision = "rejected"}

\* Mutant: the decision is written whatever the status is by now.
DecideExemptionAgain(c) ==
  /\ Deciding(c) /\ WriteDecision(c) /\ FreeTheClerk(c)
  /\ RulesLeft /\ UNCHANGED scan

\* Only a request that waits still is decided; the other approver is told so.
DecideExemption(c) ==
  /\ Deciding(c)
  /\ IF exemption[clerk[c].on].status = "pending" THEN WriteDecision(c) ELSE DecisionsLeft
  /\ FreeTheClerk(c)
  /\ RulesLeft /\ UNCHANGED scan

\* The days of validity go by; the scheduler marks what is over, some time later.
ValidityEnds(e) ==
  /\ exemption[e].until = "ahead"
  /\ exemption' = [exemption EXCEPT ![e].until = "past"]
  /\ RulesLeft /\ UNCHANGED <<clerk, scan, approvals, denials>>

OverdueExemptions == {e \in Exemptions : exemption[e].status = "approved" /\ exemption[e].until = "past"}

ExpireOverdue ==
  /\ OverdueExemptions # {}
  /\ exemption' = [e \in Exemptions |-> IF e \in OverdueExemptions
                                        THEN [exemption[e] EXCEPT !.status = "expired"]
                                        ELSE exemption[e]]
  /\ RulesLeft /\ UNCHANGED <<clerk, scan, approvals, denials>>
-----------------------------------------------------------------------------
(* Scans *)

ListTenantActiveRules(w, t) ==
  /\ scan[w].at = "idle"
  /\ scan' = [scan EXCEPT ![w] = [at |-> "system", task |-> t,
                 found |-> {r \in OwnRules : Broken(r) /\ rule[r].on},
                 late |-> {e \in Exemptions : exemption[e].until = "past"}]]
  /\ armed' = [armed EXCEPT ![w] = InForce]
  /\ UNCHANGED <<rule, override, clerk>> /\ DecisionsLeft

\* The rows of system rules do not change between their statement and the settings'.
ListSystemRules(w) ==
  /\ scan[w].at = "system"
  /\ scan' = [scan EXCEPT ![w].at = "exempt", ![w].found = @ \cup (InForce \cap SystemRules)]
  /\ RulesLeft /\ UNCHANGED clerk /\ DecisionsLeft

GetApprovedByTaskID(t) ==
  {e \in Exemptions : exemption[e].task = t /\ exemption[e].status = "approved"
                      /\ exemption[e].until = "ahead"}

FilterExempted(w) ==
  /\ scan[w].at = "exempt"
  /\ LET exempted == {exemption[e].rule : e \in GetApprovedByTaskID(scan[w].task)}
     IN  scan' = [scan EXCEPT ![w].at = IF scan[w].found \subseteq exempted THEN "passed"
                                        ELSE "stopped"]
  /\ RulesLeft /\ UNCHANGED clerk /\ DecisionsLeft
-----------------------------------------------------------------------------
RuleSteps ==
  \/ \E r \in OwnRules : CreateRule(r) \/ DeleteRule(r)
  \/ \E c \in Clerks : \/ \E r \in AllRules : GetRuleByID(c, "edit", r) \/ GetRuleByID(c, "switch", r)
                       \/ UpdateRule(c) \/ ToggleActive(c) \/ BatchToggle(c) \/ BatchToggleSystem(c)

ExemptionSteps ==
  \/ \E c \in Clerks :
       \/ \E t \in ScannedTasks, r \in AllRules, u \in Staff : AskExemption(c, t, r, u)
       \/ \E e \in Exemptions : CreateExemption(c, e)
       \/ \E e \in Exemptions, u \in Staff : \/ GetExemption(c, "approved", e, u)
                                             \/ GetExemption(c, "rejected", e, u)
       \/ DecideExemption(c)
  \/ \E e \in Exemptions : ValidityEnds(e)
  \/ ExpireOverdue

ScanSteps ==
  \E w \in Scans : \/ \E t \in ScannedTasks : ListTenantActiveRules(w, t)
                   \/ ListSystemRules(w) \/ FilterExempted(w)

GuardNext == RuleSteps \/ ExemptionSteps \/ ScanSteps

GuardSpec == GuardInit /\ [][GuardNext]_guard
-----------------------------------------------------------------------------
(* What a run that goes on was checked for. *)

\* An exemption of a task's rule that an approver other than who asked for it was told is
\* granted, and nobody was told is refused.
Granted(e, t, r) ==
  /\ exemption[e].task = t /\ exemption[e].rule = r
  /\ exemption[e].approvedBy \notin {None, exemption[e].by}
  /\ e \in approvals \ denials

\* A run that goes on broke no rule that was in force all the while it was scanned, unless
\* its task has an exemption from it that was granted and whose time was not over when the
\* scan began: whatever is switched, edited, decided or expires meanwhile.
DangerIsStopped ==
  \A w \in Scans : scan[w].at = "passed" =>
    \A r \in armed[w] : \E e \in Exemptions \ scan[w].late : Granted(e, scan[w].task, r)
=============================================================================
