------------------------------- MODULE RunEngine -------------------------------
(***************************************************************************)
(* How a run is carried out once its row says running: a workspace is       *)
(* copied, the credentials of its hosts are fetched, ansible-playbook is    *)
(* started, by itself or in a container, its output is read line by line,   *)
(* and what it said of its hosts becomes the status of the run.             *)
(*                                                                         *)
(* Four goroutines are at work while the command runs: the run's own, which *)
(* waits for the end of the command or of its context; the reader of the    *)
(* output; the one in cmd.Wait, which closes the pipe when the command has  *)
(* exited, whatever is still in it; and the one that kills the command when *)
(* the context is done.  The lines are those of the recap: one per host.    *)
(***************************************************************************)
EXTENDS Null, SequencesExt

CONSTANTS Hosts,   \* targets of the run
          Vaults   \* secrets sources

VARIABLES
  call,     \* the run's own goroutine
  stopped,  \* whether the context of the run was cancelled or its time is up
  enabled,  \* vaults that are active
  knows,    \* by vault: the hosts it has credentials of
  creds,    \* by host: the vault its credentials were written from
  workdir,  \* the workspace is there
  command,  \* the process that was started
  play,     \* what ansible does, in that process or in a container of its own
  fate,     \* how the play ended for each host
  pipe,     \* lines said and not read
  hand,     \* lines read and not yet part of the output
  heard,    \* the output
  closed,   \* cmd.Wait is over
  cut,      \* lines were lost (history)
  left      \* the container was given up, or taken for ended (history)

process == <<command, play, fate, pipe, hand, heard, closed, cut>>
engine == <<call, stopped, enabled, knows, creds, workdir, left, process>>

\* A host was left with or without a task that is ok, and with or without a failed one.
Fates == {"fine", "mixed", "lost", "idle"}

ASSUME EngineConstants == IsFiniteSet(Vaults) /\ None \notin Vaults \cup Fates

CallRows == [at : {"begin", "scan", "load", "hosts", "start", "waiting", "stopping", "drain",
                   "collect", "returned", "cleanup", "done"},
             kind : {"local", "docker"},
             asked : Seq(Vaults), loaded : Seq(Vaults), bare : BOOLEAN,
             todo : SUBSET Hosts, parsed : BOOLEAN,
             verdict : {"success", "partial", "failed", None}]

EngineTypeOK ==
  /\ call \in CallRows
  /\ stopped \in {"no", "cancelled", "late"}
  /\ enabled \subseteq Vaults /\ knows \in [Vaults -> SUBSET Hosts]
  /\ creds \in [Hosts -> Vaults \cup {None}]
  /\ workdir \in BOOLEAN
  /\ command \in {"none", "running", "exited"}
  /\ play \in {"none", "running", "over"}
  /\ fate \in [Hosts -> Fates \cup {None}]
  /\ {pipe, hand, heard} \subseteq Seq(Fates)
  /\ closed \in BOOLEAN /\ cut \in BOOLEAN /\ left \in BOOLEAN

EngineInit ==
  /\ \E kind \in {"local", "docker"}, order \in SetToAllKPermutations(Vaults) :
       call = [at |-> "begin", kind |-> kind, asked |-> order, loaded |-> <<>>,
               bare |-> order = <<>>, todo |-> Hosts, parsed |-> FALSE, verdict |-> None]
  /\ stopped = "no"
  /\ enabled \in SUBSET Vaults /\ knows \in [Vaults -> SUBSET Hosts]
  /\ creds = [h \in Hosts |-> None]
  /\ workdir = FALSE
  /\ command = "none" /\ play = "none"
  /\ fate = [h \in Hosts |-> None]
  /\ pipe = <<>> /\ hand = <<>> /\ heard = <<>>
  /\ closed = FALSE /\ cut = FALSE /\ left = FALSE
-----------------------------------------------------------------------------
(* Preparing *)

Go(label) == call' = [call EXCEPT !.at = label]

\* A failure is written to the row; what was prepared is removed.
Fail == call' = [call EXCEPT !.at = "cleanup", !.verdict = "failed"]

OutsideLeft == UNCHANGED <<stopped, enabled, knows>>

\* A copy that fails half-way is removed by PrepareWorkspace itself.
PrepareWorkspace ==
  /\ call.at = "begin"
  /\ \/ workdir' = TRUE /\ Go("scan")
     \/ workdir' = FALSE /\ call' = [call EXCEPT !.at = "done", !.verdict = "failed"]
  /\ OutsideLeft /\ UNCHANGED <<creds, left, process>>

\* The scan lets the run go on or stops it.
ScanWorkspace ==
  /\ call.at = "scan"
  /\ Go("load") \/ Fail
  /\ OutsideLeft /\ UNCHANGED <<creds, workdir, left, process>>

\* One of the vaults asked for is looked up: it may be inactive, or unusable.
LoadSecretProvider ==
  /\ call.at = "load" /\ call.asked # <<>>
  /\ LET v == Head(call.asked)
     IN  \/ v \in enabled /\ call' = [call EXCEPT !.asked = Tail(@), !.loaded = Append(@, v)]
         \/ call' = [call EXCEPT !.asked = Tail(@)]
  /\ OutsideLeft /\ UNCHANGED <<creds, workdir, left, process>>

\* A run that asked for vaults and has none left ends here; the list of hosts of one that
\* asked for none is written, or cannot be.
ProvidersLoaded ==
  /\ call.at = "load" /\ call.asked = <<>>
  /\ IF call.bare THEN Go("start") \/ Fail
     ELSE IF call.loaded = <<>> THEN Fail ELSE Go("hosts")
  /\ OutsideLeft /\ UNCHANGED <<creds, workdir, left, process>>

\* The first vault that knows a host gives its credentials; one that cannot answer, or
\* none that knows it, ends the run.
ResolveHostCredential(h) ==
  /\ call.at = "hosts" /\ h \in call.todo
  /\ \/ \E n \in 1 .. Len(call.loaded) :
          /\ h \in knows[call.loaded[n]]
          /\ \A m \in 1 .. n - 1 : h \notin knows[call.loaded[m]]
          /\ creds' = [creds EXCEPT ![h] = call.loaded[n]]
          /\ call' = [call EXCEPT !.todo = @ \ {h}]
     \/ Fail /\ UNCHANGED creds
  /\ OutsideLeft /\ UNCHANGED <<workdir, left, process>>

WriteInventory ==
  /\ call.at = "hosts" /\ call.todo = {}
  /\ Go("start") \/ Fail
  /\ OutsideLeft /\ UNCHANGED <<creds, workdir, left, process>>
-----------------------------------------------------------------------------
(* The command *)

\* A command is not started once the context is done.
StartCommand ==
  /\ call.at = "start"
  /\ \/ /\ stopped = "no"
        /\ command' = "running" /\ play' = "running"
        /\ Go("waiting")
     \/ Go("returned") /\ UNCHANGED <<command, play>>
  /\ OutsideLeft
  /\ UNCHANGED <<creds, workdir, left, fate, pipe, hand, heard, closed, cut>>

\* The recap tells of one host after the other, to whoever holds the pipe.
PlaySays(h) ==
  /\ play = "running" /\ fate[h] = None
  /\ \E f \in Fates : /\ fate' = [fate EXCEPT ![h] = f]
                      /\ IF command = "running" THEN pipe' = Append(pipe, f) /\ UNCHANGED cut
                         ELSE cut' = TRUE /\ UNCHANGED pipe
  /\ UNCHANGED <<call, stopped, enabled, knows, creds, workdir, left, command, play, hand,
                 heard, closed>>

\* A play ends behind its recap, or before it says anything of the hosts.
PlayEnds ==
  /\ play = "running"
  /\ None \notin Range(fate) \/ Range(fate) = {None}
  /\ play' = "over"
  /\ UNCHANGED <<call, stopped, enabled, knows, creds, workdir, left, command, fate, pipe,
                 hand, heard, closed, cut>>

CommandExits ==
  /\ command = "running" /\ play = "over"
  /\ command' = "exited"
  /\ UNCHANGED <<call, stopped, enabled, knows, creds, workdir, left, play, fate, pipe, hand,
                 heard, closed, cut>>

\* Once the context is done the command is killed, and any time it may die: a play in a
\* container goes on without it.  Assumed of ansible-playbook: its forked workers end with
\* it, although exec.CommandContext kills the process it started and no other.
KillCommand ==
  /\ command = "running"
  /\ command' = "exited"
  /\ play' = IF call.kind = "local" THEN "over" ELSE play
  /\ UNCHANGED <<call, stopped, enabled, knows, creds, workdir, left, fate, pipe, hand, heard,
                 closed, cut>>

\* cmd.Wait closes the pipe as soon as the command has exited: what the reader has not
\* taken by then is lost.
WaitReturns ==
  /\ command = "exited" /\ ~closed
  /\ closed' = TRUE
  /\ cut' = (cut \/ pipe # <<>>) /\ pipe' = <<>>
  /\ UNCHANGED <<call, stopped, enabled, knows, creds, workdir, left, command, play, fate,
                 hand, heard>>

\* The reader takes what fits into its buffer, and passes it on a line at a time.
ReadChunk ==
  /\ hand = <<>> /\ pipe # <<>>
  /\ \E n \in 1 .. Len(pipe) : /\ hand' = SubSeq(pipe, 1, n)
                                /\ pipe' = SubSeq(pipe, n + 1, Len(pipe))
  /\ UNCHANGED <<call, stopped, enabled, knows, creds, workdir, left, command, play, fate,
                 heard, closed, cut>>

CollectLine ==
  /\ hand # <<>>
  /\ heard' = Append(heard, Head(hand)) /\ hand' = Tail(hand)
  /\ UNCHANGED <<call, stopped, enabled, knows, creds, workdir, left, command, play, fate,
                 pipe, closed, cut>>

ReaderDone == command = "exited" /\ pipe = <<>> /\ hand = <<>>
-----------------------------------------------------------------------------
(* Waiting for the command *)

\* Mutant: killing the command is taken to end a container as well.
TakeCancelledSimply ==
  /\ call.at = "waiting" /\ stopped # "no"
  /\ Go("drain")
  /\ OutsideLeft /\ UNCHANGED <<creds, workdir, left, process>>

TakeCancelled ==
  /\ call.at = "waiting" /\ stopped # "no"
  /\ Go(IF call.kind = "docker" THEN "stopping" ELSE "drain")
  /\ OutsideLeft /\ UNCHANGED <<creds, workdir, left, process>>

\* With both ends at hand the choice is free: a container whose command was killed is
\* then taken for one that ended.
TakeEnded ==
  /\ call.at = "waiting" /\ closed
  /\ left' = (play = "running")
  /\ Go("collect")
  /\ OutsideLeft /\ UNCHANGED <<creds, workdir, process>>

\* The container is stopped or killed, or neither can be done.
StopContainer ==
  /\ call.at = "stopping"
  /\ \/ play' = "over" /\ UNCHANGED left
     \/ left' = TRUE /\ UNCHANGED play
  /\ Go("drain")
  /\ OutsideLeft
  /\ UNCHANGED <<creds, workdir, command, fate, pipe, hand, heard, closed, cut>>

CancelledResult ==
  /\ call.at = "drain" /\ closed /\ ReaderDone
  /\ Go("returned")
  /\ OutsideLeft /\ UNCHANGED <<creds, workdir, left, process>>

\* Mutant: the output is used as far as it was collected when the command is over.
ResultAtOnce ==
  /\ call.at = "collect"
  /\ call' = [call EXCEPT !.at = "returned", !.parsed = TRUE]
  /\ OutsideLeft /\ UNCHANGED <<creds, workdir, left, process>>

\* A command that is over as its context is done may be reported without statistics.
BuildResult ==
  /\ call.at = "collect" /\ ReaderDone
  /\ \E parsed \in BOOLEAN : /\ parsed \/ stopped # "no"
                             /\ call' = [call EXCEPT !.at = "returned", !.parsed = parsed]
  /\ OutsideLeft /\ UNCHANGED <<creds, workdir, left, process>>

\* What the statistics of some hosts make of a run; the exit code plays no part.
resolveRunStatus(fates) ==
  IF fates \cap {"fine", "mixed"} = {} THEN "failed"
  ELSE IF fates \cap {"mixed", "lost"} = {} THEN "success" ELSE "partial"

\* A run whose context was cancelled is written off, whatever came back.
PersistRunResult ==
  /\ call.at = "returned"
  /\ call' = [call EXCEPT !.at = "cleanup",
                !.verdict = IF stopped # "cancelled" /\ call.parsed
                            THEN resolveRunStatus(Range(heard)) ELSE "failed"]
  /\ OutsideLeft /\ UNCHANGED <<creds, workdir, left, process>>

ReleaseWorkspace ==
  /\ call.at = "cleanup"
  /\ workdir' = FALSE /\ Go("done")
  /\ OutsideLeft /\ UNCHANGED <<creds, left, process>>

\* A user cancels the run, the server stops, or half an hour is over.
ContextEnds ==
  /\ stopped = "no" /\ call.at # "done"
  /\ stopped' \in {"cancelled"} \cup {l \in {"late"} : call.at \in {"waiting", "collect"}}
  /\ UNCHANGED <<call, enabled, knows, creds, workdir, left, process>>

\* Somebody switches a vault on or off.
SwitchVault(v) ==
  /\ call.at = "load"
  /\ enabled' = IF v \in enabled THEN enabled \ {v} ELSE enabled \cup {v}
  /\ UNCHANGED <<call, stopped, knows, creds, workdir, left, process>>
-----------------------------------------------------------------------------
Preparing == \/ PrepareWorkspace \/ ScanWorkspace
             \/ LoadSecretProvider \/ ProvidersLoaded
             \/ \E h \in Hosts : ResolveHostCredential(h)
             \/ WriteInventory

EngineNext ==
  \/ Preparing
  \/ StartCommand \/ TakeCancelled \/ TakeEnded \/ StopContainer
  \/ CancelledResult \/ BuildResult \/ PersistRunResult \/ ReleaseWorkspace
  \/ \E h \in Hosts : PlaySays(h)
  \/ PlayEnds \/ CommandExits \/ KillCommand \/ WaitReturns
  \/ ReadChunk \/ CollectLine
  \/ ContextEnds
  \/ \E v \in Vaults : SwitchVault(v)

EngineSpec == EngineInit /\ [][EngineNext]_engine
-----------------------------------------------------------------------------
(* What a run leaves behind, and what it runs on. *)

\* A run that nothing stopped, whose output was read to its end, has the status that
\* the play left its hosts in: the reader may lag behind the command, not behind the
\* verdict.
VerdictIsThePlays ==
  call.at = "done" /\ stopped = "no" /\ ~cut /\ ~left =>
    call.verdict = resolveRunStatus(Range(fate) \ {None})

\* As long as a play runs, its workspace is there, with the credentials of every host
\* from a vault that knows it if the run asked for any, unless the container could not be
\* stopped or was taken for ended.
PlayHasItsWorkspace ==
  play = "running" /\ ~left =>
    /\ workdir
    /\ call.bare \/ \A h \in Hosts : creds[h] # None /\ h \in knows[creds[h]]
=============================================================================
