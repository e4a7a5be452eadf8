------------------------------ MODULE EventStreams ------------------------------
(***************************************************************************)
(* The two buses of the process and the SSE connections that hang on them.  *)
(*                                                                         *)
(* A flow's connection reads the row, subscribes, answers from what it      *)
(* read, and forwards events until the last.  Whoever ends the flow writes  *)
(* the row and publishes afterwards; a channel that is full loses the event.*)
(*                                                                         *)
(* A user's connection subscribes, then counts, then forwards one event for *)
(* every message; the client fetches the count again at each, so an event   *)
(* lost because others are waiting is no loss.                              *)
(*                                                                         *)
(* The death of the process ends the buses and the connections together and *)
(* is left out, as are the contents of events and what users have read.     *)
(***************************************************************************)
EXTENDS Null, Naturals, Sequences

CONSTANTS Streams,    \* connections to the events of one flow
          Tellers,    \* goroutines and requests that may end the flow
          Watchers,   \* connections to the messages
          Messages,
          Buffer      \* events a channel holds: 100 of a flow, 10 of messages

ASSUME StreamConstants == Buffer \in Nat \ {0}

VARIABLES
  status,      \* the flow's row: active, or how it ended
  had,         \* the ends the row ever had (history)
  telling,     \* the end each teller has written and not published
  connection,  \* where each connection to the flow is
  told,        \* the status its client was told, or that was read for it
  queue,       \* its channel
  missed,      \* the connections the last event passed by (history)
  board,       \* the rows of site_messages
  announcing,  \* those whose broadcast is still to come
  watching,    \* where each connection to the messages is
  inbox,       \* how many events its channel holds
  seen,        \* the messages counted when its client last learnt a count
  fetching     \* the clients about to fetch the count

stream == <<connection, told, queue>>
flowStreams == <<status, had, telling, stream, missed>>
messageStreams == <<board, announcing, watching, inbox, seen, fetching>>
streams == <<flowStreams, messageStreams>>

Ends == {"completed", "failed", "cancelled"}
Statuses == {"active"} \cup Ends

ASSUME NoneIsNoEnd == None \notin Statuses

StreamsTypeOK ==
  /\ status \in Statuses /\ had \subseteq Ends
  /\ telling \in [Tellers -> Ends \cup {None}]
  /\ connection \in [Streams -> {"away", "loaded", "subscribed", "open", "closed"}]
  /\ told \in [Streams -> Statuses \cup {None}]
  /\ queue \in [Streams -> Seq({"node"} \cup Ends)]
  /\ missed \subseteq Streams
  /\ board \subseteq Messages /\ announcing \subseteq board
  /\ watching \in [Watchers -> {"away", "subscribed", "blind", "open"}]
  /\ inbox \in [Watchers -> 0 .. Buffer]
  /\ seen \in [Watchers -> SUBSET Messages] /\ fetching \subseteq Watchers

StreamsInit ==
  /\ status = "active" /\ had = {}
  /\ telling = [t \in Tellers |-> None]
  /\ connection = [s \in Streams |-> "away"]
  /\ told = [s \in Streams |-> None] /\ queue = [s \in Streams |-> <<>>]
  /\ missed = {} /\ board = {} /\ announcing = {}
  /\ watching = [v \in Watchers |-> "away"] /\ inbox = [v \in Watchers |-> 0]
  /\ seen = [v \in Watchers |-> {}] /\ fetching = {}
-----------------------------------------------------------------------------
(* The end of a flow *)

\* Mutant: whether the guarded update found the row is not looked at.
TellAnyway(t, end) ==
  /\ telling[t] = None
  /\ status' = IF status = "active" THEN end ELSE status
  /\ had' = had \cup {status'}
  /\ telling' = [telling EXCEPT ![t] = end]
  /\ UNCHANGED <<stream, missed, messageStreams>>

\* Completed, failed or cancelled: of two who try, one finds the row active.
EndInstance(t, end) ==
  /\ telling[t] = None
  /\ status = "active"
  /\ status' = end
  /\ had' = had \cup {end}
  /\ telling' = [telling EXCEPT ![t] = end]
  /\ UNCHANGED <<stream, missed, messageStreams>>

Subscribed == {s \in Streams : connection[s] \in {"subscribed", "open"}}
Full == {s \in Subscribed : Len(queue[s]) = Buffer}

\* The connections that will be told by an event, or not at all.
Hoping == {s \in Streams : /\ connection[s] \in {"loaded", "subscribed", "open"}
                           /\ told[s] = "active"}

Publish(event) ==
  /\ queue' = [s \in Streams |-> IF s \in Subscribed \ Full
                                 THEN Append(queue[s], event) ELSE queue[s]]
  /\ UNCHANGED <<connection, told>>

PublishFlowComplete(t) ==
  /\ telling[t] # None
  /\ Publish(telling[t])
  /\ missed' = missed \cup (Hoping \ (Subscribed \ Full))
  /\ telling' = [telling EXCEPT ![t] = None]
  /\ UNCHANGED <<status, had, messageStreams>>

\* A walker publishes its nodes, for a while even after another has ended the flow.
PublishNode ==
  /\ Subscribed # {}
  /\ Publish("node")
  /\ UNCHANGED <<status, had, telling, missed, messageStreams>>

\* An approval that ran out, or whose resumption failed, ends the flow without event.
EndSilently ==
  /\ status = "active"
  /\ status' = "failed"
  /\ had' = had \cup {"failed"}
  /\ missed' = missed \cup Hoping
  /\ UNCHANGED <<telling, stream, messageStreams>>

\* The tasks of a cancelled flow cannot be closed: the request gives up before it publishes.
CancelPendingFails(t) ==
  /\ telling[t] = "cancelled"
  /\ telling' = [telling EXCEPT ![t] = None]
  /\ missed' = missed \cup Hoping
  /\ UNCHANGED <<status, had, stream, messageStreams>>

Restart ==
  /\ status = "failed"
  /\ status' = "active"
  /\ UNCHANGED <<had, telling, stream, missed, messageStreams>>
-----------------------------------------------------------------------------
(* A connection to the flow *)

InstanceEvents(s) ==
  /\ connection[s] = "away"
  /\ connection' = [connection EXCEPT ![s] = "loaded"]
  /\ told' = [told EXCEPT ![s] = status]
  /\ UNCHANGED <<status, had, telling, queue, missed, messageStreams>>

Subscribe(s) ==
  /\ connection[s] = "loaded"
  /\ connection' = [connection EXCEPT ![s] = "subscribed"]
  /\ UNCHANGED <<status, had, telling, told, queue, missed, messageStreams>>

\* What was read is what is told; if that is an end the connection is closed.
writeInitialInstanceEvents(s) ==
  /\ connection[s] = "subscribed"
  /\ connection' = [connection EXCEPT ![s] = IF told[s] \in Ends THEN "closed" ELSE "open"]
  /\ queue' = [queue EXCEPT ![s] = IF told[s] \in Ends THEN <<>> ELSE @]
  /\ UNCHANGED <<status, had, telling, told, missed, messageStreams>>

\* The last event closes the connection, whatever is queued behind it.
streamInstanceEvents(s) ==
  /\ connection[s] = "open" /\ queue[s] # <<>>
  /\ LET event == Head(queue[s])
         last == event \in Ends
     IN  /\ connection' = [connection EXCEPT ![s] = IF last THEN "closed" ELSE @]
         /\ told' = [told EXCEPT ![s] = IF last THEN event ELSE @]
         /\ queue' = [queue EXCEPT ![s] = IF last THEN <<>> ELSE Tail(@)]
  /\ UNCHANGED <<status, had, telling, missed, messageStreams>>

\* The client goes; it may come again.
Disconnect(s) ==
  /\ connection[s] # "away"
  /\ connection' = [connection EXCEPT ![s] = "away"]
  /\ told' = [told EXCEPT ![s] = None]
  /\ queue' = [queue EXCEPT ![s] = <<>>]
  /\ missed' = missed \ {s}
  /\ UNCHANGED <<status, had, telling, messageStreams>>
-----------------------------------------------------------------------------
(* Messages *)

CreateMessage(m) ==
  /\ m \notin board
  /\ board' = board \cup {m}
  /\ announcing' = announcing \cup {m}
  /\ UNCHANGED <<watching, inbox, seen, fetching, flowStreams>>

Broadcast(m) ==
  /\ m \in announcing
  /\ announcing' = announcing \ {m}
  /\ inbox' = [v \in Watchers |-> IF watching[v] # "away" /\ inbox[v] < Buffer
                                  THEN inbox[v] + 1 ELSE inbox[v]]
  /\ UNCHANGED <<board, watching, seen, fetching, flowStreams>>

Events(v) ==
  /\ watching[v] = "away"
  /\ watching' = [watching EXCEPT ![v] = "subscribed"]
  /\ UNCHANGED <<board, announcing, inbox, seen, fetching, flowStreams>>

pushInitialUnreadCount(v) ==
  /\ watching[v] = "subscribed"
  /\ watching' = [watching EXCEPT ![v] = "open"]
  /\ seen' = [seen EXCEPT ![v] = board]
  /\ UNCHANGED <<board, announcing, inbox, fetching, flowStreams>>

\* Nothing is pushed, and the connection stays.
InitialCountFails(v) ==
  /\ watching[v] = "subscribed"
  /\ watching' = [watching EXCEPT ![v] = "blind"]
  /\ UNCHANGED <<board, announcing, inbox, seen, fetching, flowStreams>>

streamSiteMessageEvents(v) ==
  /\ watching[v] \in {"blind", "open"} /\ inbox[v] > 0
  /\ inbox' = [inbox EXCEPT ![v] = @ - 1]
  /\ fetching' = fetching \cup {v}
  /\ UNCHANGED <<board, announcing, watching, seen, flowStreams>>

\* The client fetches the count again.
GetUnreadCount(v) ==
  /\ v \in fetching
  /\ watching' = [watching EXCEPT ![v] = "open"]
  /\ seen' = [seen EXCEPT ![v] = board]
  /\ fetching' = fetching \ {v}
  /\ UNCHANGED <<board, announcing, inbox, flowStreams>>

Unsubscribe(v) ==
  /\ watching[v] # "away"
  /\ watching' = [watching EXCEPT ![v] = "away"]
  /\ inbox' = [inbox EXCEPT ![v] = 0]
  /\ seen' = [seen EXCEPT ![v] = {}]
  /\ fetching' = fetching \ {v}
  /\ UNCHANGED <<board, announcing, flowStreams>>
-----------------------------------------------------------------------------
FlowStreamsNext ==
  \/ PublishNode \/ EndSilently \/ Restart
  \/ \E t \in Tellers : \/ PublishFlowComplete(t) \/ CancelPendingFails(t)
                        \/ \E end \in Ends : EndInstance(t, end)
  \/ \E s \in Streams : \/ InstanceEvents(s) \/ Subscribe(s) \/ writeInitialInstanceEvents(s)
                        \/ streamInstanceEvents(s) \/ Disconnect(s)

MessageStreamsNext ==
  \/ \E m \in Messages : CreateMessage(m) \/ Broadcast(m)
  \/ \E v \in Watchers : \/ Events(v) \/ pushInitialUnreadCount(v) \/ InitialCountFails(v)
                         \/ streamSiteMessageEvents(v) \/ GetUnreadCount(v) \/ Unsubscribe(v)

StreamsNext == FlowStreamsNext \/ MessageStreamsNext

StreamsSpec == StreamsInit /\ [][StreamsNext]_streams
-----------------------------------------------------------------------------
(* Properties *)

\* A connection to a flow is closed with an end the flow really had, and one that is open
\* while the flow has ended holds its last event or somebody is still to publish it,
\* unless the event was never published, was lost to a full channel, or came between the
\* reading of the row and the subscription.
StreamsTellTheEnd ==
  \A s \in Streams :
    /\ connection[s] = "closed" => told[s] \in had
    /\ s \in Hoping \ missed /\ status # "active" =>
         \/ \E i \in DOMAIN queue[s] : queue[s][i] \in Ends
         \/ \E t \in Tellers : telling[t] # None

\* A client that was told how many messages there are is told of every later one, with
\* however many others its event was dropped: an event is waiting, or the client is at
\* fetching the count, or the broadcast is still to come.
MessagesReachWatchers ==
  \A v \in Watchers :
    watching[v] = "open" =>
      \A m \in board \ seen[v] :
        m \in announcing \/ inbox[v] > 0 \/ v \in fetching

\* Neither a flow's end nor a message passes by the clients that wait for it, although
\* both buses drop events (event_bus.go:87-93, message_event_bus.go:67-74).
NobodyWaitsInVain == StreamsTellTheEnd /\ MessagesReachWatchers
=============================================================================
