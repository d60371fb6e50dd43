----------------------------- MODULE WebServer ------------------------------
(***************************************************************************)
(* The events of the shared state (internal/state) on their way to the     *)
(* browsers (internal/server/webserver.go): the hooks that change the      *)
(* state and emit an event, the goroutine that delivers each event,        *)
(* immediate and debounced broadcasts, the handler of each connection, the *)
(* acknowledgement of the outcome, and Shutdown.  The content of the state *)
(* is its version, the number of its changes.  A snapshot of version v     *)
(* holds all changes up to v; a progress delta of version v holds no more  *)
(* than the summary, and so the row counts, as of v.                       *)
(***************************************************************************)
EXTENDS Integers, FiniteSets

CONSTANTS Connections, \* bound: connections opened, numbered in that order
          MaxClients,  \* maxClients
          MaxChanges   \* bound: changes of the state while n connections have
                       \* been opened, MaxChanges[n]

ASSUME WebServerAssumption ==
  /\ {Connections, MaxClients} \subseteq Nat \ {0}
  /\ MaxChanges \in [0..Connections -> Nat \ {0}]

Conn == 1..Connections

VARIABLES
  version,   \* changes of the state so far
  outcome,   \* version that has the final status; 0 before
  rows,      \* version of the last change of the row counts
  copy,      \* control of Copier.Copy
  listeners, \* OnStateChange goroutines at work, per class of their event
  fired,     \* debounce callbacks without writeMu
  armed,     \* the debounce timer is running
  writer,    \* the broadcast that holds writeMu
  stage,     \* how far Start and Shutdown have come
  clients,   \* registered connections
  handler,   \* control of the handler of each connection
  taken,     \* version of the initial snapshot a handler has yet to send
  link,      \* the connection itself
  shown,     \* newest version whose row counts were written to it
  page,      \* the page at its other end: has it the outcome, was it heard
  ackChan    \* completionAckChan has a value

run == <<version, outcome, rows, copy>>
events == <<listeners, fired, armed>>
conns == <<handler, taken, link, shown, page>>
vars == <<run, events, writer, stage, clients, conns, ackChan>>

\* How an event reaches the pages: as a snapshot of the state, as the event
\* alone, or by the debounced progress delta.
Class == {"snapshot", "event", "progress"}
Immediate == Class \ {"progress"}

Free == [kind |-> "free", version |-> 0, to |-> {}]

ShuttingDown == stage \notin {"new", "up"}

TypeOK ==
  /\ version \in Nat /\ outcome \in 0..version /\ rows \in 0..version
  /\ copy \in {"running", "announced", "logged", "acknowledged"}
  /\ listeners \in [Class -> Nat] /\ fired \in Nat
  /\ {armed, ackChan} \subseteq BOOLEAN
  /\ writer \in [kind : Class \union {"free"}, version : 0..version, to : SUBSET Conn]
  /\ stage \in {"new", "up", "marked", "closed", "down"}
  /\ clients \subseteq Conn
  /\ handler \in [Conn -> {"none", "admitted", "registered", "snapped", "loop",
                           "reading", "acking", "leaving", "gone"}]
  /\ taken \in [Conn -> 0..version] /\ shown \in [Conn -> 0..version]
  /\ link \in [Conn -> {"none", "open", "abandoned", "closed"}]
  /\ page \in [Conn -> {"uninformed", "informed", "heard"}]

\* NewWebServer and NewCopyState.
Init ==
  /\ version = 0 /\ outcome = 0 /\ rows = 0 /\ copy = "running"
  /\ listeners = [k \in Class |-> 0]
  /\ fired = 0 /\ armed = FALSE /\ writer = Free
  /\ stage = "new" /\ clients = {}
  /\ handler = [c \in Conn |-> "none"] /\ taken = [c \in Conn |-> 0]
  /\ link = [c \in Conn |-> "none"] /\ shown = [c \in Conn |-> 0]
  /\ page = [c \in Conn |-> "uninformed"] /\ ackChan = FALSE

Start ==
  /\ stage = "new" /\ stage' = "up"
  /\ UNCHANGED <<run, events, writer, clients, conns, ackChan>>

-----------------------------------------------------------------------------
(* The hooks of the state and Copy's last steps.                           *)

More(bag, k) == [bag EXCEPT ![k] = @ + 1]
Less(bag, k) == [bag EXCEPT ![k] = @ - 1]

\* emit starts one goroutine per listener.  That it does so after the lock is
\* released is the same as a goroutine that begins later: what it looks at it
\* looks at when it runs.
Emit(k) == listeners' = IF stage = "up" THEN More(listeners, k) ELSE listeners

\* What every hook does; its event is of class k.  Changes that come after
\* Shutdown has unsubscribed reach nobody and are left out.
Change(k) ==
  /\ ~ShuttingDown
  /\ version' = version + 1
  /\ Emit(k)
  /\ UNCHANGED <<fired, armed, writer, stage, clients, conns, ackChan>>

\* The bound for the connections opened so far.
Bound == MaxChanges[Cardinality({c \in Conn : handler[c] # "none"})]

\* A hook called by Copy or by a worker while the run goes on.
Hook(k) ==
  /\ copy = "running" /\ version < Bound - 1
  /\ Change(k)
  /\ UNCHANGED <<outcome, copy>>

\* completed goes out as a snapshot, cancelled as progress (though no delta has
\* such a table), the others alone.
UpdateTableStatus == (\E k \in Class : Hook(k)) /\ UNCHANGED rows

\* The rows of a table, and with them the sum in the summary.
UpdateTableProgress == Hook("progress") /\ rows' = version'

\* Debounced as progress is, though no delta has the log.
AddLog == Hook("progress") /\ UNCHANGED rows

AddError == Hook("event") /\ UNCHANGED rows

\* Every status is announced as EventOperationStarted.
SetStatus == Hook("snapshot") /\ UNCHANGED rows

\* Copy sets completed, failed or cancelled.  Its last entry is left out where
\* the bound is reached.
SetFinalStatus ==
  /\ copy = "running"
  /\ Change("snapshot")
  /\ outcome' = version + 1
  /\ copy' = IF version + 1 < Bound THEN "announced" ELSE "logged"
  /\ UNCHANGED rows

\* Copy's last entry in the log, or its last error.
LastEntry ==
  /\ copy = "announced" /\ copy' = "logged"
  /\ \E k \in {"progress", "event"} : Change(k)
  /\ UNCHANGED <<outcome, rows>>

\* The wait of Copy for a page is answered.  It may also time out after 30 s,
\* or never begin (after a cancellation, or when it was the cleanup that
\* failed): nothing here depends on that.
WaitForCompletionAck ==
  /\ copy = "logged" /\ ackChan
  /\ copy' = "acknowledged" /\ ackChan' = FALSE
  /\ UNCHANGED <<version, outcome, rows, events, writer, stage, clients, conns>>

-----------------------------------------------------------------------------
(* OnStateChange, the broadcasts and the debounce timer.                   *)

\* broadcastStateUpdate sends nothing during a shutdown.
DropEvent(k) ==
  /\ k \in Immediate /\ listeners[k] > 0 /\ ShuttingDown
  /\ listeners' = Less(listeners, k)
  /\ UNCHANGED <<run, fired, armed, writer, stage, clients, conns, ackChan>>

\* Mutant of ScheduleDebouncedSnapshot: a timer that is running is stopped and
\* not started anew.
StopOrSchedule ==
  /\ listeners["progress"] > 0
  /\ listeners' = Less(listeners, "progress")
  /\ armed' = ~armed
  /\ UNCHANGED <<run, fired, writer, stage, clients, conns, ackChan>>

\* A timer that is running is stopped and replaced; this is the only event
\* that does not look for the shutdown.
ScheduleDebouncedSnapshot ==
  /\ listeners["progress"] > 0
  /\ listeners' = Less(listeners, "progress")
  /\ armed' = TRUE
  /\ UNCHANGED <<run, fired, writer, stage, clients, conns, ackChan>>

TimerFires ==
  /\ armed
  /\ armed' = FALSE /\ fired' = fired + 1
  /\ UNCHANGED <<run, listeners, writer, stage, clients, conns, ackChan>>

\* Mutant of Recipients: only pages that have had their first snapshot.
Greeted == {c \in clients : handler[c] \in {"loop", "reading", "acking"}}

Recipients == clients

\* Mutant of Lock: the message was made when the event was.
LockWithOldMessage(k) ==
  /\ writer.kind = "free"
  /\ \E v \in {version, version - 1} \ {-1} :
       writer' = IF clients = {} THEN Free
                 ELSE [kind |-> k, version |-> v, to |-> Recipients]

\* writeMu is taken; the message is made, and its receivers chosen, behind it.
Lock(k) ==
  /\ writer.kind = "free"
  /\ writer' = IF clients = {} THEN Free
               ELSE [kind |-> k, version |-> version, to |-> Recipients]

\* It looked for the shutdown before it waited for writeMu.
BroadcastStateUpdate(k) ==
  /\ k \in Immediate /\ listeners[k] > 0 /\ Lock(k)
  /\ listeners' = Less(listeners, k)
  /\ UNCHANGED <<run, fired, armed, stage, clients, conns, ackChan>>

\* It does not look for the shutdown.
BroadcastSnapshot ==
  /\ fired > 0 /\ fired' = fired - 1
  /\ Lock("progress")
  /\ UNCHANGED <<run, listeners, armed, stage, clients, conns, ackChan>>

Newest(v, w) == IF v > w THEN v ELSE w

\* The page learns the outcome from a snapshot that has it, and from no delta.
Informs(c, k, v) ==
  k = "snapshot" /\ page[c] = "uninformed" /\ outcome # 0 /\ v >= outcome

\* A message of kind k and version v is written to the connections of C.  An
\* event brings nothing of the state.  A delta brings the summary and tables
\* that are copying or completed: the row counts, but neither the log nor a
\* table that failed or was cancelled.
Reach(C, k, v) ==
  /\ shown' = [c \in Conn |-> IF c \in C /\ k # "event" /\ handler[c] # "leaving"
                             THEN Newest(shown[c], v) ELSE shown[c]]
  /\ page' = [c \in Conn |-> IF c \in C /\ Informs(c, k, v) THEN "informed" ELSE page[c]]

\* The write deadline set along with the first snapshot is 10 s after it, and
\* nothing moves it: at any broadcast after that it may have passed.
MayBeOverdue(c) == handler[c] \notin {"registered", "snapped"}

\* The message is written to every receiver.  The write fails where the
\* connection is closed or past the deadline; where the page is gone it may.
\* Those that failed are forgotten and closed, and writeMu is released.
EndBroadcast ==
  /\ writer.kind # "free"
  /\ \E failed \in SUBSET {c \in writer.to : link[c] # "open" \/ MayBeOverdue(c)} :
       /\ \A c \in writer.to : link[c] = "closed" => c \in failed
       /\ Reach(writer.to \ failed, writer.kind, writer.version)
       /\ clients' = clients \ failed
       /\ link' = [c \in Conn |-> IF c \in failed THEN "closed" ELSE link[c]]
  /\ writer' = Free
  /\ UNCHANGED <<run, events, stage, handler, taken, ackChan>>

-----------------------------------------------------------------------------
(* handleWebSocket, one per connection, and the page at its other end.     *)

Goto(c, where) == handler' = [handler EXCEPT ![c] = where]

\* The handler returns; what the page was shown matters no more.
Return(c) ==
  /\ Goto(c, "leaving")
  /\ shown' = [shown EXCEPT ![c] = 0] /\ page' = [page EXCEPT ![c] = "heard"]

handlerFrame == <<run, events, writer, stage>>

\* The checks for the shutdown and the limit, and the upgrade.  A connection
\* that is turned away is one that is never opened.
Admit(c) ==
  /\ handler[c] = "none" /\ \A d \in 1..(c - 1) : handler[d] # "none"
  /\ version < MaxChanges[c]
  /\ stage = "up" /\ Cardinality(clients) < MaxClients
  /\ Goto(c, "admitted")
  /\ link' = [link EXCEPT ![c] = "open"]
  /\ UNCHANGED <<handlerFrame, clients, taken, shown, page, ackChan>>

Register(c) ==
  /\ handler[c] = "admitted"
  /\ Goto(c, "registered")
  /\ clients' = clients \union {c}
  /\ UNCHANGED <<handlerFrame, taken, link, shown, page, ackChan>>

\* Before writeMu is taken.
TakeSnapshot(c) ==
  /\ handler[c] = "registered"
  /\ Goto(c, "snapped")
  /\ taken' = [taken EXCEPT ![c] = version]
  /\ UNCHANGED <<handlerFrame, clients, link, shown, page, ackChan>>

\* Under writeMu, which no broadcast holds.
SendInitialState(c) ==
  /\ handler[c] = "snapped" /\ writer.kind = "free"
  /\ taken' = [taken EXCEPT ![c] = 0]
  /\ \/ link[c] \in {"open", "abandoned"} /\ Goto(c, "loop")
        /\ Reach({c}, "snapshot", taken[c])
     \/ link[c] \in {"abandoned", "closed"} /\ Return(c)
  /\ UNCHANGED <<handlerFrame, clients, link, ackChan>>

\* Mutant of CheckShutdown: the loop only reads.
ReadOn(c) ==
  /\ handler[c] = "loop"
  /\ Goto(c, "reading")
  /\ UNCHANGED <<handlerFrame, clients, taken, link, shown, page, ackChan>>

CheckShutdown(c) ==
  /\ handler[c] = "loop"
  /\ \/ ShuttingDown /\ Return(c)
     \/ ~ShuttingDown /\ Goto(c, "reading") /\ UNCHANGED <<shown, page>>
  /\ UNCHANGED <<handlerFrame, clients, taken, link, ackChan>>

\* The completion_ack that a page with the outcome sends (handleStateUpdate)
\* arrives, once; it sends nothing else.
ReadMessage(c) ==
  /\ handler[c] = "reading" /\ page[c] = "informed" /\ link[c] # "closed"
  /\ page' = [page EXCEPT ![c] = "heard"]
  /\ Goto(c, "acking")
  /\ UNCHANGED <<handlerFrame, clients, taken, link, shown, ackChan>>

\* A second acknowledgement finds the channel full and is dropped.
HandleClientMessage(c) ==
  /\ handler[c] = "acking"
  /\ ackChan' = TRUE
  /\ Goto(c, "loop")
  /\ UNCHANGED <<handlerFrame, clients, taken, link, shown, page>>

\* ReadMessage fails once the connection is closed, by either end.
ReadFails(c) ==
  /\ handler[c] = "reading" /\ link[c] # "open"
  /\ Return(c)
  /\ UNCHANGED <<handlerFrame, clients, taken, link, ackChan>>

\* 60 s without a message: the page sends none but the acknowledgement.
ReadDeadlinePasses(c) ==
  /\ handler[c] = "reading" /\ link[c] = "open"
  /\ Return(c)
  /\ UNCHANGED <<handlerFrame, clients, taken, link, ackChan>>

\* The deferred cleanup.
Leave(c) ==
  /\ handler[c] = "leaving"
  /\ Goto(c, "gone")
  /\ clients' = clients \ {c}
  /\ link' = [link EXCEPT ![c] = "closed"]
  /\ UNCHANGED <<handlerFrame, taken, shown, page, ackChan>>

PageLeaves(c) ==
  /\ link[c] = "open"
  /\ link' = [link EXCEPT ![c] = "abandoned"]
  /\ UNCHANGED <<handlerFrame, clients, handler, taken, shown, page, ackChan>>

-----------------------------------------------------------------------------
(* Shutdown, which Close calls when Copy has returned or the grace period  *)
(* is over.                                                                *)

shutdownFrame == <<run, listeners, fired, writer, handler, taken, shown, page, ackChan>>

\* It also unsubscribes: between the two, an event is dropped where it arrives.
MarkShutdown ==
  /\ stage = "up" /\ stage' = "marked"
  /\ UNCHANGED <<shutdownFrame, armed, clients, link>>

\* Mutant of CloseClients: the connections are forgotten, not closed.
ForgetClients ==
  /\ stage = "marked" /\ stage' = "closed"
  /\ clients' = {}
  /\ UNCHANGED <<shutdownFrame, link, armed>>

CloseClients ==
  /\ stage = "marked" /\ stage' = "closed"
  /\ clients' = {}
  /\ link' = [c \in Conn |-> IF c \in clients THEN "closed" ELSE link[c]]
  /\ UNCHANGED <<shutdownFrame, armed>>

\* http.Server.Shutdown does not wait for connections that were upgraded.
StopTimer ==
  /\ stage = "closed" /\ stage' = "down"
  /\ armed' = FALSE
  /\ UNCHANGED <<shutdownFrame, clients, link>>

-----------------------------------------------------------------------------
Hooks == \/ UpdateTableStatus \/ UpdateTableProgress \/ AddLog \/ AddError \/ SetStatus
         \/ SetFinalStatus \/ LastEntry

Deliveries == \/ ScheduleDebouncedSnapshot \/ TimerFires \/ \E k \in Immediate : DropEvent(k)

Broadcasts == \/ BroadcastSnapshot \/ EndBroadcast
              \/ \E k \in Immediate : BroadcastStateUpdate(k)

\* The steps of a handler that wait for nobody.
Handle(c) == \/ Register(c) \/ TakeSnapshot(c) \/ CheckShutdown(c) \/ ReadMessage(c)
             \/ HandleClientMessage(c) \/ ReadFails(c) \/ Leave(c) \/ SendInitialState(c)

Shutdown == CloseClients \/ StopTimer

Page(c) == Admit(c) \/ PageLeaves(c) \/ ReadDeadlinePasses(c)

Next == \/ Start \/ Hooks \/ WaitForCompletionAck
        \/ Deliveries \/ Broadcasts \/ MarkShutdown \/ Shutdown
        \/ \E c \in Conn : Handle(c) \/ Page(c)

\* Goroutines that can run do; writeMu, which hands itself to whoever has
\* waited long, goes to each handler in turn; a write returns (pages read, and
\* after the first snapshot there is a deadline).  No page has to do anything,
\* no deadline of a read has to pass, and nobody has to shut the server down.
Spec == /\ Init /\ [][Next]_vars
        /\ WF_vars(EndBroadcast) /\ WF_vars(Shutdown)
        /\ \A c \in Conn : WF_vars(Handle(c))

-----------------------------------------------------------------------------
\* The registered connections whose handler means to go on.
Attended == {c \in clients : handler[c] # "leaving"}

\* The broadcast under way brings c a state of version v or later.
Writing(c, kinds, v) ==
  c \in writer.to /\ writer.kind \in kinds /\ writer.version >= v

\* The first snapshot of c has yet to be written and will be of version v.
Greeting(c, v) ==
  handler[c] = "registered" \/ (handler[c] = "snapped" /\ taken[c] >= v)

\* A registered page has been given the final status, or is about to be: by a
\* broadcast that is under way, or by its own first snapshot.  No page falls
\* between registering and its snapshot, whatever was broadcast in between.
OutcomeOnItsWay ==
  outcome # 0 /\ ~ShuttingDown =>
    \A c \in Attended :
      \/ page[c] # "uninformed"
      \/ listeners["snapshot"] > 0
      \/ Writing(c, {"snapshot"}, outcome) \/ Greeting(c, outcome)

\* The last change of the row counts is not lost in the debouncing, however
\* many events one timer stands for and however often it was replaced: a
\* registered page has been given counts as new, or an event, a timer, a
\* callback or a broadcast that is under way will give them.
RowCountsOnTheirWay ==
  stage = "up" =>
    \A c \in Attended :
      \/ shown[c] >= rows
      \/ listeners["progress"] + fired > 0 \/ armed
      \/ Writing(c, {"snapshot", "progress"}, rows) \/ Greeting(c, rows)

\* Events overtake each other, but what is broadcast does not: no broadcast
\* carries an older state than one that went to the same page before.  (A
\* page's own first snapshot may, as it is taken before writeMu is.)
NeverBack ==
  EndBroadcast /\ writer.kind # "event" => \A c \in writer.to : writer.version >= shown[c]
BroadcastsForward == [][NeverBack]_vars

\* Once Shutdown has closed the clients, no handler waits for a message on a
\* connection that is still open, were it registered ever so late.
NoReaderForgotten ==
  stage \in {"closed", "down"} =>
    \A c \in Conn : handler[c] = "reading" => link[c] # "open"

\* After Shutdown every handler ends, without its page or a deadline.
HandlersEnd ==
  ShuttingDown ~> \A c \in Conn : handler[c] \in {"none", "gone"}

\* webserver.go, "websocketWriteTimeout is the timeout for WebSocket write
\* operations": a page that is there to read is not dropped by a broadcast.
DropsOnlyTheGone ==
  EndBroadcast => \A c \in clients \ clients' : link[c] # "open"
ReadersKept == [][DropsOnlyTheGone]_vars
=============================================================================
