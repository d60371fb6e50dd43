--------------------------- MODULE WebServerProofs ---------------------------
(***************************************************************************)
(* The safety of WebServer for any number of connections, clients and      *)
(* changes of the state, and why every handler ends after Shutdown.        *)
(***************************************************************************)
EXTENDS WebServer, TLAPS

Busy == {"registered", "snapped", "loop", "reading", "acking"}

\* A registered connection has a handler that will leave; one that is at work
\* and not registered was closed by whoever removed it.
ClientInv ==
  /\ \A c \in clients : handler[c] \in Busy \union {"leaving"}
  /\ \A c \in Conn : handler[c] \in Busy /\ c \notin clients => link[c] # "open"
  /\ stage = "new" => \A c \in Conn : handler[c] = "none"

\* The message being written is at least as new as all that was written.
WriterInv ==
  /\ writer.kind = "free" => writer.to = {}
  /\ \A c \in writer.to : shown[c] <= writer.version

IInv == /\ TypeOK /\ ClientInv /\ WriterInv
        /\ OutcomeOnItsWay /\ RowCountsOnTheirWay /\ NoReaderForgotten
-----------------------------------------------------------------------------
(* Lemmas about the pieces the actions are made of.                        *)

LEMMA CountsTyped ==
  ASSUME NEW bag \in [Class -> Nat], NEW k \in Class
  PROVE  /\ More(bag, k) \in [Class -> Nat]
         /\ More(bag, k)[k] > 0
         /\ \A j \in Class : j # k => More(bag, k)[j] = bag[j]
         /\ bag[k] > 0 => Less(bag, k) \in [Class -> Nat]
         /\ \A j \in Class : j # k => Less(bag, k)[j] = bag[j]
BY DEF More, Less

LEMMA InitIInv == Init => IInv
<1> SUFFICES ASSUME Init PROVE IInv
  OBVIOUS
<1>1. TypeOK
  <2>1. {armed, ackChan} \subseteq BOOLEAN
    BY Zenon DEF Init
  <2>2. version \in Nat /\ 0 \in 0..version
    BY DEF Init
  <2>3. writer \in [kind : Class \union {"free"}, version : 0..version, to : SUBSET Conn]
    BY <2>2 DEF Init, Free
  <2>4. taken \in [Conn -> 0..version] /\ shown \in [Conn -> 0..version]
    BY <2>2 DEF Init
  <2>5. /\ listeners \in [Class -> Nat] /\ fired \in Nat
        /\ handler \in [Conn -> {"none", "admitted", "registered", "snapped", "loop",
                                "reading", "acking", "leaving", "gone"}]
        /\ link \in [Conn -> {"none", "open", "abandoned", "closed"}]
        /\ page \in [Conn -> {"uninformed", "informed", "heard"}]
    BY DEF Init
  <2> QED
    BY <2>1, <2>2, <2>3, <2>4, <2>5 DEF Init, TypeOK
<1>2. ClientInv /\ WriterInv
  BY DEF Init, ClientInv, WriterInv, Free, Busy
<1>3. OutcomeOnItsWay /\ RowCountsOnTheirWay /\ NoReaderForgotten
  BY DEF Init, OutcomeOnItsWay, RowCountsOnTheirWay, NoReaderForgotten, Attended
<1> QED
  BY <1>1, <1>2, <1>3 DEF IInv

-----------------------------------------------------------------------------
(* Changes of the state.                                                   *)
LEMMA ChangeStep ==
  ASSUME IInv, NEW k \in Class, Change(k),
         rows' = rows \/ (rows' = version + 1 /\ k = "progress"),
         copy' \in {"running", "announced", "logged", "acknowledged"},
         outcome' = outcome \/ (outcome' = version + 1 /\ k = "snapshot")
  PROVE  IInv'
<1> USE DEF IInv
<1>1. /\ version \in Nat /\ version' = version + 1 /\ version' \in Nat
      /\ 0..version \subseteq 0..version'
  BY DEF TypeOK, Change
<1>2. /\ listeners' \in [Class -> Nat]
      /\ stage = "up" => listeners'[k] > 0
      /\ \A j \in Class : listeners[j] > 0 => listeners'[j] > 0
  <2>1. listeners \in [Class -> Nat] /\ \A j \in Class : listeners[j] \in Nat
    BY DEF TypeOK
  <2>2. /\ More(listeners, k) \in [Class -> Nat]
        /\ More(listeners, k)[k] > 0
        /\ \A j \in Class : j # k => More(listeners, k)[j] = listeners[j]
    BY <2>1, CountsTyped
  <2>3. CASE stage = "up"
    BY <2>2, <2>3 DEF Change, Emit
  <2>4. CASE stage # "up"
    BY <2>1, <2>4 DEF Change, Emit
  <2> QED
    BY <2>3, <2>4
<1>3. TypeOK'
  <2>1. writer' \in [kind : Class \union {"free"}, version : 0..version', to : SUBSET Conn]
    BY <1>1 DEF TypeOK, Change
  <2>2. taken' \in [Conn -> 0..version'] /\ shown' \in [Conn -> 0..version']
    BY <1>1 DEF TypeOK, Change, conns
  <2>3. outcome' \in 0..version' /\ rows' \in 0..version' /\ version' \in Nat
    BY <1>1 DEF TypeOK, Change
  <2> QED
    BY <1>2, <2>1, <2>2, <2>3 DEF TypeOK, Change, conns
<1>4. ClientInv' /\ WriterInv' /\ NoReaderForgotten'
  BY DEF ClientInv, WriterInv, NoReaderForgotten, Change, conns
<1>5. Attended' = Attended
  BY DEF Attended, Change, conns
<1>6. ASSUME stage # "up" PROVE stage = "new" /\ Attended = {}
  BY <1>6 DEF Change, ShuttingDown, ClientInv, Attended, Busy, TypeOK
<1>7. OutcomeOnItsWay'
  <2> SUFFICES ASSUME outcome' # 0, stage = "up", NEW c \in Attended
               PROVE  \/ page[c] # "uninformed"
                      \/ listeners'["snapshot"] > 0
                      \/ Writing(c, {"snapshot"}, outcome') \/ Greeting(c, outcome')
    BY <1>5, <1>6 DEF OutcomeOnItsWay, Change, conns, Writing, Greeting
  <2>1. CASE outcome' = outcome
    BY <2>1, <1>2 DEF OutcomeOnItsWay, ShuttingDown, Class
  <2>2. CASE k = "snapshot"
    BY <2>2, <1>2
  <2> QED
    BY <2>1, <2>2
<1>8. RowCountsOnTheirWay'
  <2> SUFFICES ASSUME stage = "up", NEW c \in Attended
               PROVE  \/ shown[c] >= rows'
                      \/ listeners'["progress"] + fired > 0 \/ armed
                      \/ Writing(c, {"snapshot", "progress"}, rows')
                      \/ Greeting(c, rows')
    BY <1>5 DEF RowCountsOnTheirWay, Change, conns, Writing, Greeting
  <2>1. CASE k = "progress"
    BY <2>1, <1>2 DEF TypeOK
  <2>2. CASE k # "progress"
    <3>1. rows' = rows
      BY <2>2
    <3>2. listeners["progress"] + fired > 0 => listeners'["progress"] + fired > 0
      BY <1>2 DEF TypeOK, Class
    <3> QED
      BY <3>1, <3>2 DEF RowCountsOnTheirWay
  <2> QED
    BY <2>1, <2>2
<1> QED
  BY <1>3, <1>4, <1>7, <1>8

LEMMA HookStep == IInv /\ Hooks => IInv'
<1> SUFFICES ASSUME IInv, Hooks PROVE IInv'
  OBVIOUS
<1>1. ASSUME NEW k \in Class, Hook(k),
             rows' = rows \/ (rows' = version + 1 /\ k = "progress")
      PROVE  IInv'
  BY <1>1, ChangeStep DEF Hook
<1>2. CASE SetFinalStatus
  BY <1>2, ChangeStep DEF SetFinalStatus, Class
<1>3. CASE LastEntry
  BY <1>3, ChangeStep DEF LastEntry, Class
<1>4. CASE UpdateTableProgress
  <2>1. Hook("progress") /\ rows' = version + 1 /\ "progress" \in Class
    BY <1>4 DEF UpdateTableProgress, Hook, Change, Class
  <2> QED
    BY <1>1, <2>1
<1>5. CASE UpdateTableStatus \/ AddLog \/ AddError \/ SetStatus
  BY <1>1, <1>5 DEF UpdateTableStatus, AddLog, AddError, SetStatus, Class
<1> QED
  BY <1>2, <1>3, <1>4, <1>5 DEF Hooks

-----------------------------------------------------------------------------
(* The steps that leave connections and the writer alone.                  *)
LEMMA DeliveryStep ==
  IInv /\ (Deliveries \/ Start \/ MarkShutdown \/ StopTimer \/ WaitForCompletionAck) => IInv'
<1> SUFFICES ASSUME IInv,
                    Deliveries \/ Start \/ MarkShutdown \/ StopTimer \/ WaitForCompletionAck
             PROVE  IInv'
  OBVIOUS
<1> USE DEF IInv
<1>1. ASSUME NEW k \in Immediate, DropEvent(k) PROVE IInv'
  <2>1. listeners' \in [Class -> Nat]
    BY <1>1, CountsTyped DEF DropEvent, TypeOK, Immediate
  <2>2. TypeOK'
    BY <1>1, <2>1 DEF DropEvent, TypeOK, run, conns
  <2>3. stage # "up"
    BY <1>1 DEF DropEvent, ShuttingDown
  <2> QED
    BY <1>1, <2>2, <2>3
       DEF DropEvent, ClientInv, WriterInv, OutcomeOnItsWay, RowCountsOnTheirWay,
           NoReaderForgotten, ShuttingDown, run, conns
<1>2. CASE ScheduleDebouncedSnapshot
  <2>1. listeners' \in [Class -> Nat] /\ listeners'["snapshot"] = listeners["snapshot"]
    BY <1>2, CountsTyped DEF ScheduleDebouncedSnapshot, TypeOK, Class
  <2>2. TypeOK'
    BY <1>2, <2>1 DEF ScheduleDebouncedSnapshot, TypeOK, run, conns
  <2> QED
    BY <1>2, <2>1, <2>2
       DEF ScheduleDebouncedSnapshot, ClientInv, WriterInv, OutcomeOnItsWay,
           RowCountsOnTheirWay, NoReaderForgotten, ShuttingDown, Attended, Writing, Greeting, run,
           conns
<1>3. CASE TimerFires
  <2>1. TypeOK'
    <3>1. fired' \in Nat
      BY <1>3 DEF TimerFires, TypeOK
    <3>2. armed' = FALSE /\ UNCHANGED <<run, listeners, writer, stage, clients, conns, ackChan>>
      BY <1>3 DEF TimerFires
    <3> QED
      BY <3>1, <3>2 DEF TypeOK, run, conns
  <2>2. listeners["progress"] + fired' > 0
    BY <1>3 DEF TimerFires, TypeOK, Class
  <2> QED
    BY <1>3, <2>1, <2>2
       DEF TimerFires, ClientInv, WriterInv, OutcomeOnItsWay, RowCountsOnTheirWay,
           NoReaderForgotten, ShuttingDown, Attended, Writing, Greeting, run, conns
<1>4. CASE Start
  <2>1. TypeOK'
    BY <1>4 DEF Start, TypeOK, run, events, conns
  <2>2. Attended' = {}
    BY <1>4 DEF Start, Attended, ClientInv, TypeOK, Busy, conns
  <2> QED
    BY <1>4, <2>1, <2>2
       DEF Start, ClientInv, WriterInv, OutcomeOnItsWay, RowCountsOnTheirWay,
           NoReaderForgotten, run, events, conns
<1>5. CASE MarkShutdown
  BY <1>5 DEF MarkShutdown, shutdownFrame, TypeOK, ClientInv, WriterInv,
              OutcomeOnItsWay, RowCountsOnTheirWay, NoReaderForgotten, ShuttingDown, run
<1>6. CASE StopTimer
  <2>1. TypeOK'
    BY <1>6 DEF StopTimer, shutdownFrame, TypeOK, run
  <2> QED
    BY <1>6, <2>1
       DEF StopTimer, shutdownFrame, ClientInv, WriterInv, OutcomeOnItsWay,
           RowCountsOnTheirWay, NoReaderForgotten, ShuttingDown, run
<1>7. CASE WaitForCompletionAck
  <2>1. TypeOK'
    BY <1>7 DEF WaitForCompletionAck, TypeOK, events, conns
  <2> QED
    BY <1>7, <2>1
       DEF WaitForCompletionAck, ClientInv, WriterInv, OutcomeOnItsWay,
           RowCountsOnTheirWay, NoReaderForgotten, ShuttingDown, Attended, Writing, Greeting,
           events, conns
<1> QED
  BY <1>1, <1>2, <1>3, <1>4, <1>5, <1>6, <1>7 DEF Deliveries

(* A broadcast takes writeMu.                                              *)
LEMMA LockStep ==
  ASSUME IInv, NEW k \in Class, Lock(k)
  PROVE  /\ writer' \in [kind : Class \union {"free"}, version : 0..version, to : SUBSET Conn]
         /\ writer'.kind = "free" => writer'.to = {}
         /\ \A c \in writer'.to : shown[c] <= writer'.version
         /\ \A c \in clients : c \in writer'.to /\ writer'.kind = k /\ writer'.version = version
<1>1. /\ version \in Nat /\ version \in 0..version /\ 0 \in 0..version /\ clients \subseteq Conn
      /\ \A c \in Conn : shown[c] <= version
  BY WebServerAssumption DEF IInv, TypeOK
<1>2. CASE clients = {}
  BY <1>1, <1>2 DEF Lock, Free
<1>3. CASE clients # {}
  BY <1>1, <1>3 DEF Lock, Recipients, Class
<1> QED
  BY <1>2, <1>3

LEMMA BroadcastStep ==
  IInv /\ (BroadcastSnapshot \/ \E k \in Immediate : BroadcastStateUpdate(k)) => IInv'
<1> SUFFICES ASSUME IInv, BroadcastSnapshot \/ \E k \in Immediate : BroadcastStateUpdate(k)
             PROVE  IInv'
  OBVIOUS
<1> USE DEF IInv
<1>1. CASE BroadcastSnapshot
  <2>1. Lock("progress")
    BY <1>1 DEF BroadcastSnapshot
  <2>2. TypeOK' /\ WriterInv'
    BY <1>1, <2>1, LockStep DEF BroadcastSnapshot, TypeOK, WriterInv, Class, run, conns
  <2>3. ClientInv' /\ NoReaderForgotten'
    BY <1>1 DEF BroadcastSnapshot, ClientInv, NoReaderForgotten, run, conns
  <2>4. OutcomeOnItsWay'
    BY <1>1, <2>1 DEF BroadcastSnapshot, Lock, WriterInv, OutcomeOnItsWay, ShuttingDown,
                      Attended, Writing, Greeting, run, conns
  <2>5. RowCountsOnTheirWay'
    BY <1>1, <2>1, LockStep
       DEF BroadcastSnapshot, TypeOK, RowCountsOnTheirWay, Attended, Writing, Class, run, conns
  <2> QED
    BY <2>2, <2>3, <2>4, <2>5
<1>2. ASSUME NEW k \in Immediate, BroadcastStateUpdate(k) PROVE IInv'
  <2>1. Lock(k) /\ k \in Class
    BY <1>2 DEF BroadcastStateUpdate, Immediate
  <2>2. /\ listeners' \in [Class -> Nat]
        /\ \A j \in Class : j # k => listeners'[j] = listeners[j]
    BY <1>2, <2>1, CountsTyped DEF BroadcastStateUpdate, TypeOK
  <2>3. TypeOK' /\ WriterInv'
    BY <1>2, <2>1, <2>2, LockStep DEF BroadcastStateUpdate, TypeOK, WriterInv, run, conns
  <2>4. ClientInv' /\ NoReaderForgotten'
    BY <1>2 DEF BroadcastStateUpdate, ClientInv, NoReaderForgotten, run, conns
  <2>5. OutcomeOnItsWay'
    <3>1. CASE k = "snapshot"
      BY <1>2, <3>1, <2>1, LockStep
         DEF BroadcastStateUpdate, TypeOK, OutcomeOnItsWay, Attended, Writing, run, conns
    <3>2. CASE k # "snapshot"
      BY <1>2, <3>2, <2>1, <2>2
         DEF BroadcastStateUpdate, Lock, WriterInv, OutcomeOnItsWay, ShuttingDown, Attended,
             Writing, Greeting, Class, run, conns
    <3> QED
      BY <3>1, <3>2
  <2>6. RowCountsOnTheirWay'
    BY <1>2, <2>1, <2>2
       DEF BroadcastStateUpdate, Lock, WriterInv, RowCountsOnTheirWay, Attended, Writing, Greeting,
           Immediate, Class, run, conns
  <2> QED
    BY <2>3, <2>4, <2>5, <2>6
<1> QED
  BY <1>1, <1>2

(* What a message does to those it reaches.                                *)
LEMMA ReachStep ==
  ASSUME TypeOK, NEW C, NEW k, NEW v \in 0..version, Reach(C, k, v)
  PROVE  /\ shown' \in [Conn -> 0..version]
         /\ page' \in [Conn -> {"uninformed", "informed", "heard"}]
         /\ \A c \in Conn : shown'[c] >= shown[c]
         /\ \A c \in Conn : page[c] # "uninformed" => page'[c] # "uninformed"
         /\ \A c \in Conn : c \in C /\ k # "event" /\ handler[c] # "leaving" => shown'[c] >= v
         /\ \A c \in Conn : c \in C /\ k = "snapshot" /\ outcome # 0 /\ v >= outcome
                              => page'[c] # "uninformed"
         /\ \A c \in Conn : shown'[c] <= shown[c] \/ shown'[c] <= v
<1>1. version \in Nat /\ \A c \in Conn : shown[c] \in 0..version
  BY WebServerAssumption DEF TypeOK
<1>2. \A c \in Conn : Newest(shown[c], v) \in 0..version /\ Newest(shown[c], v) >= shown[c]
                        /\ Newest(shown[c], v) >= v
  BY <1>1 DEF Newest
<1>3. /\ shown' \in [Conn -> 0..version]
      /\ \A c \in Conn : shown'[c] = IF c \in C /\ k # "event" /\ handler[c] # "leaving"
                                    THEN Newest(shown[c], v) ELSE shown[c]
  BY <1>1, <1>2 DEF Reach
<1>4. /\ page' \in [Conn -> {"uninformed", "informed", "heard"}]
      /\ \A c \in Conn : page'[c] = IF c \in C /\ k = "snapshot" /\ page[c] = "uninformed"
                                       /\ outcome # 0 /\ v >= outcome
                                    THEN "informed" ELSE page[c]
  BY DEF Reach, Informs, TypeOK
<1>5. \A c \in Conn : shown'[c] <= shown[c] \/ shown'[c] <= v
  BY <1>1, <1>3 DEF Newest
<1>6. /\ \A c \in Conn : shown'[c] >= shown[c]
      /\ \A c \in Conn : c \in C /\ k # "event" /\ handler[c] # "leaving" => shown'[c] >= v
  BY <1>1, <1>2, <1>3
<1> QED
  BY <1>3, <1>4, <1>5, <1>6

LEMMA EndBroadcastStep == IInv /\ EndBroadcast => IInv'
<1> SUFFICES ASSUME IInv, EndBroadcast PROVE IInv'
  OBVIOUS
<1> USE DEF IInv
<1>1. PICK failed \in SUBSET {c \in writer.to : link[c] # "open" \/ MayBeOverdue(c)} :
        /\ Reach(writer.to \ failed, writer.kind, writer.version)
        /\ clients' = clients \ failed
        /\ link' = [c \in Conn |-> IF c \in failed THEN "closed" ELSE link[c]]
  BY DEF EndBroadcast
<1>2. /\ writer' = Free
      /\ UNCHANGED <<run, events, stage, handler, taken, ackChan>>
  BY DEF EndBroadcast
<1>3. /\ version \in Nat /\ 0 \in 0..version /\ writer.version \in 0..version
      /\ writer.to \subseteq Conn /\ failed \subseteq Conn
      /\ outcome \in Nat /\ rows \in Nat
  BY <1>1, WebServerAssumption DEF TypeOK
<1>4. /\ shown' \in [Conn -> 0..version]
      /\ page' \in [Conn -> {"uninformed", "informed", "heard"}]
      /\ \A c \in Conn : shown'[c] >= shown[c]
      /\ \A c \in Conn : page[c] # "uninformed" => page'[c] # "uninformed"
      /\ \A c \in Conn : c \in writer.to \ failed /\ writer.kind # "event"
                          /\ handler[c] # "leaving" => shown'[c] >= writer.version
      /\ \A c \in Conn : c \in writer.to \ failed /\ writer.kind = "snapshot"
                          /\ outcome # 0 /\ writer.version >= outcome => page'[c] # "uninformed"
  BY <1>1, <1>3, ReachStep
<1>5. TypeOK'
  <2>1. writer' \in [kind : Class \union {"free"}, version : 0..version, to : SUBSET Conn]
    BY <1>2, <1>3 DEF Free
  <2>2. link' \in [Conn -> {"none", "open", "abandoned", "closed"}] /\ clients' \subseteq Conn
    BY <1>1 DEF TypeOK
  <2> QED
    BY <1>2, <1>4, <2>1, <2>2 DEF TypeOK, run, events
<1>6. WriterInv'
  BY <1>2 DEF WriterInv, Free, run
<1>7. ClientInv' /\ NoReaderForgotten'
  BY <1>1, <1>2, <1>3 DEF ClientInv, NoReaderForgotten, TypeOK
<1>8. Attended' = Attended \ failed /\ Attended \subseteq Conn
  BY <1>1, <1>2 DEF Attended, TypeOK
<1>9. OutcomeOnItsWay'
  <2> SUFFICES ASSUME outcome # 0, ~ShuttingDown, NEW c \in Attended \ failed
               PROVE  \/ page'[c] # "uninformed"
                      \/ listeners["snapshot"] > 0 \/ Greeting(c, outcome)
    BY <1>2, <1>8 DEF OutcomeOnItsWay, ShuttingDown, Greeting, run, events
  <2>1. CASE Writing(c, {"snapshot"}, outcome)
    <3>1. /\ c \in Conn /\ c \in writer.to \ failed
          /\ writer.kind = "snapshot" /\ writer.version >= outcome
      BY <1>8, <2>1 DEF Writing
    <3> QED
      BY <1>4, <3>1
  <2>2. CASE ~Writing(c, {"snapshot"}, outcome)
    <3>1. c \in Conn /\ c \in Attended
      BY <1>8
    <3>2. \/ page[c] # "uninformed"
          \/ listeners["snapshot"] > 0 \/ Greeting(c, outcome)
      BY <2>2, <3>1 DEF OutcomeOnItsWay
    <3>3. page[c] # "uninformed" => page'[c] # "uninformed"
      BY <1>4, <3>1
    <3> QED
      BY <3>2, <3>3
  <2> QED
    BY <2>1, <2>2
<1>10. RowCountsOnTheirWay'
  <2> SUFFICES ASSUME stage = "up", NEW c \in Attended \ failed
               PROVE  \/ shown'[c] >= rows
                      \/ listeners["progress"] + fired > 0 \/ armed
                      \/ Greeting(c, rows)
    BY <1>2, <1>8 DEF RowCountsOnTheirWay, Greeting, run, events
  <2>1. shown'[c] \in Nat /\ shown[c] \in Nat /\ writer.version \in Nat
    BY <1>3, <1>4, <1>8 DEF TypeOK
  <2>2. CASE Writing(c, {"snapshot", "progress"}, rows)
    <3>1. /\ c \in Conn /\ c \in writer.to \ failed /\ handler[c] # "leaving"
          /\ writer.kind \in {"snapshot", "progress"} /\ writer.version >= rows
      BY <1>8, <2>2 DEF Writing, Attended
    <3>2. shown'[c] >= writer.version
      BY <1>4, <3>1
    <3> QED
      BY <1>3, <2>1, <3>1, <3>2
  <2>3. CASE shown[c] >= rows
    <3>1. c \in Conn
      BY <1>8
    <3>2. shown'[c] >= shown[c]
      BY <1>4, <3>1
    <3> QED
      BY <1>3, <2>1, <2>3, <3>2
  <2> QED
    BY <2>2, <2>3 DEF RowCountsOnTheirWay
<1> QED
  BY <1>5, <1>6, <1>7, <1>9, <1>10

-----------------------------------------------------------------------------
(* The handlers and the pages.                                             *)
LEMMA HandleStep ==
  ASSUME IInv, NEW c \in Conn, Handle(c) \/ Page(c)
  PROVE  IInv'
<1> USE DEF IInv
<1>1. ASSUME Register(c) PROVE IInv'
  <2>1. TypeOK' /\ WriterInv'
    BY <1>1 DEF Register, Goto, TypeOK, WriterInv, handlerFrame, run, events
  <2>2. ClientInv' /\ NoReaderForgotten'
    BY <1>1 DEF Register, Goto, TypeOK, ClientInv, NoReaderForgotten, Busy,
                ShuttingDown, handlerFrame
  <2>3. OutcomeOnItsWay' /\ RowCountsOnTheirWay'
    BY <1>1 DEF Register, Goto, TypeOK, ClientInv, OutcomeOnItsWay, RowCountsOnTheirWay,
                Attended, Writing,
                Greeting, Busy, ShuttingDown, handlerFrame, run, events
  <2> QED
    BY <2>1, <2>2, <2>3
<1>2. ASSUME TakeSnapshot(c) PROVE IInv'
  <2>1. TypeOK' /\ WriterInv'
    BY <1>2 DEF TakeSnapshot, Goto, TypeOK, WriterInv, handlerFrame, run, events
  <2>2. ClientInv' /\ NoReaderForgotten'
    BY <1>2 DEF TakeSnapshot, Goto, TypeOK, ClientInv, NoReaderForgotten, Busy,
                ShuttingDown, handlerFrame
  <2>3. OutcomeOnItsWay' /\ RowCountsOnTheirWay'
    BY <1>2 DEF TakeSnapshot, Goto, TypeOK, ClientInv, OutcomeOnItsWay,
                RowCountsOnTheirWay, Attended, Writing,
                Greeting, Busy, ShuttingDown, handlerFrame, run, events
  <2> QED
    BY <2>1, <2>2, <2>3
<1>3. ASSUME CheckShutdown(c) PROVE IInv'
  <2>1. TypeOK' /\ WriterInv'
    BY <1>3 DEF CheckShutdown, Goto, Return, TypeOK, WriterInv, handlerFrame,
                run, events
  <2>2. ClientInv' /\ NoReaderForgotten'
    BY <1>3 DEF CheckShutdown, Goto, Return, TypeOK, ClientInv, NoReaderForgotten,
                Busy, ShuttingDown, handlerFrame
  <2>3. OutcomeOnItsWay' /\ RowCountsOnTheirWay'
    BY <1>3 DEF CheckShutdown, Goto, Return, TypeOK, ClientInv, OutcomeOnItsWay,
                RowCountsOnTheirWay, Attended, Writing,
                Greeting, Busy, ShuttingDown, handlerFrame, run, events
  <2> QED
    BY <2>1, <2>2, <2>3
<1>4. ASSUME ReadMessage(c) PROVE IInv'
  <2>1. TypeOK' /\ WriterInv'
    BY <1>4 DEF ReadMessage, Goto, TypeOK, WriterInv, handlerFrame, run, events
  <2>2. ClientInv' /\ NoReaderForgotten'
    BY <1>4 DEF ReadMessage, Goto, TypeOK, ClientInv, NoReaderForgotten, Busy,
                ShuttingDown, handlerFrame
  <2>3. OutcomeOnItsWay' /\ RowCountsOnTheirWay'
    BY <1>4 DEF ReadMessage, Goto, TypeOK, ClientInv, OutcomeOnItsWay,
                RowCountsOnTheirWay, Attended, Writing,
                Greeting, Busy, ShuttingDown, handlerFrame, run, events
  <2> QED
    BY <2>1, <2>2, <2>3
<1>5. ASSUME HandleClientMessage(c) PROVE IInv'
  <2>1. TypeOK' /\ WriterInv'
    BY <1>5 DEF HandleClientMessage, Goto, TypeOK, WriterInv, handlerFrame,
                run, events
  <2>2. ClientInv' /\ NoReaderForgotten'
    BY <1>5 DEF HandleClientMessage, Goto, TypeOK, ClientInv, NoReaderForgotten, Busy,
                ShuttingDown, handlerFrame
  <2>3. OutcomeOnItsWay' /\ RowCountsOnTheirWay'
    BY <1>5 DEF HandleClientMessage, Goto, TypeOK, ClientInv, OutcomeOnItsWay,
                RowCountsOnTheirWay, Attended, Writing,
                Greeting, Busy, ShuttingDown, handlerFrame, run, events
  <2> QED
    BY <2>1, <2>2, <2>3
<1>6. ASSUME ReadFails(c) PROVE IInv'
  <2>1. TypeOK' /\ WriterInv'
    BY <1>6 DEF ReadFails, Goto, Return, TypeOK, WriterInv, handlerFrame, run,
                events
  <2>2. ClientInv' /\ NoReaderForgotten'
    BY <1>6 DEF ReadFails, Goto, Return, TypeOK, ClientInv, NoReaderForgotten, Busy,
                ShuttingDown, handlerFrame
  <2>3. OutcomeOnItsWay' /\ RowCountsOnTheirWay'
    BY <1>6 DEF ReadFails, Goto, Return, TypeOK, ClientInv, OutcomeOnItsWay,
                RowCountsOnTheirWay, Attended, Writing,
                Greeting, Busy, ShuttingDown, handlerFrame, run, events
  <2> QED
    BY <2>1, <2>2, <2>3
<1>7. ASSUME ReadDeadlinePasses(c) PROVE IInv'
  <2>1. TypeOK' /\ WriterInv'
    BY <1>7 DEF ReadDeadlinePasses, Goto, Return, TypeOK, WriterInv,
                handlerFrame, run, events
  <2>2. ClientInv' /\ NoReaderForgotten'
    BY <1>7 DEF ReadDeadlinePasses, Goto, Return, TypeOK, ClientInv, NoReaderForgotten,
                Busy, ShuttingDown, handlerFrame
  <2>3. OutcomeOnItsWay' /\ RowCountsOnTheirWay'
    BY <1>7 DEF ReadDeadlinePasses, Goto, Return, TypeOK, ClientInv, OutcomeOnItsWay,
                RowCountsOnTheirWay, Attended, Writing,
                Greeting, Busy, ShuttingDown, handlerFrame, run, events
  <2> QED
    BY <2>1, <2>2, <2>3
<1>8. ASSUME Leave(c) PROVE IInv'
  <2>1. TypeOK' /\ WriterInv'
    BY <1>8 DEF Leave, Goto, TypeOK, WriterInv, handlerFrame, run, events
  <2>2. ClientInv' /\ NoReaderForgotten'
    BY <1>8 DEF Leave, Goto, TypeOK, ClientInv, NoReaderForgotten, Busy, ShuttingDown,
                handlerFrame
  <2>3. OutcomeOnItsWay' /\ RowCountsOnTheirWay'
    BY <1>8 DEF Leave, Goto, TypeOK, ClientInv, OutcomeOnItsWay, RowCountsOnTheirWay,
                Attended, Writing,
                Greeting, Busy, ShuttingDown, handlerFrame, run, events
  <2> QED
    BY <2>1, <2>2, <2>3
<1>9. ASSUME Admit(c) PROVE IInv'
  <2>1. TypeOK' /\ WriterInv'
    BY <1>9 DEF Admit, Goto, TypeOK, WriterInv, handlerFrame, run, events
  <2>2. ClientInv' /\ NoReaderForgotten'
    BY <1>9 DEF Admit, Goto, TypeOK, ClientInv, NoReaderForgotten, Busy, ShuttingDown,
                handlerFrame
  <2>3. OutcomeOnItsWay' /\ RowCountsOnTheirWay'
    BY <1>9 DEF Admit, Goto, TypeOK, ClientInv, OutcomeOnItsWay, RowCountsOnTheirWay,
                Attended, Writing,
                Greeting, Busy, ShuttingDown, handlerFrame, run, events
  <2> QED
    BY <2>1, <2>2, <2>3
<1>10. ASSUME PageLeaves(c) PROVE IInv'
  <2>1. TypeOK' /\ WriterInv'
    BY <1>10 DEF PageLeaves, TypeOK, WriterInv, handlerFrame, run, events
  <2>2. ClientInv' /\ NoReaderForgotten'
    BY <1>10 DEF PageLeaves, TypeOK, ClientInv, NoReaderForgotten, Busy, ShuttingDown,
                 handlerFrame
  <2>3. OutcomeOnItsWay' /\ RowCountsOnTheirWay'
    BY <1>10 DEF PageLeaves, TypeOK, ClientInv, OutcomeOnItsWay, RowCountsOnTheirWay,
                 Attended, Writing,
                Greeting, Busy, ShuttingDown, handlerFrame, run, events
  <2> QED
    BY <2>1, <2>2, <2>3
<1>11. ASSUME SendInitialState(c) PROVE IInv'
  <2>1. CASE Return(c)
    <3>1. TypeOK' /\ WriterInv'
      BY <1>11, <2>1 DEF SendInitialState, Return, Goto, TypeOK, WriterInv,
                         handlerFrame,
                         run, events
    <3>2. ClientInv' /\ NoReaderForgotten'
      BY <1>11, <2>1 DEF SendInitialState, Return, Goto, TypeOK, ClientInv,
                         NoReaderForgotten,
                         Busy, handlerFrame
    <3>3. OutcomeOnItsWay' /\ RowCountsOnTheirWay'
      BY <1>11, <2>1 DEF SendInitialState, Return, Goto, TypeOK, OutcomeOnItsWay,
                         RowCountsOnTheirWay, Attended, Writing, Greeting, ShuttingDown,
                         handlerFrame, run, events
    <3> QED
      BY <3>1, <3>2, <3>3
  <2>2. CASE Goto(c, "loop") /\ Reach({c}, "snapshot", taken[c])
    <3>1. /\ handler[c] = "snapped" /\ writer.kind = "free"
          /\ taken' = [taken EXCEPT ![c] = 0] /\ handler' = [handler EXCEPT ![c] = "loop"]
          /\ UNCHANGED <<run, events, writer, stage, clients, link, ackChan>>
      BY <1>11, <2>2 DEF SendInitialState, Goto, handlerFrame
    <3>2. /\ taken[c] \in 0..version /\ version \in Nat /\ 0 \in 0..version
          /\ outcome \in Nat /\ rows \in Nat
      BY WebServerAssumption DEF TypeOK
    <3>3. /\ shown' \in [Conn -> 0..version]
          /\ page' \in [Conn -> {"uninformed", "informed", "heard"}]
          /\ \A d \in Conn : shown'[d] >= shown[d]
          /\ \A d \in Conn : page[d] # "uninformed" => page'[d] # "uninformed"
          /\ shown'[c] >= taken[c]
          /\ outcome # 0 /\ taken[c] >= outcome => page'[c] # "uninformed"
      BY <2>2, <3>1, <3>2, ReachStep
    <3>4. TypeOK' /\ WriterInv'
      BY <3>1, <3>2, <3>3 DEF TypeOK, WriterInv, run, events
    <3>5. ClientInv' /\ NoReaderForgotten'
      BY <3>1 DEF TypeOK, ClientInv, NoReaderForgotten, Busy
    <3>6. Attended' = Attended /\ Attended \subseteq Conn
      BY <3>1 DEF Attended, TypeOK
    <3>7. OutcomeOnItsWay'
      <4> SUFFICES ASSUME outcome # 0, ~ShuttingDown, NEW d \in Attended
                   PROVE  \/ page'[d] # "uninformed"
                          \/ listeners["snapshot"] > 0 \/ Greeting(d, outcome)'
        BY <3>1, <3>6 DEF OutcomeOnItsWay, ShuttingDown, Greeting, run, events
      <4>1. /\ d \in Conn
            /\ \/ page[d] # "uninformed"
               \/ listeners["snapshot"] > 0 \/ Greeting(d, outcome)
        BY <3>1, <3>6 DEF OutcomeOnItsWay, Writing
      <4>2. CASE d = c
        BY <4>1, <4>2, <3>1, <3>3 DEF Greeting
      <4>3. CASE d # c
        BY <4>1, <4>3, <3>1, <3>3 DEF Greeting, TypeOK, run
      <4> QED
        BY <4>2, <4>3
    <3>8. RowCountsOnTheirWay'
      <4> SUFFICES ASSUME stage = "up", NEW d \in Attended
                   PROVE  \/ shown'[d] >= rows
                          \/ listeners["progress"] + fired > 0 \/ armed
                          \/ Greeting(d, rows)'
        BY <3>1, <3>6 DEF RowCountsOnTheirWay, Greeting, run, events
      <4>1. /\ d \in Conn /\ shown[d] \in Nat /\ shown'[d] \in Nat /\ taken[c] \in Nat
            /\ \/ shown[d] >= rows
               \/ listeners["progress"] + fired > 0 \/ armed \/ Greeting(d, rows)
        <5>1. d \in Conn /\ shown[d] \in Nat /\ shown'[d] \in Nat /\ taken[c] \in Nat
          BY <3>2, <3>3, <3>6 DEF TypeOK
        <5>2. ~Writing(d, {"snapshot", "progress"}, rows)
          BY <3>1 DEF Writing
        <5> QED
          BY <5>1, <5>2 DEF RowCountsOnTheirWay
      <4>2. CASE shown[d] >= rows
        <5>1. shown'[d] >= shown[d]
          BY <3>3, <4>1
        <5> QED
          BY <3>2, <4>1, <4>2, <5>1
      <4>3. CASE d = c
        <5>1. CASE taken[c] >= rows
          <6>1. shown'[c] \in Nat /\ shown'[c] >= taken[c]
            BY <3>3, <4>1, <4>3
          <6> QED
            BY <3>2, <4>1, <4>3, <5>1, <6>1
        <5> QED
          BY <3>1, <4>1, <4>2, <4>3, <5>1 DEF Greeting
      <4>4. CASE d # c
        BY <3>1, <4>1, <4>2, <4>4 DEF Greeting, TypeOK, run
      <4> QED
        BY <4>3, <4>4
    <3> QED
      BY <3>4, <3>5, <3>7, <3>8
  <2> QED
    BY <1>11, <2>1, <2>2 DEF SendInitialState
<1> QED
  BY <1>1, <1>2, <1>3, <1>4, <1>5, <1>6, <1>7, <1>8, <1>9, <1>10, <1>11 DEF Handle, Page

(* Shutdown closes what is registered; what is not is closed or will leave. *)
LEMMA CloseStep == IInv /\ CloseClients => IInv'
<1> SUFFICES ASSUME IInv, CloseClients PROVE IInv'
  OBVIOUS
<1> USE DEF IInv, CloseClients, shutdownFrame
<1>1. TypeOK' /\ WriterInv'
  BY DEF TypeOK, WriterInv, run
<1>2. ClientInv' /\ NoReaderForgotten'
  BY DEF TypeOK, ClientInv, NoReaderForgotten, Busy
<1>3. OutcomeOnItsWay' /\ RowCountsOnTheirWay'
  BY DEF OutcomeOnItsWay, RowCountsOnTheirWay, ShuttingDown
<1> QED
  BY <1>1, <1>2, <1>3

LEMMA Inductive == Spec => []IInv
<1>1. IInv /\ UNCHANGED vars => IInv'
  BY DEF IInv, TypeOK, ClientInv, WriterInv, OutcomeOnItsWay, RowCountsOnTheirWay,
         NoReaderForgotten, Attended, Writing, Greeting, ShuttingDown, vars, run, events, conns
<1>2. IInv /\ [Next]_vars => IInv'
  BY <1>1, HookStep, DeliveryStep, BroadcastStep, EndBroadcastStep, HandleStep, CloseStep
     DEF Next, Broadcasts, Shutdown
<1> QED
  BY <1>2, InitIInv, PTL DEF Spec

-----------------------------------------------------------------------------
(* Every variable keeps its type.                                          *)
THEOREM ServerTypeCorrect == Spec => []TypeOK
<1>1. IInv => TypeOK
  BY DEF IInv
<1> QED
  BY <1>1, Inductive, PTL

(* No registered page misses the final status, whenever it came.  See      *)
(* OutcomeOnItsWay.                                                        *)
THEOREM OutcomeReachesPages == Spec => []OutcomeOnItsWay
<1>1. IInv => OutcomeOnItsWay
  BY DEF IInv
<1> QED
  BY <1>1, Inductive, PTL

(* No registered page misses the last row counts, which it may be told of  *)
(* in a delta alone, though deltas are debounced.  See RowCountsOnTheirWay. *)
THEOREM RowCountsReachPages == Spec => []RowCountsOnTheirWay
<1>1. IInv => RowCountsOnTheirWay
  BY DEF IInv
<1> QED
  BY <1>1, Inductive, PTL

(* No handler goes on reading an open connection after Shutdown.  See      *)
(* NoReaderForgotten.                                                      *)
THEOREM NoHandlerForgotten == Spec => []NoReaderForgotten
<1>1. IInv => NoReaderForgotten
  BY DEF IInv
<1> QED
  BY <1>1, Inductive, PTL

(* A broadcast is never older than what its receivers have.  See           *)
(* BroadcastsForward.                                                      *)
THEOREM BroadcastsInOrder == Spec => BroadcastsForward
<1>1. IInv => NeverBack
  <2> SUFFICES ASSUME IInv, NEW c \in writer.to PROVE writer.version >= shown[c]
    BY DEF NeverBack
  <2>1. c \in Conn /\ shown[c] \in Nat /\ writer.version \in Nat
    BY DEF IInv, TypeOK
  <2> QED
    BY <2>1 DEF IInv, WriterInv
<1>2. IInv /\ [Next]_vars => [NeverBack]_vars
  BY <1>1
<1> QED
  BY <1>2, Inductive, PTL DEF Spec, BroadcastsForward

-----------------------------------------------------------------------------
(* Why every handler ends after Shutdown.                                  *)

\* The guards of Handle(c).
CanGoOn(c) ==
  \/ handler[c] \in {"admitted", "registered", "loop", "acking", "leaving"}
  \/ handler[c] = "snapped" /\ writer.kind = "free" /\ link[c] # "none"
  \/ handler[c] = "reading" /\ (link[c] # "open" \/ page[c] = "informed")

\* A handler has a connection.
LinkInv == \A c \in Conn : handler[c] # "none" => link[c] # "none"

LEMMA LinkStep == IInv /\ LinkInv /\ [Next]_vars => LinkInv'
<1> SUFFICES ASSUME IInv, LinkInv, [Next]_vars, NEW c \in Conn, handler'[c] # "none"
             PROVE  link'[c] # "none"
  BY DEF LinkInv
<1> USE DEF IInv, TypeOK, LinkInv
<1>1. CASE UNCHANGED <<handler, link>>
  BY <1>1
<1>2. ASSUME NEW d \in Conn, Handle(d) \/ Page(d)
      PROVE  link'[c] # "none"
  <2>1. CASE Admit(d)
    BY <2>1 DEF Admit, Goto
  <2>2. CASE Leave(d)
    BY <2>2 DEF Leave, Goto
  <2>3. CASE PageLeaves(d)
    BY <2>3 DEF PageLeaves
  <2>4. CASE ~(Admit(d) \/ Leave(d) \/ PageLeaves(d))
    <3>1. link' = link /\ handler[d] # "none" /\ \E x : Goto(d, x)
      BY <1>2, <2>4 DEF Handle, Page, Register, TakeSnapshot, SendInitialState, Return,
         CheckShutdown, ReadMessage, HandleClientMessage, ReadFails, ReadDeadlinePasses
    <3>2. handler[c] # "none"
      BY <3>1 DEF Goto
    <3> QED
      BY <3>1, <3>2
  <2> QED
    BY <2>1, <2>2, <2>3, <2>4
<1>3. CASE EndBroadcast \/ CloseClients
  BY <1>3 DEF EndBroadcast, CloseClients, shutdownFrame
<1>4. CASE \/ Start \/ Hooks \/ WaitForCompletionAck \/ Deliveries \/ MarkShutdown \/ StopTimer
           \/ BroadcastSnapshot \/ \E k \in Immediate : BroadcastStateUpdate(k)
  <2>1. UNCHANGED <<handler, link>>
    BY <1>4 DEF Start, Hooks, UpdateTableStatus, UpdateTableProgress, AddLog, AddError, SetStatus,
       SetFinalStatus, LastEntry, Hook, Change, WaitForCompletionAck, Deliveries, DropEvent,
       ScheduleDebouncedSnapshot, TimerFires, MarkShutdown, StopTimer, BroadcastSnapshot,
       BroadcastStateUpdate, conns, shutdownFrame
  <2> QED
    BY <1>1, <2>1
<1>5. CASE UNCHANGED vars
  BY <1>1, <1>5 DEF vars, conns
<1> QED
  BY <1>2, <1>3, <1>4, <1>5 DEF Next, Broadcasts, Shutdown

(* Once Shutdown has closed the clients, a handler that has not ended can go   *)
(* on, or waits for nothing but the end of the broadcast that has writeMu: for *)
(* no page, no deadline and no other handler.                                  *)
THEOREM HandlersWaitForNoPage ==
  Spec => [](stage \in {"closed", "down"}
               => \A c \in Conn : \/ handler[c] \in {"none", "gone"}
                                  \/ CanGoOn(c) \/ writer.kind # "free")
<1>1. Init => LinkInv
  BY DEF Init, LinkInv
<1>2. IInv /\ LinkInv
        => (stage \in {"closed", "down"}
              => \A c \in Conn : \/ handler[c] \in {"none", "gone"}
                                 \/ CanGoOn(c) \/ writer.kind # "free")
  <2> SUFFICES ASSUME IInv, LinkInv, stage \in {"closed", "down"}, NEW c \in Conn,
                      handler[c] \notin {"none", "gone"}, writer.kind = "free"
               PROVE  CanGoOn(c)
    OBVIOUS
  <2>1. handler[c] \in {"admitted", "registered", "snapped", "loop", "reading", "acking",
                        "leaving"}
    BY DEF IInv, TypeOK
  <2>2. handler[c] = "reading" => link[c] # "open"
    BY DEF IInv, NoReaderForgotten
  <2> QED
    BY <2>1, <2>2 DEF CanGoOn, LinkInv
<1> QED
  BY <1>1, <1>2, LinkStep, Inductive, PTL DEF Spec

Bit(b) == IF b THEN 1 ELSE 0

\* The steps that the events, the timer and a broadcast under way still take.
EventsLeft == 4 * listeners["progress"] + 2 * (listeners["snapshot"] + listeners["event"])
TimersLeft == 3 * Bit(armed) + (2 * fired + Bit(writer.kind # "free"))
MessagesLeft == EventsLeft + TimersLeft

\* How far a handler is from its end.
HandlerStage == [admitted |-> 7, registered |-> 6, snapped |-> 5, reading |-> 4, acking |-> 3,
                 loop |-> 2, leaving |-> 1, gone |-> 0, none |-> 0]
StageOf(c) == HandlerStage[handler[c]]

RunsDown ==
  ShuttingDown =>
    /\ ShuttingDown'
    /\ MessagesLeft' <= MessagesLeft
    /\ Deliveries \/ Broadcasts => MessagesLeft' < MessagesLeft
    /\ \A c \in Conn : /\ StageOf(c)' <= StageOf(c)
                       /\ Handle(c) => StageOf(c)' < StageOf(c)

LEMMA MessageTypes ==
  ASSUME IInv
  PROVE  /\ \A k \in Class : listeners[k] \in Nat
         /\ fired \in Nat /\ Bit(armed) \in 0..1 /\ Bit(writer.kind # "free") \in 0..1
         /\ MessagesLeft \in Nat
<1>1. /\ \A k \in Class : listeners[k] \in Nat
      /\ fired \in Nat /\ Bit(armed) \in 0..1 /\ Bit(writer.kind # "free") \in 0..1
  BY DEF IInv, TypeOK, Bit
<1>2. {"progress", "snapshot", "event"} = Class
  BY DEF Class
<1> QED
  BY <1>1, <1>2 DEF MessagesLeft, EventsLeft, TimersLeft

(* An event is passed on to fewer steps than it stood for. *)
LEMMA DeliveriesRunOut ==
  ASSUME IInv, ShuttingDown, Deliveries \/ Broadcasts
  PROVE  MessagesLeft' < MessagesLeft /\ MessagesLeft' <= MessagesLeft
<1> DEFINE p == listeners["progress"]
           s == listeners["snapshot"]
           e == listeners["event"]
<1>1. /\ p \in Nat /\ s \in Nat /\ e \in Nat /\ fired \in Nat
      /\ Bit(armed) \in 0..1 /\ Bit(writer.kind # "free") \in 0..1
  BY MessageTypes DEF Class
<1>2. /\ MessagesLeft = 4 * p + 2 * (s + e) + (3 * Bit(armed) + (2 * fired + Bit(writer.kind # "free")))
      /\ MessagesLeft' = 4 * p' + 2 * (s' + e')
                         + (3 * Bit(armed') + (2 * fired' + Bit(writer'.kind # "free")))
  BY DEF MessagesLeft, EventsLeft, TimersLeft, Bit
<1>3. listeners' = listeners => p' = p /\ s' = s /\ e' = e
  OBVIOUS
<1>4. ASSUME NEW k \in Class, listeners' = Less(listeners, k), listeners[k] > 0
      PROVE  \/ k = "progress" /\ p' = p - 1 /\ s' = s /\ e' = e
             \/ k = "snapshot" /\ p' = p /\ s' = s - 1 /\ e' = e
             \/ k = "event" /\ p' = p /\ s' = s /\ e' = e - 1
  BY <1>4 DEF IInv, TypeOK, Class, Less
<1> HIDE DEF p, s, e
<1>5. CASE ScheduleDebouncedSnapshot
  <2>1. p' = p - 1 /\ s' = s /\ e' = e
    BY <1>4, <1>5 DEF ScheduleDebouncedSnapshot, Class
  <2>2. armed' = TRUE /\ fired' = fired /\ writer' = writer
    BY <1>5 DEF ScheduleDebouncedSnapshot
  <2> QED
    BY <1>1, <1>2, <2>1, <2>2 DEF Bit
<1>6. CASE TimerFires
  BY <1>1, <1>2, <1>3, <1>6 DEF TimerFires, Bit
<1>7. ASSUME NEW k \in Immediate, DropEvent(k) \/ BroadcastStateUpdate(k)
      PROVE  MessagesLeft' < MessagesLeft /\ MessagesLeft' <= MessagesLeft
  <2>1. p' = p /\ ((s' = s - 1 /\ e' = e) \/ (s' = s /\ e' = e - 1))
    <3>1. k \in Class /\ k # "progress"
      BY DEF Immediate
    <3> QED
      BY <1>4, <1>7, <3>1 DEF DropEvent, BroadcastStateUpdate
  <2>2. armed' = armed /\ fired' = fired /\ (writer' = writer \/ writer.kind = "free")
    BY <1>7 DEF DropEvent, BroadcastStateUpdate, Lock
  <2>3. Bit(writer'.kind # "free") \in 0..1
    BY DEF Bit
  <2> QED
    BY <1>1, <1>2, <2>1, <2>2, <2>3 DEF Bit
<1>8. CASE BroadcastSnapshot
  <2>1. fired > 0 /\ fired' = fired - 1 /\ armed' = armed /\ listeners' = listeners /\ writer.kind = "free"
    BY <1>8 DEF BroadcastSnapshot, Lock
  <2>2. Bit(writer'.kind # "free") \in 0..1
    BY DEF Bit
  <2> QED
    BY <1>1, <1>2, <1>3, <2>1, <2>2 DEF Bit
<1>9. CASE EndBroadcast
  <2>1. writer.kind # "free" /\ writer'.kind = "free" /\ UNCHANGED <<listeners, fired, armed>>
    BY <1>9 DEF EndBroadcast, Free, events
  <2> QED
    BY <1>1, <1>2, <1>3, <2>1 DEF Bit
<1> QED
  BY <1>5, <1>6, <1>7, <1>8, <1>9 DEF Deliveries, Broadcasts

(* Nothing else brings new events once the server is shutting down. *)
LEMMA NoMoreMessages ==
  ASSUME IInv, ShuttingDown, [Next]_vars, ~(Deliveries \/ Broadcasts)
  PROVE  ShuttingDown' /\ MessagesLeft' <= MessagesLeft
<1>1. MessagesLeft \in Nat /\ Bit(armed) \in 0..1 /\ stage \in {"marked", "closed", "down"}
  BY MessageTypes DEF IInv, TypeOK, ShuttingDown
<1>2. CASE StopTimer
  <2>1. UNCHANGED <<listeners, fired, writer>> /\ armed' = FALSE /\ stage' = "down"
    BY <1>2 DEF StopTimer, shutdownFrame
  <2>2. EventsLeft' = EventsLeft /\ TimersLeft' = 2 * fired + Bit(writer.kind # "free")
    BY <2>1, MessageTypes DEF EventsLeft, TimersLeft, Bit
  <2>3. EventsLeft \in Int /\ fired \in Nat /\ Bit(writer.kind # "free") \in Nat
    BY MessageTypes DEF EventsLeft, Class
  <2> QED
    BY <1>1, <2>1, <2>2, <2>3 DEF MessagesLeft, TimersLeft, ShuttingDown
<1>3. CASE ~StopTimer
  <2>1. UNCHANGED <<listeners, fired, armed, writer>>
    <3>1. CASE \E c \in Conn : Handle(c) \/ Page(c)
      BY <3>1 DEF Handle, Page, Admit, PageLeaves, Register, TakeSnapshot, SendInitialState,
         CheckShutdown, ReadMessage, HandleClientMessage, ReadFails, ReadDeadlinePasses, Leave,
         handlerFrame, events
    <3>2. CASE Start \/ Hooks \/ WaitForCompletionAck \/ MarkShutdown \/ CloseClients \/ UNCHANGED vars
      BY <3>2 DEF Start, Hooks, UpdateTableStatus, UpdateTableProgress, AddLog, AddError,
         SetStatus, SetFinalStatus, LastEntry, Hook, Change, WaitForCompletionAck, MarkShutdown,
         CloseClients, shutdownFrame, vars, events
    <3> QED
      BY <1>3, <3>1, <3>2 DEF Next, Shutdown
  <2>2. stage' = stage \/ stage' = "closed"
    <3>1. CASE \E c \in Conn : Handle(c) \/ Page(c)
      BY <3>1 DEF Handle, Page, Admit, PageLeaves, Register, TakeSnapshot, SendInitialState,
         CheckShutdown, ReadMessage, HandleClientMessage, ReadFails, ReadDeadlinePasses, Leave,
         handlerFrame
    <3>2. CASE Start \/ Hooks \/ WaitForCompletionAck \/ MarkShutdown \/ CloseClients \/ UNCHANGED vars
      BY <1>1, <3>2 DEF Start, Hooks, UpdateTableStatus, UpdateTableProgress, AddLog, AddError,
         SetStatus, SetFinalStatus, LastEntry, Hook, Change, WaitForCompletionAck, MarkShutdown,
         CloseClients, shutdownFrame, vars
    <3> QED
      BY <1>3, <3>1, <3>2 DEF Next, Shutdown
  <2>3. MessagesLeft' = MessagesLeft
    BY <2>1 DEF MessagesLeft, EventsLeft, TimersLeft, Bit
  <2> QED
    BY <1>1, <2>2, <2>3 DEF ShuttingDown
<1> QED
  BY <1>2, <1>3

(* A handler goes no way but to its end: the loop it came back to notices the  *)
(* shutdown.                                                                   *)
LEMMA HandlersGoDown ==
  ASSUME IInv, ShuttingDown, [Next]_vars, NEW c \in Conn
  PROVE  StageOf(c)' <= StageOf(c) /\ (Handle(c) => StageOf(c)' < StageOf(c))
<1>1. handler[c] \in {"none", "admitted", "registered", "snapped", "loop", "reading", "acking",
                      "leaving", "gone"}
  BY DEF IInv, TypeOK
<1>2. /\ StageOf(c) = HandlerStage[handler[c]] /\ StageOf(c)' = HandlerStage[handler'[c]]
      /\ StageOf(c) \in Nat
  BY <1>1 DEF StageOf, HandlerStage
<1>3. handler \in [Conn -> {"none", "admitted", "registered", "snapped", "loop", "reading",
                            "acking", "leaving", "gone"}]
  BY DEF IInv, TypeOK
<1>4. ASSUME NEW d \in Conn, Handle(d) \/ ReadDeadlinePasses(d)
      PROVE  /\ \A b \in Conn : b # d => handler'[b] = handler[b]
             /\ HandlerStage[handler'[d]] < HandlerStage[handler[d]]
  BY <1>3, <1>4 DEF Handle, Register, TakeSnapshot, SendInitialState, Return, CheckShutdown,
     ReadMessage, HandleClientMessage, ReadFails, ReadDeadlinePasses, Leave, Goto, HandlerStage
<1>5. CASE \E d \in Conn : Handle(d) \/ ReadDeadlinePasses(d)
  <2>1. PICK d \in Conn : Handle(d) \/ ReadDeadlinePasses(d)
    BY <1>5
  <2>2. c = d => StageOf(c)' < StageOf(c)
    BY <1>2, <1>4, <2>1
  <2>3. c # d => handler'[c] = handler[c]
    BY <1>4, <2>1
  <2>4. Handle(c) => StageOf(c)' < StageOf(c)
    BY <1>2, <1>4
  <2>5. CASE c = d
    <3>1. handler'[c] \in {"none", "admitted", "registered", "snapped", "loop", "reading",
                           "acking", "leaving", "gone"}
      BY <1>3, <2>1, <2>5 DEF Handle, Register, TakeSnapshot, SendInitialState, Return,
         CheckShutdown, ReadMessage, HandleClientMessage, ReadFails, ReadDeadlinePasses, Leave,
         Goto
    <3>2. StageOf(c)' \in Nat
      BY <1>2, <3>1 DEF HandlerStage
    <3> QED
      BY <1>2, <2>2, <2>4, <2>5, <3>2
  <2>6. CASE c # d
    BY <1>2, <2>3, <2>4, <2>6
  <2> QED
    BY <2>5, <2>6
<1>6. CASE ~\E d \in Conn : Handle(d) \/ ReadDeadlinePasses(d)
  <2>1. handler' = handler
    <3>1. ~\E d \in Conn : Admit(d)
      BY DEF Admit, ShuttingDown
    <3>2. CASE \E d \in Conn : PageLeaves(d)
      BY <3>2 DEF PageLeaves
    <3>3. CASE Deliveries \/ Broadcasts
      BY <3>3 DEF Deliveries, Broadcasts, DropEvent, ScheduleDebouncedSnapshot, TimerFires,
         BroadcastSnapshot, BroadcastStateUpdate, EndBroadcast, conns
    <3>4. CASE \/ Start \/ Hooks \/ WaitForCompletionAck \/ MarkShutdown \/ Shutdown
               \/ UNCHANGED vars
      BY <3>4 DEF Start, Hooks, UpdateTableStatus, UpdateTableProgress, AddLog, AddError,
         SetStatus, SetFinalStatus, LastEntry, Hook, Change, WaitForCompletionAck, MarkShutdown,
         Shutdown, CloseClients, StopTimer, shutdownFrame, vars, conns
    <3> QED
      BY <1>6, <3>1, <3>2, <3>3, <3>4 DEF Next, Page
  <2> QED
    BY <1>2, <1>6, <2>1
<1> QED
  BY <1>5, <1>6

(* From the moment Shutdown begins events, timers and broadcasts only run out, *)
(* and handlers only go towards their end.  With HandlersWaitForNoPage, that   *)
(* is why all of them end.                                                     *)
THEOREM ShutdownRunsDown == Spec => [](MessagesLeft \in Nat) /\ [][RunsDown]_vars
<1>1. IInv => MessagesLeft \in Nat
  BY MessageTypes
<1>2. ASSUME IInv, [Next]_vars PROVE RunsDown
  <2> SUFFICES ASSUME ShuttingDown
               PROVE  /\ ShuttingDown'
                      /\ MessagesLeft' <= MessagesLeft
                      /\ Deliveries \/ Broadcasts => MessagesLeft' < MessagesLeft
                      /\ \A c \in Conn : /\ StageOf(c)' <= StageOf(c)
                                         /\ Handle(c) => StageOf(c)' < StageOf(c)
    BY DEF RunsDown
  <2>1. \A c \in Conn : /\ StageOf(c)' <= StageOf(c)
                        /\ Handle(c) => StageOf(c)' < StageOf(c)
    BY <1>2, HandlersGoDown
  <2>2. Deliveries \/ Broadcasts => MessagesLeft' < MessagesLeft
    BY <1>2, DeliveriesRunOut
  <2>3. CASE Deliveries \/ Broadcasts
    <3>1. UNCHANGED stage
      BY <2>3 DEF Deliveries, Broadcasts, DropEvent, ScheduleDebouncedSnapshot, TimerFires,
         BroadcastSnapshot, BroadcastStateUpdate, EndBroadcast
    <3>2. MessagesLeft' <= MessagesLeft
      BY <1>2, <2>3, DeliveriesRunOut
    <3> QED
      BY <2>1, <2>2, <3>1, <3>2 DEF ShuttingDown
  <2>4. CASE ~(Deliveries \/ Broadcasts)
    BY <1>2, <2>1, <2>2, <2>4, NoMoreMessages
  <2> QED
    BY <2>3, <2>4
<1>3. IInv /\ [Next]_vars => [RunsDown]_vars
  BY <1>2
<1> QED
  BY <1>1, <1>3, Inductive, PTL DEF Spec
=============================================================================
