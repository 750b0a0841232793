------------------------------ MODULE LogStream ------------------------------
(***************************************************************************)
(* The developer view's live log (src/src/services/developer.py and its    *)
(* endpoint in src/src/api/routers/developer.py).  A log record is kept in *)
(* a bounded buffer and, if it was logged on the event loop, broadcast by  *)
(* a task of its own.  The task walks the list of connections by index,    *)
(* suspended at every send, while connections come, go and are evicted     *)
(* from that same list.  Connecting and leaving are logged themselves.     *)
(*                                                                         *)
(* A client stands for one websocket, so it connects once.  Removing from  *)
(* the list leaves the others in their order, as LruCache's Left does.     *)
(***************************************************************************)
EXTENDS LruCache, SequencesExt

CONSTANTS
  Clients,
  MaxConnections,  \* 50 in the code
  MaxLogs,         \* 500 in the code
  MaxEntries, MaxTasks  \* bound the records of a behaviour and the broadcasts under way

VARIABLES
  logs,         \* the records kept, numbered in the order of logging
  emitted,      \* how many were logged
  connections,  \* the websockets to broadcast to
  listening,    \* those whose endpoint still waits for messages, evicted ones too
  broken,       \* those whose transport is gone, noticed or not
  tasks         \* by record, its broadcast: unfinished ones only
streamVars == <<logs, emitted, connections, listening, broken, tasks>>

\* next counts the connections walked past, sent the sends in order, failed
\* those that raised.  audience and leavers are history: who was connected at the
\* first send, and how many left the list since.
NewTask == [next |-> 0, sent |-> <<>>, failed |-> <<>>, audience |-> {}, leavers |-> 0]

Init ==
  /\ logs = <<>> /\ emitted = 0
  /\ connections = <<>> /\ listening = {} /\ broken = {}
  /\ tasks = [t \in {} |-> NewTask]

TypeOK ==
  /\ emitted \in 0..MaxEntries /\ Len(logs) <= MaxLogs
  /\ ToSet(connections) \subseteq Clients /\ Len(connections) <= MaxConnections
  /\ listening \subseteq Clients /\ broken \subseteq Clients
  /\ DOMAIN tasks \subseteq 1..emitted

\* What is left of a list of connections when some are removed.
Remaining(list, gone) == Left(list, {i \in DOMAIN list : list[i] \notin gone})

-----------------------------------------------------------------------------
\* A list iterator is not told that elements before it went: the walk goes on at its index.
Passed(count) ==
  [t \in DOMAIN tasks |->
     IF tasks[t].next = 0 THEN tasks[t] ELSE [tasks[t] EXCEPT !.leavers = @ + count]]

\* DevServiceHandler.emit, n times: the records are kept; those of the loop get a task.
Emit(n, onLoop, others) ==
  LET all == logs \o [i \in 1..n |-> emitted + i]
      new == IF onLoop THEN emitted + 1 .. emitted + n ELSE {}
  IN  /\ emitted + n <= MaxEntries
      /\ Cardinality(DOMAIN others \union new) <= MaxTasks
      /\ emitted' = emitted + n
      /\ logs' = SubSeq(all, IF Len(all) > MaxLogs THEN Len(all) - MaxLogs + 1 ELSE 1, Len(all))
      /\ tasks' = [t \in DOMAIN others \union new |-> IF t \in new THEN NewTask ELSE others[t]]

\* Any code that logs, on the event loop or in a worker thread.
Log(onLoop) ==
  /\ Emit(1, onLoop, tasks)
  /\ UNCHANGED <<connections, listening, broken>>

\* A mutant of Connect: the newest connection is put first.
ConnectFirst(c) ==
  LET full == Len(connections) >= MaxConnections
  IN  /\ c \notin listening \union broken
      /\ connections' = <<c>> \o (IF full THEN Tail(connections) ELSE connections)
      /\ listening' = listening \union {c}
      /\ IF full THEN Emit(2, TRUE, Passed(1)) ELSE Emit(1, TRUE, tasks)
      /\ UNCHANGED broken

\* developer_websocket up to its loop, and add_ws_connection: the oldest makes
\* room, but its websocket stays open and its endpoint waiting.
Connect(c) ==
  LET full == Len(connections) >= MaxConnections
  IN  /\ c \notin listening \union broken
      /\ connections' = Append(IF full THEN Tail(connections) ELSE connections, c)
      /\ listening' = listening \union {c}
      /\ IF full THEN Emit(2, TRUE, Passed(1)) ELSE Emit(1, TRUE, tasks)
      /\ UNCHANGED broken

\* The network: nothing on the server runs yet.
Break(c) ==
  /\ c \in listening \ broken
  /\ broken' = broken \union {c}
  /\ UNCHANGED <<logs, emitted, connections, listening, tasks>>

\* The endpoint learns it, from receiving or, with an error more in the log, from
\* answering a ping; remove_ws_connection.
Leave(c, errors) ==
  LET listed == c \in ToSet(connections)
  IN  /\ c \in listening \intersect broken
      /\ connections' = Remaining(connections, {c})
      /\ listening' = listening \ {c}
      /\ Emit(errors + 1, TRUE, Passed(IF listed THEN 1 ELSE 0))
      /\ UNCHANGED broken

-----------------------------------------------------------------------------
(* _broadcast_log *)

\* The loop starts tasks in the order they were created in.
Running(t) == tasks[t].next > 0
MayRun(t) == \A u \in DOMAIN tasks : u < t => Running(t) \/ Running(u)

\* The next send, from one suspension to the next: it raises only if the
\* transport is gone, and may succeed even then.
Send(t, raises) ==
  LET task == tasks[t]
      ws == connections[task.next + 1]
  IN  /\ MayRun(t)
      /\ task.next < Len(connections)
      /\ raises => ws \in broken
      /\ tasks' = [tasks EXCEPT ![t] =
           [next |-> task.next + 1, sent |-> Append(task.sent, ws),
            failed |-> IF raises THEN Append(task.failed, ws) ELSE task.failed,
            audience |-> IF Running(t) THEN task.audience ELSE ToSet(connections),
            leavers |-> task.leavers]]
      /\ UNCHANGED <<logs, emitted, connections, listening, broken>>

\* The end of the walk: what raised is removed, up to the first that another
\* task or its own endpoint removed before; there list.remove raises.
Finish(t) ==
  LET failed == tasks[t].failed
      listed(k) == \A i \in 1..k : failed[i] \in ToSet(connections)
      count == CHOOSE k \in 0..Len(failed) : listed(k) /\ (k < Len(failed) => ~listed(k + 1))
      gone == {failed[i] : i \in 1..count}
      others == Passed(count)
  IN  /\ MayRun(t)
      /\ tasks[t].next >= Len(connections)
      /\ connections' = Remaining(connections, gone)
      /\ tasks' = [u \in DOMAIN tasks \ {t} |-> others[u]]
      /\ UNCHANGED <<logs, emitted, listening, broken>>

Next ==
  \/ \E onLoop \in BOOLEAN : Log(onLoop)
  \/ \E c \in Clients : Connect(c) \/ Break(c) \/ \E errors \in 0..1 : Leave(c, errors)
  \/ \E t \in DOMAIN tasks : Finish(t) \/ \E raises \in BOOLEAN : Send(t, raises)

Spec == Init /\ [][Next]_streamVars

-----------------------------------------------------------------------------
\* Broadcasts that overlap with changes of the list send nobody a record twice,
\* and pass over no more of the clients that stay than the list has lost since
\* the broadcast began: a record is lost only to a disconnection.
\* (_broadcast_log walking the list that add_ws_connection, remove_ws_connection
\* and other broadcasts change.)
Overlooked(t) ==
  {connections[i] : i \in (1..tasks[t].next) \intersect DOMAIN connections}
    \intersect (tasks[t].audience \ ToSet(tasks[t].sent))

RecordsAreLostToLeavers ==
  \A t \in DOMAIN tasks :
    /\ IsInjective(tasks[t].sent)
    /\ Cardinality(Overlooked(t)) <= tasks[t].leavers
=============================================================================
