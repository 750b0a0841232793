-------------------------------- MODULE Datasets --------------------------------
(***************************************************************************)
(* Uploading a dataset and asking about it: the cockpit's calls with their *)
(* retries (carf-cockpit/src/services/apiService.ts), the registry of JSON *)
(* files and a table (src/src/services/dataset_store.py), and what each    *)
(* query endpoint hands to the causal engine (src/src/api/routers/query.py).*)
(*                                                                         *)
(* An attempt of a client's upload is identified by <<client, number>>, as *)
(* the dataset it registers is: every request makes an id of its own.  The *)
(* rows a client uploads are its own, and stand for it.                    *)
(***************************************************************************)
EXTENDS Integers, Sequences, FiniteSets

CONSTANTS
  Clients, NoRequest, Torn,
  MaxRetries,  \* RETRY_CONFIG.maxRetries
  MaxFaults    \* bound of the check: crashes, failed writes, lost connections

VARIABLES
  files,   \* the files of data_dir: a function of some attempts to rows, or Torn
  table,   \* the attempts with a row in datasets and rows in dataset_columns
  inbox,   \* requests the server has not begun
  serving, \* the request it is in, and how many of its Steps are done
  calls,   \* of each client: [state, attempt, told]
  asked,   \* the last answered query and the data its estimate was made from
  faults
vars == <<files, table, inbox, serving, calls, asked, faults>>

Idle == [request |-> NoRequest, done |-> 0]

Init ==
  /\ files = <<>> /\ table = {} /\ inbox = {} /\ serving = Idle
  /\ calls = [c \in Clients |-> [state |-> "idle", attempt |-> 0, told |-> NoRequest]]
  /\ asked = {} /\ faults = 0

Fault == faults < MaxFaults /\ faults' = faults + 1

-----------------------------------------------------------------------------
(* withRetry around fetch.  A timer's length is left out. *)

Send(c) ==
  /\ calls[c].state \in {"idle", "backoff"}
  /\ calls' = [calls EXCEPT ![c].state = "waiting", ![c].attempt = @ + 1]
  /\ inbox' = inbox \cup {<<c, calls[c].attempt + 1>>}
  /\ UNCHANGED <<files, table, serving, asked, faults>>

\* The client's call after an attempt that failed, unless with a 4xx.
Failed(call) == [call EXCEPT !.state = IF @ # "waiting" THEN @
                                       ELSE IF call.attempt <= MaxRetries THEN "backoff" ELSE "failed"]

\* An answer reaches the attempt that waits for it, or nobody.
Answer(request, call) ==
  IF calls[request[1]].state = "waiting" /\ calls[request[1]].attempt = request[2]
  THEN calls' = [calls EXCEPT ![request[1]] = call] ELSE UNCHANGED calls

\* The connection breaks; the server does not notice.
Disconnect(c) ==
  /\ Fault /\ calls[c].state = "waiting"
  /\ calls' = [calls EXCEPT ![c] = Failed(@)]
  /\ UNCHANGED <<files, table, inbox, serving, asked>>

-----------------------------------------------------------------------------
(* POST /datasets.  The handler does not await: one at a time in a process. *)

Begin(r) ==
  /\ serving = Idle /\ r \in inbox
  /\ inbox' = inbox \ {r} /\ serving' = [request |-> r, done |-> 0]
  /\ UNCHANGED <<files, table, calls, asked, faults>>

\* _normalize_data refuses rows that are no objects, ragged columns, too many rows.
Refuse ==
  /\ serving # Idle /\ serving.done = 0
  /\ serving' = Idle
  /\ Answer(serving.request, [calls[serving.request[1]] EXCEPT !.state = "failed"])
  /\ UNCHANGED <<files, table, inbox, asked, faults>>

\* create_dataset.  A mutant that registers before it writes.
StepsRowFirst == <<"row", "file">>
Steps == <<"file", "row">>

StoredAs(r, rows) == [x \in DOMAIN files \cup {r} |-> IF x = r THEN rows ELSE files[x]]

\* The two inserts are one transaction, committed as the connection's block ends.
Step ==
  /\ serving # Idle
  /\ LET r == serving.request  step == Steps[serving.done + 1] IN
     /\ IF step = "file" THEN files' = StoredAs(r, r[1]) /\ UNCHANGED table
                         ELSE table' = table \cup {r} /\ UNCHANGED files
     /\ IF serving.done + 1 < Len(Steps)
        THEN serving' = [serving EXCEPT !.done = @ + 1] /\ UNCHANGED calls
        ELSE serving' = Idle /\ Answer(r, [calls[r[1]] EXCEPT !.state = "done", !.told = r])
  /\ UNCHANGED <<inbox, asked, faults>>

\* Writing or inserting raises: a 500.  What was written stays.
StepFails ==
  /\ Fault /\ serving # Idle
  /\ LET r == serving.request IN
     /\ files' = IF Steps[serving.done + 1] = "file" THEN StoredAs(r, Torn) ELSE files
     /\ Answer(r, Failed(calls[r[1]]))
  /\ serving' = Idle
  /\ UNCHANGED <<table, inbox, asked>>

\* The process dies; it restarts on the same disk, and every connection is broken.
Crash ==
  /\ Fault
  /\ \/ UNCHANGED files
     \/ /\ serving # Idle /\ Steps[serving.done + 1] = "file"
        /\ files' = StoredAs(serving.request, Torn)
  /\ serving' = Idle /\ inbox' = {}
  /\ calls' = [c \in Clients |-> Failed(calls[c])]
  /\ UNCHANGED <<table, asked>>

-----------------------------------------------------------------------------
(* Queries.  What a query may bring along to estimate from: a selected     *)
(* dataset, data of its own as causal_estimation, the same in its free     *)
(* context, and a scenario, whose payload holds data too.                  *)

Sources == {"selection", "estimation", "context", "scenario"}

First(order, offered) ==
  LET at == {i \in DOMAIN order : order[i] \in offered} IN
  IF at = {} THEN "none" ELSE order[CHOOSE i \in at : \A j \in at : i <= j]

\* process_query, process_query_stream and process_query_with_transparency: the
\* order in which what is offered is taken.
QueryOrder == <<"selection", "estimation", "context", "scenario">>
StreamOrder == <<"estimation", "context", "scenario">>
TransparentOrder == <<"estimation", "context">>
Order == [query |-> QueryOrder, stream |-> StreamOrder, transparent |-> TransparentOrder]

\* load_dataset_data: a row and its file, which json.load can read.
Readable(d) == d \in table /\ d \in DOMAIN files /\ files[d] # Torn

\* _validate_payload_limits; only /query looks the dataset up before it runs.
Admitted(endpoint, offered, d) ==
  /\ ~({"selection", "estimation"} \subseteq offered)
  /\ endpoint = "query" /\ "selection" \in offered => d \in table

\* The estimate's data, if the estimation does not fail for want of them.
Estimated(endpoint, offered, d) ==
  LET source == First(Order[endpoint], offered) IN
  IF source # "selection" THEN source ELSE IF Readable(d) THEN files[d] ELSE "none"

\* A dataset is selected from the list: list_datasets shows all that are registered.
Ask(endpoint, offered) ==
  /\ \E d \in IF "selection" \in offered THEN table ELSE {NoRequest} :
       /\ Admitted(endpoint, offered, d)
       /\ asked' = {[endpoint |-> endpoint, offered |-> offered, dataset |-> d,
                     data |-> Estimated(endpoint, offered, d)]}
  /\ serving = Idle
  /\ UNCHANGED <<files, table, inbox, serving, calls, faults>>

Next ==
  \/ \E c \in Clients : Send(c) \/ Disconnect(c)
  \/ (\E r \in inbox : Begin(r)) \/ Refuse \/ Step \/ StepFails \/ Crash
  \/ \E endpoint \in DOMAIN Order, offered \in SUBSET Sources : Ask(endpoint, offered)

Spec == Init /\ [][Next]_vars

-----------------------------------------------------------------------------

\* A /query that selects a dataset is estimated from exactly the rows that were
\* uploaded, whatever crashed, failed or was sent again meanwhile and whatever
\* else the query brings along; and a client that was told of its dataset can
\* select it from then on.
SelectedRowsAreAnalysed ==
  /\ \A q \in asked :
       q.endpoint = "query" /\ "selection" \in q.offered => q.data = q.dataset[1]
  /\ \A c \in Clients : calls[c].state = "done" => Readable(calls[c].told)
===============================================================================
