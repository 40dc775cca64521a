--------------------------- MODULE IngestPipeline ---------------------------
(***************************************************************************)
(* The telemetry pipeline of the ingestion service: the tail of the HTTP   *)
(* handler (Dispatch, 202 or 503), the dispatcher that fans every admitted *)
(* message out to three bounded channels, the worker pools that drain      *)
(* them, and the shutdown sequence of main.                                *)
(*                                                                         *)
(* A message is the number of its admission, so VehicleID is a function of *)
(* it and "newer" is ">".  What a worker does with a message is modelled   *)
(* by what the other parts can see of it: rows in vehicle_telemetry, the   *)
(* vehicle:<id>:state hash, and the two counters of metrics.go.  Alert     *)
(* evaluation has a specification of its own, AlertDedup.                  *)
(***************************************************************************)
EXTENDS Integers, Sequences, FiniteSets

CONSTANTS
    DBWriter, StateWriter, AlertEvaluator,  \* the three worker pools
    DBSize, StateSize, AlertSize,           \* *_CHANNEL_SIZE
    DBBatchSize,      \* DB_BATCH_SIZE, normalised by NewDBWriter
    StateBatchSize,   \* the literal 100 of state_writer.go
    Vehicle, VehicleOf,
    MaxMsgs,          \* bound: messages admitted in a behaviour
    MaxRejects,       \* bound: requests answered 503 in a behaviour
    MaxRetries        \* bound: Redis pipelines sent again in a behaviour

ASSUME SizesAssumption ==
    /\ DBSize \in Nat \ {0} /\ StateSize \in Nat \ {0} /\ AlertSize \in Nat \ {0}
    /\ StateBatchSize \in Nat \ {0}
    /\ DBBatchSize \in Int
    /\ MaxMsgs \in Nat /\ MaxRejects \in Nat /\ MaxRetries \in Nat

Msg == 1..MaxMsgs

ASSUME PoolsAssumption ==
    /\ DBWriter \cap StateWriter = {}
    /\ DBWriter \cap AlertEvaluator = {}
    /\ StateWriter \cap AlertEvaluator = {}
    /\ VehicleOf \in [Msg -> Vehicle]

Sink == {"db", "state", "alert"}
Worker == DBWriter \cup StateWriter \cup AlertEvaluator

Pool == [s \in Sink |-> CASE s = "db" -> DBWriter
                          [] s = "state" -> StateWriter
                          [] s = "alert" -> AlertEvaluator]

\* The order in which Run offers a message to the channels; "recv" is the
\* select at the top of its loop, after all three sends.
Rank == [g \in Sink \cup {"recv"} |-> CASE g = "db" -> 1
                                         [] g = "state" -> 2
                                         [] g = "alert" -> 3
                                         [] g = "recv" -> 4]

VARIABLES
    admitted,   \* number of messages Dispatch has accepted
    received,   \* metrics.MessagesReceived
    rejected,   \* metrics.DBDispatchRejected
    ingress,    \* Dispatcher.ingress
    chan,       \* DBChan, StateChan, AlertChan
    stage,      \* where Run is: the select, or the send to a channel
    hand,       \* the message Run is sending, 0 in the select
    running,    \* Run has not returned
    wpc,        \* control state of each worker
    final,      \* a DB writer's flush is the one of its ctx.Done branch
    batch,      \* messages a worker holds
    settled,    \* per sink: messages a worker has finished with
    rows,       \* copies of each message in vehicle_telemetry
    dbOk,       \* metrics.DBWriteSuccess
    dbFail,     \* metrics.DBWriteFailures
    hash,       \* message stored in vehicle:<id>:state, 0 when absent
    stateErrs,  \* messages of batches whose Exec returned an error
    sent,       \* per state writer: messages of its batch that Redis has applied
    retries,    \* Redis pipelines sent again
    late,       \* messages whose commands were in an attempt given up
    beside,     \* history: what other state writers held when the flush of
                \*   a message began
    cancelled,  \* ctx is done
    main        \* control state of main

handlerVars == <<admitted, received, rejected>>
dispatchVars == <<stage, hand, running>>
execVars == <<sent, retries, late, beside>>
stateVars == <<hash, stateErrs, execVars>>
sinkVars == <<rows, dbOk, dbFail, stateVars>>
workerVars == <<wpc, final, batch, settled, sinkVars>>
procVars == <<cancelled, main>>
vars == <<handlerVars, ingress, chan, dispatchVars, workerVars, procVars>>

-----------------------------------------------------------------------------
(* Constructors                                                            *)

\* NewDispatcher: ingress has the capacity of the state channel.
IngressCap == StateSize
Cap == [s \in Sink |-> CASE s = "db" -> DBSize
                         [] s = "state" -> StateSize
                         [] s = "alert" -> AlertSize]

\* NewDBWriter: a batch size below one becomes one.
DBBatch == IF DBBatchSize < 1 THEN 1 ELSE DBBatchSize

Elems(q) == {q[i] : i \in 1..Len(q)}

Init ==
    /\ admitted = 0 /\ received = 0 /\ rejected = 0
    /\ ingress = <<>>
    /\ chan = [s \in Sink |-> <<>>]
    /\ stage = "recv" /\ hand = 0 /\ running = TRUE
    /\ wpc = [w \in Worker |-> "select"]
    /\ final = [w \in DBWriter |-> FALSE]
    /\ batch = [w \in Worker |-> <<>>]
    /\ settled = [s \in Sink |-> {}]
    /\ rows = [m \in Msg |-> 0]
    /\ dbOk = 0 /\ dbFail = 0
    /\ hash = [v \in Vehicle |-> 0]
    /\ stateErrs = {}
    /\ sent = [w \in StateWriter |-> 0]
    /\ retries = 0 /\ late = {}
    /\ beside = [m \in Msg |-> {}]
    /\ cancelled = FALSE /\ main = "serving"

\* Every goroutine dies with the process.
Alive == main # "exited"

-----------------------------------------------------------------------------
(* TelemetryHandler.Handle, from Dispatch on                               *)

\* The HTTP server runs handlers until Shutdown has seen the last one return;
\* when its deadline expires first, the remaining ones still run.
HandlersMayRun == main \in {"serving", "draining", "expired"}

\* Fault: the capacity test of Admit is off by one.
AdmitOneTooMany ==
    /\ HandlersMayRun
    /\ admitted < MaxMsgs
    /\ Len(ingress) <= IngressCap
    /\ ingress' = Append(ingress, admitted + 1)
    /\ admitted' = admitted + 1
    /\ UNCHANGED <<received, rejected, chan, dispatchVars, workerVars, procVars>>

\* Dispatch, first case: there is room, the request will be answered 202.
Admit ==
    /\ HandlersMayRun
    /\ admitted < MaxMsgs
    /\ Len(ingress) < IngressCap
    /\ ingress' = Append(ingress, admitted + 1)
    /\ admitted' = admitted + 1
    /\ UNCHANGED <<received, rejected, chan, dispatchVars, workerVars, procVars>>

\* Dispatch, default case: ingress is full, the request is answered 503.
Reject ==
    /\ HandlersMayRun
    /\ rejected < MaxRejects
    /\ Len(ingress) = IngressCap
    /\ rejected' = rejected + 1
    /\ UNCHANGED <<admitted, received, ingress, chan, dispatchVars, workerVars,
                   procVars>>

\* The handler counts the message after Dispatch has returned.
CountReceived ==
    /\ HandlersMayRun
    /\ received < admitted
    /\ received' = received + 1
    /\ UNCHANGED <<admitted, rejected, ingress, chan, dispatchVars, workerVars,
                   procVars>>

-----------------------------------------------------------------------------
(* Dispatcher.Run                                                          *)

RunReceive ==
    /\ Alive /\ running /\ stage = "recv"
    /\ ingress # <<>>
    /\ ingress' = Tail(ingress)
    /\ hand' = Head(ingress)
    /\ stage' = "db"
    /\ UNCHANGED <<handlerVars, chan, running, workerVars, procVars>>

\* Fault: a full channel is skipped, as if send had a default case.
RunSendOrSkip(s) ==
    /\ Alive /\ running /\ stage = s
    /\ chan' = [chan EXCEPT ![s] = IF Len(@) < Cap[s] THEN Append(@, hand) ELSE @]
    /\ stage' = CASE s = "db" -> "state"
                  [] s = "state" -> "alert"
                  [] s = "alert" -> "recv"
    /\ hand' = IF s = "alert" THEN 0 ELSE hand
    /\ UNCHANGED <<handlerVars, ingress, running, workerVars, procVars>>

\* send: blocks while the channel is full.
RunSend(s) ==
    /\ Alive /\ running /\ stage = s
    /\ Len(chan[s]) < Cap[s]
    /\ chan' = [chan EXCEPT ![s] = Append(@, hand)]
    /\ stage' = CASE s = "db" -> "state"
                  [] s = "state" -> "alert"
                  [] s = "alert" -> "recv"
    /\ hand' = IF s = "alert" THEN 0 ELSE hand
    /\ UNCHANGED <<handlerVars, ingress, running, workerVars, procVars>>

\* Fault: send does not listen to ctx.Done.
RunStopInSelectOnly ==
    /\ Alive /\ running /\ stage = "recv"
    /\ cancelled
    /\ running' = FALSE
    /\ UNCHANGED <<handlerVars, ingress, chan, stage, hand, workerVars, procVars>>

\* ctx.Done in the select of Run or in send: Run returns where it stands.
RunStop ==
    /\ Alive /\ running
    /\ cancelled
    /\ running' = FALSE
    /\ UNCHANGED <<handlerVars, ingress, chan, stage, hand, workerVars, procVars>>

-----------------------------------------------------------------------------
(* DBWriter                                                                *)

DBReceive(w) ==
    /\ Alive /\ wpc[w] = "select"
    /\ chan["db"] # <<>>
    /\ chan' = [chan EXCEPT !["db"] = Tail(@)]
    /\ batch' = [batch EXCEPT ![w] = Append(@, Head(chan["db"]))]
    /\ wpc' = [wpc EXCEPT ![w] = IF Len(batch'[w]) >= DBBatch THEN "insert"
                                                              ELSE "select"]
    /\ UNCHANGED <<handlerVars, ingress, dispatchVars, final, settled, sinkVars,
                   procVars>>

\* Fault: the ticker flushes full batches only.
DBTickWhenFull(w) ==
    /\ Alive /\ wpc[w] = "select"
    /\ Len(batch[w]) >= DBBatch
    /\ wpc' = [wpc EXCEPT ![w] = "insert"]
    /\ UNCHANGED <<handlerVars, ingress, chan, dispatchVars, final, batch,
                   settled, sinkVars, procVars>>

DBTick(w) ==
    /\ Alive /\ wpc[w] = "select"
    /\ batch[w] # <<>>
    /\ wpc' = [wpc EXCEPT ![w] = "insert"]
    /\ UNCHANGED <<handlerVars, ingress, chan, dispatchVars, final, batch,
                   settled, sinkVars, procVars>>

\* ctx.Done: flush what is held, with the context that is already done.
DBDone(w) ==
    /\ Alive /\ wpc[w] = "select"
    /\ cancelled
    /\ wpc' = [wpc EXCEPT ![w] = IF batch[w] = <<>> THEN "stopped" ELSE "insert"]
    /\ final' = [final EXCEPT ![w] = TRUE]
    /\ UNCHANGED <<handlerVars, ingress, chan, dispatchVars, batch, settled,
                   sinkVars, procVars>>

\* CopyFrom is one statement: all rows of the batch or none.  An error may
\* hide a commit whose answer was lost; under a context that is done no
\* connection is acquired and nothing is written.
BatchInsert(w, committed) ==
    /\ committed => ~cancelled
    /\ rows' = IF committed
               THEN [m \in Msg |-> IF m \in Elems(batch[w]) THEN rows[m] + 1
                                                            ELSE rows[m]]
               ELSE rows

\* Fault: the batch is not emptied after a flush.
FlushReturnsKeepingBatch(w) ==
    /\ settled' = [settled EXCEPT !["db"] = @ \cup Elems(batch[w])]
    /\ batch' = batch
    /\ wpc' = [wpc EXCEPT ![w] = IF final[w] THEN "stopped" ELSE "select"]

\* flush returns and the writer empties its batch, or returns from Run.
FlushReturns(w) ==
    /\ settled' = [settled EXCEPT !["db"] = @ \cup Elems(batch[w])]
    /\ batch' = [batch EXCEPT ![w] = <<>>]
    /\ wpc' = [wpc EXCEPT ![w] = IF final[w] THEN "stopped" ELSE "select"]

\* flush, either attempt succeeds.
FlushOk(w) ==
    /\ Alive /\ wpc[w] \in {"insert", "retry"}
    /\ BatchInsert(w, TRUE)
    /\ dbOk' = dbOk + Len(batch[w])
    /\ FlushReturns(w)
    /\ UNCHANGED <<handlerVars, ingress, chan, dispatchVars, final, dbFail,
                   stateVars, procVars>>

\* flush, the first attempt fails: sleep and try once more.
FlushRetry(w) ==
    /\ Alive /\ wpc[w] = "insert"
    /\ \E committed \in BOOLEAN : BatchInsert(w, committed)
    /\ wpc' = [wpc EXCEPT ![w] = "retry"]
    /\ UNCHANGED <<handlerVars, ingress, chan, dispatchVars, final, batch,
                   settled, dbOk, dbFail, stateVars, procVars>>

\* Fault: retry until the insert succeeds.
FlushFailTriesAgain(w) ==
    /\ Alive /\ wpc[w] = "retry"
    /\ \E committed \in BOOLEAN : BatchInsert(w, committed)
    /\ UNCHANGED <<handlerVars, ingress, chan, dispatchVars, wpc, final, batch,
                   settled, dbOk, dbFail, stateVars, procVars>>

\* flush, the second attempt fails: the batch is given up and counted.
FlushFail(w) ==
    /\ Alive /\ wpc[w] = "retry"
    /\ \E committed \in BOOLEAN : BatchInsert(w, committed)
    /\ dbFail' = dbFail + Len(batch[w])
    /\ FlushReturns(w)
    /\ UNCHANGED <<handlerVars, ingress, chan, dispatchVars, final, dbOk,
                   stateVars, procVars>>

-----------------------------------------------------------------------------
(* StateWriter                                                             *)

\* flushBatch returns and the writer empties its batch.
FlushBatchReturns(w, msgs) ==
    /\ settled' = [settled EXCEPT !["state"] = @ \cup msgs]
    /\ batch' = [batch EXCEPT ![w] = <<>>]
    /\ sent' = [sent EXCEPT ![w] = 0]

\* An error of Exec is only logged.
DropBatch(w, msgs) ==
    /\ FlushBatchReturns(w, msgs)
    /\ stateErrs' = stateErrs \cup msgs

HeldByOthers(w) == UNION {Elems(batch[x]) : x \in StateWriter \ {w}}

\* flushBatch is called: under a done context Exec fails at once.
BeginExec(w, msgs) ==
    IF cancelled
    THEN /\ DropBatch(w, Elems(msgs))
         /\ wpc' = [wpc EXCEPT ![w] = "select"]
         /\ UNCHANGED beside
    ELSE /\ batch' = [batch EXCEPT ![w] = msgs]
         /\ wpc' = [wpc EXCEPT ![w] = "exec"]
         /\ beside' = [m \in Msg |-> IF m \in Elems(msgs) THEN HeldByOthers(w)
                                                          ELSE beside[m]]
         /\ UNCHANGED <<settled, sent, stateErrs>>

StateReceive(w) ==
    /\ Alive /\ wpc[w] = "select"
    /\ chan["state"] # <<>>
    /\ chan' = [chan EXCEPT !["state"] = Tail(@)]
    /\ LET held == Append(batch[w], Head(chan["state"]))
       IN IF Len(held) >= StateBatchSize
          THEN BeginExec(w, held)
          ELSE /\ batch' = [batch EXCEPT ![w] = held]
               /\ UNCHANGED <<wpc, settled, sent, stateErrs, beside>>
    /\ UNCHANGED <<handlerVars, ingress, dispatchVars, final, rows, dbOk, dbFail,
                   hash, retries, late, procVars>>

StateTick(w) ==
    /\ Alive /\ wpc[w] = "select"
    /\ batch[w] # <<>>
    /\ BeginExec(w, batch[w])
    /\ UNCHANGED <<handlerVars, ingress, chan, dispatchVars, final, rows, dbOk,
                   dbFail, hash, retries, late, procVars>>

\* ctx.Done: the last flush runs under the done context and fails.
StateDone(w) ==
    /\ Alive /\ wpc[w] = "select"
    /\ cancelled
    /\ DropBatch(w, Elems(batch[w]))
    /\ wpc' = [wpc EXCEPT ![w] = "stopped"]
    /\ UNCHANGED <<handlerVars, ingress, chan, dispatchVars, final, rows, dbOk,
                   dbFail, hash, retries, late, beside, procVars>>

\* HSET, EXPIRE and PUBLISH of one message.
Apply(m) == hash' = [hash EXCEPT ![VehicleOf[m]] = m]

\* Fault: the batch is applied from its end.
PipelineStateUpdateBackwards(w) ==
    /\ Alive /\ wpc[w] = "exec"
    /\ sent[w] < Len(batch[w])
    /\ Apply(batch[w][Len(batch[w]) - sent[w]])
    /\ sent' = [sent EXCEPT ![w] = @ + 1]
    /\ UNCHANGED <<handlerVars, ingress, chan, dispatchVars, wpc, final, batch,
                   settled, rows, dbOk, dbFail, stateErrs, retries, late, beside,
                   procVars>>

\* The pipeline is not a transaction: Redis runs the commands of one message
\* after those of another, and other writers' commands come in between.
PipelineStateUpdate(w) ==
    /\ Alive /\ wpc[w] = "exec"
    /\ sent[w] < Len(batch[w])
    /\ Apply(batch[w][sent[w] + 1])
    /\ sent' = [sent EXCEPT ![w] = @ + 1]
    /\ UNCHANGED <<handlerVars, ingress, chan, dispatchVars, wpc, final, batch,
                   settled, rows, dbOk, dbFail, stateErrs, retries, late, beside,
                   procVars>>

\* Exec has read every reply.
ExecOk(w) ==
    /\ Alive /\ wpc[w] = "exec"
    /\ sent[w] = Len(batch[w])
    /\ FlushBatchReturns(w, Elems(batch[w]))
    /\ wpc' = [wpc EXCEPT ![w] = "select"]
    /\ UNCHANGED <<handlerVars, ingress, chan, dispatchVars, final, rows, dbOk,
                   dbFail, hash, stateErrs, retries, late, beside, procVars>>

\* The connection fails, or a reply is late: go-redis sends the whole pipeline
\* again on another connection, unless the context is done.  Commands of the
\* attempt it gives up may have been applied and may still reach Redis.
ExecRetry(w) ==
    /\ Alive /\ wpc[w] = "exec"
    /\ ~cancelled
    /\ retries < MaxRetries
    /\ retries' = retries + 1
    /\ sent' = [sent EXCEPT ![w] = 0]
    /\ late' = late \cup Elems(batch[w])
    /\ UNCHANGED <<handlerVars, ingress, chan, dispatchVars, wpc, final, batch,
                   settled, rows, dbOk, dbFail, hash, stateErrs, beside, procVars>>

\* The last attempt fails too, wherever Redis is in the pipeline.
ExecFail(w) ==
    /\ Alive /\ wpc[w] = "exec"
    /\ DropBatch(w, Elems(batch[w]))
    /\ late' = late \cup Elems(batch[w])
    /\ wpc' = [wpc EXCEPT ![w] = "select"]
    /\ UNCHANGED <<handlerVars, ingress, chan, dispatchVars, final, rows, dbOk,
                   dbFail, hash, retries, beside, procVars>>

\* Redis comes to commands of an attempt that was given up.
LateUpdate(m) ==
    /\ m \in late
    /\ Apply(m)
    /\ UNCHANGED <<handlerVars, ingress, chan, dispatchVars, wpc, final, batch,
                   settled, rows, dbOk, dbFail, stateErrs, execVars, procVars>>

\* The 30 s expiry that every update renews.
ExpireState(v) ==
    /\ hash[v] # 0
    /\ hash' = [hash EXCEPT ![v] = 0]
    /\ UNCHANGED <<handlerVars, ingress, chan, dispatchVars, wpc, final, batch,
                   settled, rows, dbOk, dbFail, stateErrs, execVars, procVars>>

-----------------------------------------------------------------------------
(* AlertEvaluator                                                          *)

AlertReceive(w) ==
    /\ Alive /\ wpc[w] = "select"
    /\ chan["alert"] # <<>>
    /\ chan' = [chan EXCEPT !["alert"] = Tail(@)]
    /\ batch' = [batch EXCEPT ![w] = <<Head(chan["alert"])>>]
    /\ wpc' = [wpc EXCEPT ![w] = "evaluate"]
    /\ UNCHANGED <<handlerVars, ingress, dispatchVars, final, settled, sinkVars,
                   procVars>>

\* evaluate runs under context.Background: cancellation does not stop it.
Evaluated(w) ==
    /\ Alive /\ wpc[w] = "evaluate"
    /\ settled' = [settled EXCEPT !["alert"] = @ \cup Elems(batch[w])]
    /\ batch' = [batch EXCEPT ![w] = <<>>]
    /\ wpc' = [wpc EXCEPT ![w] = "select"]
    /\ UNCHANGED <<handlerVars, ingress, chan, dispatchVars, final, sinkVars,
                   procVars>>

AlertDone(w) ==
    /\ Alive /\ wpc[w] = "select"
    /\ cancelled
    /\ wpc' = [wpc EXCEPT ![w] = "stopped"]
    /\ UNCHANGED <<handlerVars, ingress, chan, dispatchVars, final, batch,
                   settled, sinkVars, procVars>>

-----------------------------------------------------------------------------
(* main                                                                    *)

\* SIGTERM or SIGINT: every goroutine sees the same context end.
Signal ==
    /\ ~cancelled
    /\ cancelled' = TRUE
    /\ UNCHANGED <<handlerVars, ingress, chan, dispatchVars, workerVars, main>>

\* server.Shutdown: no new connection, wait for the handlers that run.
MainStep(from, to) ==
    /\ main = from
    /\ main' = to
    /\ UNCHANGED <<handlerVars, ingress, chan, dispatchVars, workerVars, cancelled>>

ShutdownBegins  == cancelled /\ MainStep("serving", "draining")
ShutdownReturns == received = admitted /\ MainStep("draining", "drained")
ShutdownExpires == MainStep("draining", "expired")

\* The two-second sleep is over and main returns.
Exit == \E from \in {"drained", "expired"} : MainStep(from, "exited")

-----------------------------------------------------------------------------
DBWriterStep(w) ==
    \/ DBReceive(w) \/ DBTick(w) \/ DBDone(w)
    \/ FlushOk(w) \/ FlushRetry(w) \/ FlushFail(w)

StateWriterStep(w) ==
    \/ StateReceive(w) \/ StateTick(w) \/ StateDone(w)
    \/ PipelineStateUpdate(w) \/ ExecOk(w) \/ ExecRetry(w) \/ ExecFail(w)

AlertEvaluatorStep(w) == AlertReceive(w) \/ Evaluated(w) \/ AlertDone(w)

DispatcherStep == RunReceive \/ (\E s \in Sink : RunSend(s)) \/ RunStop

HandlerStep == Admit \/ Reject \/ CountReceived

MainProc == Signal \/ ShutdownBegins \/ ShutdownReturns \/ ShutdownExpires \/ Exit

Next ==
    \/ HandlerStep
    \/ DispatcherStep
    \/ \E w \in DBWriter : DBWriterStep(w)
    \/ \E w \in StateWriter : StateWriterStep(w)
    \/ \E w \in AlertEvaluator : AlertEvaluatorStep(w)
    \/ \E m \in Msg : LateUpdate(m)
    \/ \E v \in Vehicle : ExpireState(v)
    \/ MainProc

Spec == Init /\ [][Next]_vars

\* Goroutines are scheduled, tickers fire and calls to the stores return.
\* Nothing obliges a client to send, or a signal to arrive, and main's exit is
\* left unfair so that what the goroutines do without it stays visible.
Fairness ==
    /\ WF_vars(DispatcherStep)
    /\ \A w \in DBWriter : WF_vars(DBWriterStep(w)) /\ WF_vars(DBDone(w))
    /\ \A w \in StateWriter : WF_vars(StateWriterStep(w)) /\ WF_vars(StateDone(w))
    /\ \A w \in AlertEvaluator : WF_vars(AlertEvaluatorStep(w)) /\ WF_vars(AlertDone(w))

FairSpec == Spec /\ Fairness
-----------------------------------------------------------------------------
(* Properties                                                              *)

TypeHandler ==
    /\ admitted \in 0..MaxMsgs /\ received \in 0..admitted
    /\ rejected \in 0..MaxRejects

TypeQueues ==
    /\ ingress \in Seq(Msg) /\ Len(ingress) <= IngressCap
    /\ chan \in [Sink -> Seq(Msg)] /\ \A s \in Sink : Len(chan[s]) <= Cap[s]
    /\ stage \in Sink \cup {"recv"} /\ hand \in 0..MaxMsgs
    /\ stage # "recv" => hand # 0
    /\ running \in BOOLEAN

TypeWorkers ==
    /\ wpc \in [Worker -> {"select", "insert", "retry", "exec", "evaluate", "stopped"}]
    /\ final \in [DBWriter -> BOOLEAN]
    /\ batch \in [Worker -> Seq(Msg)]
    /\ \A w \in DBWriter : /\ wpc[w] \in {"select", "insert", "retry", "stopped"}
                           /\ Len(batch[w]) <= DBBatch
                           /\ wpc[w] = "select" => Len(batch[w]) < DBBatch
    /\ \A w \in StateWriter : /\ wpc[w] \in {"select", "exec", "stopped"}
                              /\ Len(batch[w]) <= StateBatchSize
                              /\ wpc[w] = "select" => Len(batch[w]) < StateBatchSize
                              /\ wpc[w] = "exec" => batch[w] # <<>>

TypeStores ==
    /\ settled \in [Sink -> SUBSET Msg]
    /\ rows \in [Msg -> Nat]
    /\ dbOk \in Nat /\ dbFail \in Nat
    /\ hash \in [Vehicle -> 0..MaxMsgs]
    /\ stateErrs \in SUBSET Msg

TypeExec ==
    /\ sent \in [StateWriter -> Nat]
    /\ \A w \in StateWriter : sent[w] <= Len(batch[w])
    /\ retries \in 0..MaxRetries
    /\ late \in SUBSET Msg /\ beside \in [Msg -> SUBSET Msg]

TypeProc ==
    /\ cancelled \in BOOLEAN
    /\ main \in {"serving", "draining", "drained", "expired", "exited"}

\* The type invariant: every variable has the shape the code gives it, no
\* channel exceeds the capacity it was made with, and no batch its size.
TypeOK == TypeHandler /\ TypeQueues /\ TypeWorkers /\ TypeStores /\ TypeExec /\ TypeProc

\* Where message m is on its way to sink s.
Places(s, m) ==
    {<<"ingress", i>> : i \in {j \in 1..Len(ingress) : ingress[j] = m}}
    \cup {<<"hand", i>> : i \in {j \in {0} : hand = m /\ Rank[stage] <= Rank[s]}}
    \cup {<<"chan", i>> : i \in {j \in 1..Len(chan[s]) : chan[s][j] = m}}
    \cup (UNION {{<<w, i>> : i \in {j \in 1..Len(batch[w]) : batch[w][j] = m}} :
                    w \in Pool[s]})
    \cup {<<"settled", i>> : i \in {j \in {0} : m \in settled[s]}}

\* Conservation: on its way to each of the three sinks, a message whose
\* request was admitted is in exactly one place -- ingress, the hand of Run,
\* the sink's channel, one worker's batch, or settled by a worker.  So the
\* fan-out of Run neither loses, duplicates nor reroutes a message, whatever
\* the interleaving with workers, failures, full channels and cancellation;
\* what is lost is what is not settled when the process ends.
ExactlyOnePlace ==
    \A s \in Sink, m \in 1..admitted :
        \E p \in Places(s, m) : Places(s, m) = {p}

\* flush tries a batch twice, and an attempt may commit although it reports
\* an error: a message has at most two rows in vehicle_telemetry.
AtMostTwoRows == \A m \in Msg : rows[m] <= 2

\* What may leave the hash of a vehicle older than a message that Exec reported
\* as applied: an update that another state writer already held when the flush
\* of that message began, or commands of an attempt go-redis had given up.
\* Nothing else does -- not the writer's own earlier batches, not an earlier
\* message of the same batch, however often the pipeline was sent again, and no
\* update whose Exec had returned before.
CurrentState ==
    \A m \in settled["state"] \ stateErrs :
        LET stored == hash[VehicleOf[m]]
        IN  stored = 0 \/ stored >= m \/ stored \in beside[m] \cup late

Contract == INSTANCE Delivery WITH
    accepted <- admitted, done <- settled, ok <- dbOk, failed <- dbFail

\* The pipeline implements its contract: a sink settles a message only after
\* Dispatch accepted it and only once, a row never appears for a message the
\* DB writers are done with, and each one they are done with moves exactly one
\* of the two counters -- across fan-out, batching, retries, lost answers and
\* the flushes at shutdown.  So DBWriteSuccess and DBWriteFailures together count
\* each of them once, and one given up without a row is among the failures.
KeepsContract == Contract!Spec

\* Until the process is told to stop, every admitted message is eventually
\* settled by every sink that has workers: blocking sends, full channels,
\* partial batches and failing stores delay a message but never hold it for
\* ever.
EventuallySettled ==
    \A m \in Msg :
        (admitted >= m) ~> \/ cancelled
                           \/ \A s \in Sink : Pool[s] # {} => m \in settled[s]

\* After the signal every goroutine of the pipeline returns by itself,
\* including a dispatcher blocked on a channel no writer drains any more.
GoroutinesReturn ==
    cancelled ~> \/ main = "exited"
                 \/ ~running /\ \A w \in Worker : wpc[w] = "stopped"

\* dispatcher.go: "A request is accepted only after it enters this bounded
\* queue; Run fans it out without dropping it."
FansOutWithoutDropping == ~running => ingress = <<>> /\ stage = "recv"

=============================================================================
