------------------------ MODULE IngestPipelineLemmas ------------------------
(***************************************************************************)
(* The type invariant of IngestPipeline, for every size of channels,       *)
(* batches and worker pools; what receiving and settling do to the batches *)
(* of a pool; and the invariant Conserved, which the steps of each process *)
(* preserve.                                                               *)
(***************************************************************************)
EXTENDS IngestPipeline, TLAPS

-----------------------------------------------------------------------------
(* Facts about constants and sequences                                     *)

\* Capacities and batch sizes are positive, and the pools are disjoint.
LEMMA ConstantFacts ==
    /\ Cap \in [Sink -> Nat \ {0}]
    /\ IngressCap \in Nat \ {0} /\ DBBatch \in Nat \ {0}
    /\ StateBatchSize \in Nat \ {0}
    /\ MaxMsgs \in Nat /\ MaxRejects \in Nat /\ MaxRetries \in Nat
    /\ VehicleOf \in [Msg -> Vehicle]
  BY SizesAssumption, PoolsAssumption DEF Cap, IngressCap, DBBatch, Sink

\* Receiving from a channel takes its oldest message.
LEMMA TailFacts ==
    ASSUME NEW S, NEW q \in Seq(S), q # <<>>
    PROVE  /\ Head(q) \in S /\ Tail(q) \in Seq(S)
           /\ Len(q) \in Nat \ {0} /\ Len(Tail(q)) = Len(q) - 1
           /\ Head(q) = q[1]
           /\ \A i \in 1..Len(Tail(q)) : Tail(q)[i] = q[i + 1]
  OBVIOUS

\* Sending to a channel, or appending to a batch, adds a message at the end.
LEMMA AppendFacts ==
    ASSUME NEW S, NEW q \in Seq(S), NEW e \in S
    PROVE  /\ Append(q, e) \in Seq(S)
           /\ Len(q) \in Nat /\ Len(Append(q, e)) = Len(q) + 1
           /\ \A i \in 1..Len(q) : Append(q, e)[i] = q[i]
           /\ Append(q, e)[Len(q) + 1] = e
  OBVIOUS

\* The messages of a queue are messages.
LEMMA ElemsType ==
    ASSUME NEW S, NEW q \in Seq(S)
    PROVE  Elems(q) \in SUBSET S
  BY DEF Elems

-----------------------------------------------------------------------------
(* The type invariant                                                      *)

\* A step that leaves the batches and the pipelines of the state writers alone.
LEMMA ExecFrame ==
    ASSUME TypeOK, UNCHANGED execVars, \A x \in StateWriter : batch'[x] = batch[x]
    PROVE  TypeExec'
  BY DEF TypeOK, TypeExec, execVars

\* Every step of a DB writer preserves the type invariant.
LEMMA DBWriterType ==
    ASSUME TypeOK, NEW w \in DBWriter, DBWriterStep(w)
    PROVE  TypeOK'
<1> USE ConstantFacts
<1> w \in Worker
  BY DEF Worker
<1>0. Elems(batch[w]) \in SUBSET Msg
  BY ElemsType DEF TypeOK, TypeWorkers
<1>e. TypeExec'
  <2>1. UNCHANGED execVars
    BY Zenon DEF DBWriterStep, DBReceive, DBTick, DBDone, FlushOk, FlushRetry, FlushFail,
       sinkVars, stateVars
  <2>2. \A x \in StateWriter : x \in Worker \ {w}
    BY PoolsAssumption DEF Worker
  <2>3. \A x \in Worker \ {w} : batch'[x] = batch[x]
    BY ZenonT(30) DEF DBWriterStep, DBReceive, DBTick, DBDone, FlushOk, FlushRetry,
       FlushFail, FlushReturns, TypeOK, TypeWorkers
  <2> QED BY <2>1, <2>2, <2>3, ExecFrame
<1>1. CASE DBReceive(w)
  <2> DEFINE q == chan["db"]
  <2>1. q \in Seq(Msg) /\ q # <<>>
    BY <1>1 DEF DBReceive, TypeOK, TypeQueues, Sink
  <2>2. Head(q) \in Msg /\ Tail(q) \in Seq(Msg) /\ Len(Tail(q)) = Len(q) - 1
        /\ Len(q) \in Nat
    BY <2>1, TailFacts
  <2> DEFINE b == Append(batch[w], Head(q))
  <2>3. b \in Seq(Msg) /\ Len(b) = Len(batch[w]) + 1 /\ Len(batch[w]) \in Nat
    BY <2>2, AppendFacts DEF TypeOK, TypeWorkers
  <2>4. TypeQueues'
    BY <1>1, <2>2 DEF DBReceive, TypeOK, TypeQueues, Sink, dispatchVars
  <2>5. TypeWorkers'
    BY <1>1, <2>3, PoolsAssumption
       DEF DBReceive, TypeOK, TypeWorkers
  <2> QED
    BY <1>e, <1>1, <2>4, <2>5 DEF DBReceive, TypeOK, TypeHandler, TypeStores, TypeProc,
       handlerVars, sinkVars, stateVars, procVars
<1>2. CASE DBTick(w)
  <2>1. TypeWorkers'
    BY <1>2, PoolsAssumption DEF DBTick, TypeOK, TypeWorkers
  <2> QED
    BY <1>e, <1>2, <2>1 DEF DBTick, TypeOK, TypeHandler, TypeQueues, TypeStores, TypeProc,
       handlerVars, dispatchVars, sinkVars, stateVars,
       procVars
<1>3. CASE DBDone(w)
  <2>1. TypeWorkers'
    BY <1>3, PoolsAssumption DEF DBDone, TypeOK, TypeWorkers
  <2> QED
    BY <1>e, <1>3, <2>1 DEF DBDone, TypeOK, TypeHandler, TypeQueues, TypeStores, TypeProc,
       handlerVars, dispatchVars, sinkVars, stateVars,
       procVars
<1>4. ASSUME NEW c \in BOOLEAN, BatchInsert(w, c)
      PROVE  rows' \in [Msg -> Nat]
  BY <1>4 DEF BatchInsert, TypeOK, TypeStores
<1>5. ASSUME FlushReturns(w), final' = final
      PROVE  TypeWorkers' /\ settled' \in [Sink -> SUBSET Msg]
  <2>1. TypeWorkers'
    BY <1>5, PoolsAssumption DEF FlushReturns, TypeOK, TypeWorkers
  <2>2. settled' \in [Sink -> SUBSET Msg]
    BY <1>5, <1>0, Zenon DEF FlushReturns, TypeOK, TypeStores
  <2> QED BY <2>1, <2>2
<1>6. Len(batch[w]) \in Nat
  BY DEF TypeOK, TypeWorkers
<1>7. CASE FlushOk(w)
  <2>1. TypeWorkers' /\ settled' \in [Sink -> SUBSET Msg] /\ rows' \in [Msg -> Nat]
    BY <1>4, <1>5, <1>7, Zenon DEF FlushOk
  <2> QED
    BY <1>e, <1>6, <1>7, <2>1 DEF FlushOk, TypeOK, TypeHandler, TypeQueues, TypeStores,
       TypeProc, handlerVars, dispatchVars, stateVars, procVars
<1>8. CASE FlushRetry(w)
  <2>1. rows' \in [Msg -> Nat]
    BY <1>4, <1>8 DEF FlushRetry
  <2>2. TypeWorkers'
    BY <1>8, PoolsAssumption DEF FlushRetry, TypeOK, TypeWorkers
  <2> QED
    BY <1>e, <1>8, <2>1, <2>2 DEF FlushRetry, TypeOK, TypeHandler, TypeQueues, TypeStores,
       TypeProc, handlerVars, dispatchVars, stateVars, procVars
<1>9. CASE FlushFail(w)
  <2>1. TypeWorkers' /\ settled' \in [Sink -> SUBSET Msg] /\ rows' \in [Msg -> Nat]
    BY <1>4, <1>5, <1>9 DEF FlushFail
  <2> QED
    BY <1>e, <1>6, <1>9, <2>1 DEF FlushFail, TypeOK, TypeHandler, TypeQueues, TypeStores,
       TypeProc, handlerVars, dispatchVars, stateVars, procVars
<1> QED
  BY <1>1, <1>2, <1>3, <1>7, <1>8, <1>9 DEF DBWriterStep

\* Redis has applied no more messages of a batch than it holds.
SentInBatch ==
    /\ sent \in [StateWriter -> Nat]
    /\ \A w \in StateWriter : sent[w] <= Len(batch[w])

\* Every step of a state writer preserves the type invariant.
LEMMA StateWriterType ==
    ASSUME TypeOK, NEW w \in StateWriter, StateWriterStep(w)
    PROVE  TypeOK'
<1> USE ConstantFacts
<1> w \in Worker
  BY DEF Worker
<1>0. Elems(batch[w]) \in SUBSET Msg /\ Len(batch[w]) \in Nat
  BY ElemsType DEF TypeOK, TypeWorkers
<1>n. w \notin DBWriter /\ \A x \in DBWriter \cup StateWriter : x \in Worker
  BY PoolsAssumption DEF Worker
<1>t. /\ sent \in [StateWriter -> Nat] /\ \A x \in StateWriter : sent[x] <= Len(batch[x])
      /\ batch \in [Worker -> Seq(Msg)]
  BY DEF TypeOK, TypeExec, TypeWorkers
<1>s. ASSUME NEW msgs \in SUBSET Msg, FlushBatchReturns(w, msgs), final' = final,
             NEW pc \in {"select", "stopped"}, wpc' = [wpc EXCEPT ![w] = pc]
      PROVE  TypeWorkers' /\ settled' \in [Sink -> SUBSET Msg] /\ SentInBatch'
  <2>0. batch' = [batch EXCEPT ![w] = <<>>] /\ sent' = [sent EXCEPT ![w] = 0]
    BY <1>s DEF FlushBatchReturns
  <2>1. TypeWorkers'
    BY <1>n, <1>s, <2>0 DEF TypeOK, TypeWorkers
  <2>2. settled' \in [Sink -> SUBSET Msg]
    BY <1>s, Zenon DEF FlushBatchReturns, TypeOK, TypeStores
  <2>3. SentInBatch'
    <3>1. sent' \in [StateWriter -> Nat]
      BY <1>t, <2>0
    <3>2. ASSUME NEW x \in StateWriter PROVE sent'[x] <= Len(batch'[x])
      <4>1. CASE x = w
        BY <1>t, <2>0, <4>1
      <4>2. CASE x # w
        BY <1>n, <1>t, <2>0, <4>2
      <4> QED BY <4>1, <4>2
    <3> QED BY <3>1, <3>2 DEF SentInBatch
  <2> QED BY <2>1, <2>2, <2>3
<1>a. ASSUME NEW msgs \in SUBSET Msg, DropBatch(w, msgs), final' = final,
             NEW pc \in {"select", "stopped"}, wpc' = [wpc EXCEPT ![w] = pc]
      PROVE  /\ TypeWorkers' /\ settled' \in [Sink -> SUBSET Msg] /\ SentInBatch'
             /\ stateErrs' \in SUBSET Msg
  <2>1. stateErrs' \in SUBSET Msg
    BY <1>a, Zenon DEF DropBatch, TypeOK, TypeStores
  <2> QED BY <1>a, <1>s, <2>1, Zenon DEF DropBatch
<1>b. ASSUME NEW q \in Seq(Msg), q # <<>>, Len(batch[w]) <= Len(q), Len(q) <= StateBatchSize,
             BeginExec(w, q), final' = final
      PROVE  /\ TypeWorkers' /\ settled' \in [Sink -> SUBSET Msg] /\ SentInBatch'
             /\ stateErrs' \in SUBSET Msg /\ beside' \in [Msg -> SUBSET Msg]
  <2>0. beside \in [Msg -> SUBSET Msg]
    BY DEF TypeOK, TypeExec
  <2>1. CASE cancelled
    <3>1. Elems(q) \in SUBSET Msg
      BY <1>b, ElemsType
    <3> QED BY <1>a, <1>b, <2>0, <2>1, <3>1 DEF BeginExec
  <2>2. CASE ~cancelled
    <3>1. /\ batch' = [batch EXCEPT ![w] = q] /\ wpc' = [wpc EXCEPT ![w] = "exec"]
          /\ UNCHANGED <<settled, sent, stateErrs>>
      BY <1>b, <2>2 DEF BeginExec
    <3>2. TypeWorkers'
      BY <1>b, <1>n, <3>1 DEF TypeOK, TypeWorkers
    <3>3. SentInBatch'
      <4>1. ASSUME NEW x \in StateWriter PROVE sent[x] <= Len(batch'[x])
        <5>1. CASE x = w
          BY <1>0, <1>b, <1>t, <3>1, <5>1
        <5>2. CASE x # w
          BY <1>n, <1>t, <3>1, <5>2
        <5> QED BY <5>1, <5>2
      <4> QED BY <1>t, <3>1, <4>1 DEF SentInBatch
    <3>4. beside' \in [Msg -> SUBSET Msg]
      <4>1. HeldByOthers(w) \in SUBSET Msg
        <5>1. ASSUME NEW x \in StateWriter PROVE Elems(batch[x]) \in SUBSET Msg
          BY <1>n, <1>t, ElemsType
        <5> QED BY <5>1 DEF HeldByOthers
      <4>2. beside' = [m \in Msg |-> IF m \in Elems(q) THEN HeldByOthers(w) ELSE beside[m]]
        BY <1>b, <2>2 DEF BeginExec
      <4> QED BY <2>0, <4>1, <4>2, Zenon
    <3> QED BY <3>1, <3>2, <3>3, <3>4 DEF TypeOK, TypeStores
  <2> QED BY <2>1, <2>2
<1>c. ASSUME SentInBatch', retries' \in 0..MaxRetries, late' \in SUBSET Msg,
             beside' \in [Msg -> SUBSET Msg]
      PROVE  TypeExec'
  BY <1>c DEF SentInBatch, TypeExec
<1>u. retries \in 0..MaxRetries /\ late \in SUBSET Msg /\ beside \in [Msg -> SUBSET Msg]
  BY DEF TypeOK, TypeExec
<1>1. CASE StateReceive(w)
  <2> DEFINE q == chan["state"]
             held == Append(batch[w], Head(q))
  <2>1. q \in Seq(Msg) /\ q # <<>>
    BY <1>1 DEF StateReceive, TypeOK, TypeQueues, Sink
  <2>2. Head(q) \in Msg /\ Tail(q) \in Seq(Msg) /\ Len(Tail(q)) = Len(q) - 1
        /\ Len(q) \in Nat
    BY <2>1, TailFacts
  <2>3. held \in Seq(Msg) /\ Len(held) = Len(batch[w]) + 1
    BY <2>2, AppendFacts DEF TypeOK, TypeWorkers
  <2>4. TypeQueues'
    BY <1>1, <2>2 DEF StateReceive, TypeOK, TypeQueues, Sink, dispatchVars
  <2>5. /\ TypeWorkers' /\ settled' \in [Sink -> SUBSET Msg] /\ SentInBatch'
        /\ stateErrs' \in SUBSET Msg /\ beside' \in [Msg -> SUBSET Msg]
    <3> HIDE DEF held, q
    <3>0. wpc[w] = "select" /\ final' = final /\ Len(batch[w]) < StateBatchSize
      BY <1>1 DEF StateReceive, TypeOK, TypeWorkers
    <3>1. CASE Len(held) >= StateBatchSize
      <4>1. BeginExec(w, held)
        BY <1>1, <3>1 DEF StateReceive, held, q
      <4>2. held # <<>> /\ Len(batch[w]) <= Len(held) /\ Len(held) <= StateBatchSize
        BY <1>0, <2>3, <3>0
      <4> QED BY <1>b, <2>3, <3>0, <4>1, <4>2
    <3>2. CASE ~(Len(held) >= StateBatchSize)
      <4>1. /\ batch' = [batch EXCEPT ![w] = held]
            /\ UNCHANGED <<wpc, settled, sent, stateErrs, beside>>
        BY <1>1, <3>2 DEF StateReceive, held, q
      <4>2. TypeWorkers'
        BY <1>0, <1>n, <2>3, <3>0, <3>2, <4>1 DEF TypeOK, TypeWorkers
      <4>3. SentInBatch'
        <5>1. ASSUME NEW x \in StateWriter PROVE sent[x] <= Len(batch'[x])
          <6>1. CASE x = w
            BY <1>0, <1>t, <2>3, <4>1, <6>1
          <6>2. CASE x # w
            BY <1>n, <1>t, <4>1, <6>2
          <6> QED BY <6>1, <6>2
        <5> QED BY <1>t, <4>1, <5>1 DEF SentInBatch
      <4> QED BY <1>u, <4>1, <4>2, <4>3 DEF TypeOK, TypeStores
    <3> QED BY <3>1, <3>2
  <2>6. TypeExec'
    BY <1>1, <1>c, <1>u, <2>5 DEF StateReceive
  <2> QED
    BY <1>1, <2>4, <2>5, <2>6 DEF StateReceive, TypeOK, TypeHandler, TypeStores, TypeProc,
       handlerVars, procVars
<1>2. CASE StateTick(w)
  <2>1. /\ TypeWorkers' /\ settled' \in [Sink -> SUBSET Msg] /\ SentInBatch'
        /\ stateErrs' \in SUBSET Msg /\ beside' \in [Msg -> SUBSET Msg]
    <3>1. /\ batch[w] \in Seq(Msg) /\ batch[w] # <<>> /\ Len(batch[w]) <= StateBatchSize
          /\ BeginExec(w, batch[w]) /\ final' = final
      BY <1>2 DEF StateTick, TypeOK, TypeWorkers
    <3> QED BY <1>0, <1>b, <3>1
  <2>2. TypeExec'
    BY <1>2, <1>c, <1>u, <2>1 DEF StateTick
  <2> QED
    BY <1>2, <2>1, <2>2 DEF StateTick, TypeOK, TypeHandler, TypeQueues, TypeStores,
       TypeProc, handlerVars, dispatchVars, procVars
<1>3. CASE StateDone(w)
  <2>1. /\ TypeWorkers' /\ settled' \in [Sink -> SUBSET Msg] /\ SentInBatch'
        /\ stateErrs' \in SUBSET Msg
    BY <1>3, <1>0, <1>a DEF StateDone
  <2>2. TypeExec'
    BY <1>3, <1>c, <1>u, <2>1 DEF StateDone
  <2> QED
    BY <1>3, <2>1, <2>2 DEF StateDone, TypeOK, TypeHandler, TypeQueues, TypeStores,
       TypeProc, handlerVars, dispatchVars, procVars
<1>4. CASE PipelineStateUpdate(w)
  <2> DEFINE m == batch[w][sent[w] + 1]
  <2>1. batch[w] \in Seq(Msg) /\ sent[w] \in Nat /\ sent[w] < Len(batch[w])
    BY <1>4, <1>t DEF PipelineStateUpdate
  <2>2. m \in Msg
    BY <1>0, <2>1
  <2>3. SentInBatch'
    <3>1. sent' = [sent EXCEPT ![w] = @ + 1] /\ batch' = batch
      BY <1>4 DEF PipelineStateUpdate
    <3> QED BY <1>0, <1>t, <2>1, <3>1 DEF SentInBatch
  <2>4. m \in 0..MaxMsgs
    BY <2>2 DEF Msg
  <2>5. hash' = [hash EXCEPT ![VehicleOf[m]] = m]
    BY <1>4 DEF PipelineStateUpdate, Apply
  <2> HIDE DEF m
  <2>6. TypeStores'
    BY <1>4, <2>4, <2>5, Zenon DEF PipelineStateUpdate, TypeOK, TypeStores
  <2>7. TypeExec'
    BY <1>4, <1>c, <1>u, <2>3 DEF PipelineStateUpdate
  <2> QED
    BY <1>4, <2>6, <2>7 DEF PipelineStateUpdate, TypeOK, TypeHandler, TypeQueues,
       TypeWorkers, TypeProc, handlerVars, dispatchVars, procVars
<1>5. CASE ExecFail(w)
  <2>1. /\ TypeWorkers' /\ settled' \in [Sink -> SUBSET Msg] /\ SentInBatch'
        /\ stateErrs' \in SUBSET Msg
    BY <1>5, <1>0, <1>a DEF ExecFail
  <2>2. late' \in SUBSET Msg
    BY <1>0, <1>5, <1>u DEF ExecFail
  <2>3. TypeExec'
    BY <1>5, <1>c, <1>u, <2>1, <2>2 DEF ExecFail
  <2> QED
    BY <1>5, <2>1, <2>3 DEF ExecFail, TypeOK, TypeHandler, TypeQueues, TypeStores,
       TypeProc, handlerVars, dispatchVars, procVars
<1>6. CASE ExecOk(w)
  <2>1. TypeWorkers' /\ settled' \in [Sink -> SUBSET Msg] /\ SentInBatch'
    BY <1>6, <1>0, <1>s DEF ExecOk
  <2>2. TypeExec'
    BY <1>6, <1>c, <1>u, <2>1 DEF ExecOk
  <2> QED
    BY <1>6, <2>1, <2>2 DEF ExecOk, TypeOK, TypeHandler, TypeQueues, TypeStores,
       TypeProc, handlerVars, dispatchVars, procVars
<1>7. CASE ExecRetry(w)
  <2>1. SentInBatch'
    <3>1. sent' = [sent EXCEPT ![w] = 0] /\ batch' = batch
      BY <1>7 DEF ExecRetry
    <3> QED BY <1>0, <1>t, <3>1 DEF SentInBatch
  <2>2. late' \in SUBSET Msg /\ retries' \in 0..MaxRetries
    BY <1>0, <1>7, <1>u DEF ExecRetry
  <2>3. TypeExec'
    BY <1>7, <1>c, <1>u, <2>1, <2>2 DEF ExecRetry
  <2> QED
    BY <1>7, <2>3 DEF ExecRetry, TypeOK, TypeHandler, TypeQueues, TypeWorkers, TypeStores,
       TypeProc, handlerVars, dispatchVars, procVars
<1> QED
  BY <1>1, <1>2, <1>3, <1>4, <1>5, <1>6, <1>7 DEF StateWriterStep

\* Every step of an alert evaluator preserves the type invariant.
LEMMA AlertEvaluatorType ==
    ASSUME TypeOK, NEW w \in AlertEvaluator, AlertEvaluatorStep(w)
    PROVE  TypeOK'
<1> USE ConstantFacts
<1> w \in Worker
  BY DEF Worker
<1>e. TypeExec'
  <2>1. UNCHANGED execVars
    BY Zenon DEF AlertEvaluatorStep, AlertReceive, Evaluated, AlertDone, sinkVars, stateVars
  <2>2. \A x \in StateWriter : x \in Worker \ {w}
    BY PoolsAssumption DEF Worker
  <2>3. \A x \in Worker \ {w} : batch'[x] = batch[x]
    BY ZenonT(30) DEF AlertEvaluatorStep, AlertReceive, Evaluated, AlertDone, TypeOK,
       TypeWorkers
  <2> QED BY <2>1, <2>2, <2>3, ExecFrame
<1>1. CASE AlertReceive(w)
  <2> DEFINE q == chan["alert"]
  <2>1. q \in Seq(Msg) /\ q # <<>>
    BY <1>1 DEF AlertReceive, TypeOK, TypeQueues, Sink
  <2>2. Head(q) \in Msg /\ Tail(q) \in Seq(Msg) /\ Len(Tail(q)) = Len(q) - 1
        /\ Len(q) \in Nat
    BY <2>1, TailFacts
  <2>3. TypeQueues'
    BY <1>1, <2>2 DEF AlertReceive, TypeOK, TypeQueues, Sink, dispatchVars
  <2>4. TypeWorkers'
    BY <1>1, <2>2, PoolsAssumption DEF AlertReceive, TypeOK, TypeWorkers
  <2> QED
    BY <1>e, <1>1, <2>3, <2>4 DEF AlertReceive, TypeOK, TypeHandler, TypeStores, TypeProc,
       handlerVars, sinkVars, stateVars, procVars
<1>2. CASE Evaluated(w)
  <2>1. Elems(batch[w]) \in SUBSET Msg
    BY ElemsType DEF TypeOK, TypeWorkers
  <2>2. TypeStores'
    BY <1>2, <2>1, Zenon DEF Evaluated, TypeOK, TypeStores, sinkVars, stateVars
  <2>3. TypeWorkers'
    BY <1>2, PoolsAssumption DEF Evaluated, TypeOK, TypeWorkers
  <2> QED
    BY <1>e, <1>2, <2>2, <2>3 DEF Evaluated, TypeOK, TypeHandler, TypeQueues, TypeProc,
       handlerVars, dispatchVars, procVars
<1>3. CASE AlertDone(w)
  BY <1>e, <1>3, PoolsAssumption DEF AlertDone, TypeOK, TypeHandler, TypeQueues, TypeWorkers,
     TypeStores, TypeProc, handlerVars, dispatchVars, sinkVars, stateVars, procVars
<1> QED
  BY <1>1, <1>2, <1>3 DEF AlertEvaluatorStep

\* Every step of a handler or of the dispatcher preserves the type invariant.
LEMMA FanOutType ==
    ASSUME TypeOK, HandlerStep \/ DispatcherStep
    PROVE  TypeOK'
<1> USE ConstantFacts DEF handlerVars, dispatchVars, workerVars, sinkVars, stateVars, execVars, procVars
<1>1. CASE Admit
  <2>0. admitted + 1 \in Msg /\ ingress \in Seq(Msg)
    BY <1>1 DEF Admit, TypeOK, TypeHandler, TypeQueues, Msg
  <2>1. ingress' \in Seq(Msg) /\ Len(ingress') = Len(ingress) + 1 /\ Len(ingress) \in Nat
    BY <1>1, <2>0, AppendFacts DEF Admit
  <2> QED
    BY <1>1, <2>1 DEF Admit, TypeOK, TypeHandler, TypeQueues, TypeWorkers, TypeStores,
       TypeExec, TypeProc
<1>2. CASE Reject
  BY <1>2 DEF Reject, TypeOK, TypeHandler, TypeQueues, TypeWorkers, TypeStores, TypeExec, TypeProc
<1>6. CASE CountReceived
  <2>1. TypeHandler'
    BY <1>6 DEF CountReceived, TypeOK, TypeHandler
  <2> QED
    BY <1>6, <2>1 DEF CountReceived, TypeOK, TypeQueues, TypeWorkers, TypeStores, TypeExec, TypeProc
<1>3. CASE RunReceive
  <2>1. /\ Head(ingress) \in Msg /\ Tail(ingress) \in Seq(Msg)
        /\ Len(Tail(ingress)) = Len(ingress) - 1 /\ Len(ingress) \in Nat
    BY <1>3, TailFacts DEF RunReceive, TypeOK, TypeQueues
  <2>2. TypeQueues'
    BY <1>3, <2>1 DEF RunReceive, TypeOK, TypeQueues, Msg, Sink
  <2> QED
    BY <1>3, <2>2 DEF RunReceive, TypeOK, TypeHandler, TypeWorkers, TypeStores, TypeExec, TypeProc
<1>4. ASSUME NEW s \in Sink, RunSend(s) PROVE TypeOK'
  <2>1. hand \in Msg
    BY <1>4, SMTT(30) DEF RunSend, TypeOK, TypeQueues, Msg, Sink
  <2>2. /\ Append(chan[s], hand) \in Seq(Msg) /\ Len(chan[s]) \in Nat
        /\ Len(Append(chan[s], hand)) = Len(chan[s]) + 1
    BY <2>1, AppendFacts DEF TypeOK, TypeQueues
  <2>3. TypeQueues'
    BY <1>4, <2>2, SMTT(30) DEF RunSend, TypeOK, TypeQueues, Sink
  <2> QED
    BY <1>4, <2>3 DEF RunSend, TypeOK, TypeHandler, TypeWorkers, TypeStores, TypeExec, TypeProc
<1>5. CASE RunStop
  BY <1>5, Zenon DEF RunStop, TypeOK, TypeHandler, TypeQueues, TypeWorkers, TypeStores, TypeExec, TypeProc
<1> QED
  BY <1>1, <1>2, <1>3, <1>4, <1>5, <1>6 DEF HandlerStep, DispatcherStep

\* The type invariant is inductive.
LEMMA TypeStep == ASSUME TypeOK, [Next]_vars PROVE TypeOK'
<1>1. CASE HandlerStep \/ DispatcherStep
  BY <1>1, FanOutType
<1>2. ASSUME NEW w \in DBWriter, DBWriterStep(w) PROVE TypeOK'
  BY <1>2, DBWriterType
<1>3. ASSUME NEW w \in StateWriter, StateWriterStep(w) PROVE TypeOK'
  BY <1>3, StateWriterType
<1>4. ASSUME NEW w \in AlertEvaluator, AlertEvaluatorStep(w) PROVE TypeOK'
  BY <1>4, AlertEvaluatorType
<1>5. ASSUME NEW v \in Vehicle, ExpireState(v) PROVE TypeOK'
  BY <1>5, ConstantFacts DEF ExpireState, TypeOK, TypeHandler, TypeQueues, TypeWorkers,
     TypeStores, TypeExec, TypeProc, handlerVars, dispatchVars, execVars, procVars
<1>8. ASSUME NEW m \in Msg, LateUpdate(m) PROVE TypeOK'
  <2>1. m \in 0..MaxMsgs
    BY DEF Msg
  <2>2. hash' \in [Vehicle -> 0..MaxMsgs]
    BY <1>8, <2>1, Zenon DEF LateUpdate, Apply, TypeOK, TypeStores
  <2> QED
    BY <1>8, <2>2 DEF LateUpdate, TypeOK, TypeHandler, TypeQueues, TypeWorkers,
       TypeStores, TypeExec, TypeProc, handlerVars, dispatchVars, execVars, procVars
<1>6. CASE MainProc
  BY <1>6, Zenon DEF MainProc, Signal, ShutdownBegins, ShutdownReturns, ShutdownExpires, Exit,
     MainStep, TypeOK, TypeHandler, TypeQueues, TypeWorkers, TypeStores, TypeExec, TypeProc,
     handlerVars, dispatchVars, workerVars, sinkVars, stateVars, execVars, procVars
<1>7. CASE UNCHANGED vars
  BY <1>7 DEF vars, TypeOK, TypeHandler, TypeQueues, TypeWorkers, TypeStores, TypeExec, TypeProc,
     handlerVars, dispatchVars, workerVars, sinkVars, stateVars, execVars, procVars
<1> QED
  BY <1>1, <1>2, <1>3, <1>4, <1>5, <1>6, <1>7, <1>8 DEF Next

\* The type invariant holds initially.
LEMMA TypeInit == Init => TypeOK
<1> USE ConstantFacts
<1>1. Init => TypeQueues
  BY DEF Init, TypeQueues, Sink
<1>2. Init => TypeWorkers
  BY DEF Init, TypeWorkers, Worker
<1>3. Init => TypeHandler
  BY DEF Init, TypeHandler
<1>4. Init => TypeProc
  BY Zenon DEF Init, TypeProc
<1>5. Init => TypeStores
  BY DEF Init, TypeStores
<1>6. Init => TypeExec
  BY DEF Init, TypeExec, Worker
<1> QED BY <1>1, <1>2, <1>3, <1>4, <1>5, <1>6 DEF TypeOK

\* TypeOK is an invariant for every choice of pools, capacities and bounds:
\* channels stay within the capacity make gave them, batches within their size.
THEOREM TypeCorrect == Spec => []TypeOK
<1>1. TypeOK /\ [Next]_vars => TypeOK'
  BY TypeStep
<1> QED
  BY <1>1, TypeInit, PTL DEF Spec

-----------------------------------------------------------------------------
(* What the workers of a pool hold                                         *)

\* Pool P, holding batches b of lengths l, has settled S and still holds the
\* rest of the first g messages, each once.
Held(P, b, l, S, g) ==
    /\ S \subseteq 1..g
    /\ \A w \in P : \A i \in 1..l[w] : b[w][i] \in 1..g /\ b[w][i] \notin S
    /\ \A w1, w2 \in P : \A i \in 1..l[w1], j \in 1..l[w2] :
           b[w1][i] = b[w2][j] => w1 = w2 /\ i = j
    /\ \A m \in 1..g : m \in S \/ \E w \in P : \E i \in 1..l[w] : b[w][i] = m

\* Worker w receives message g + 1: b and l become c and k.
Takes(P, w, b, l, c, k, g) ==
    /\ \A x \in P \ {w} : c[x] = b[x] /\ k[x] = l[x]
    /\ k[w] = l[w] + 1 /\ c[w][k[w]] = g + 1
    /\ \A i \in 1..l[w] : c[w][i] = b[w][i]

\* The pool then holds or has settled the first g + 1 messages.
LEMMA HeldTake ==
    ASSUME NEW P, NEW w \in P, NEW b, NEW c, NEW S, NEW g \in Nat,
           NEW l \in [P -> Nat], NEW k \in [P -> Nat],
           Held(P, b, l, S, g), Takes(P, w, b, l, c, k, g)
    PROVE  Held(P, c, k, S, g + 1)
<1> USE DEF Takes
<1>3. ASSUME NEW x \in P, NEW i \in 1..k[x]
      PROVE  \/ i \in 1..l[x] /\ c[x][i] = b[x][i]
             \/ x = w /\ i = k[w] /\ c[x][i] = g + 1
  <2>1. CASE x = w
    BY <2>1
  <2>2. CASE x # w
    BY <2>2
  <2> QED BY <2>1, <2>2
<1>4. S \subseteq 1..(g + 1)
  BY DEF Held
<1>5. ASSUME NEW x \in P, NEW i \in 1..k[x]
      PROVE  c[x][i] \in 1..(g + 1) /\ c[x][i] \notin S
  <2>1. CASE i \in 1..l[x] /\ c[x][i] = b[x][i]
    BY <2>1 DEF Held
  <2>2. CASE c[x][i] = g + 1
    BY <2>2 DEF Held
  <2> QED BY <1>3, <2>1, <2>2
<1>6. ASSUME NEW w1 \in P, NEW w2 \in P, NEW i \in 1..k[w1], NEW j \in 1..k[w2],
             c[w1][i] = c[w2][j]
      PROVE  w1 = w2 /\ i = j
  <2>0. ASSUME NEW x \in P, NEW n \in 1..l[x], c[x][n] = b[x][n]
        PROVE  c[x][n] # g + 1
    <3>1. b[x][n] \in 1..g
      BY DEF Held
    <3> QED BY <2>0, <3>1
  <2>1. CASE i \in 1..l[w1] /\ c[w1][i] = b[w1][i]
    <3>0. c[w2][j] # g + 1
      BY <1>6, <2>0, <2>1
    <3>1. j \in 1..l[w2] /\ c[w2][j] = b[w2][j]
      BY <1>3, <3>0
    <3>2. b[w1][i] = b[w2][j]
      BY <1>6, <2>1, <3>1, ZenonT(30)
    <3> QED BY <2>1, <3>1, <3>2 DEF Held
  <2>2. CASE w1 = w /\ i = k[w] /\ c[w1][i] = g + 1
    <3>1. ~(j \in 1..l[w2] /\ c[w2][j] = b[w2][j])
      BY <1>6, <2>0, <2>2
    <3> QED BY <1>3, <2>2, <3>1
  <2> QED BY <1>3, <2>1, <2>2
<1>7. ASSUME NEW m \in 1..(g + 1)
      PROVE  m \in S \/ \E x \in P : \E i \in 1..k[x] : c[x][i] = m
  <2>1. CASE m = g + 1
    <3>1. k[w] \in 1..k[w]
      OBVIOUS
    <3> QED BY <2>1, <3>1
  <2>2. CASE m \in 1..g
    <3>1. CASE m \in S
      BY <3>1
    <3>2. ASSUME NEW x \in P, NEW i \in 1..l[x], b[x][i] = m
          PROVE  \E y \in P : \E n \in 1..k[y] : c[y][n] = m
      <4>1. i \in 1..k[x] /\ c[x][i] = b[x][i]
        BY <2>2
      <4> QED BY <3>2, <4>1
    <3> QED BY <2>2, <3>1, <3>2, SMTT(30) DEF Held
  <2> QED BY <2>1, <2>2
<1> QED
  BY <1>4, <1>5, <1>6, <1>7 DEF Held

\* Worker w settles the first n messages of its batch (all of them when a
\* flush returns): b, l, S become c, k, T.
Settles(P, w, b, l, S, c, k, T, n) ==
    /\ n \in 0..l[w]
    /\ \A x \in P \ {w} : c[x] = b[x] /\ k[x] = l[x]
    /\ k[w] = l[w] - n
    /\ \A i \in 1..k[w] : c[w][i] = b[w][i + n]
    /\ S \subseteq T
    /\ \A i \in 1..n : b[w][i] \in T
    /\ \A m \in T : m \in S \/ \E i \in 1..n : b[w][i] = m

\* The pool still holds or has settled the first g messages, each once.
LEMMA HeldSettle ==
    ASSUME NEW P, NEW w \in P, NEW b, NEW c, NEW S, NEW T, NEW g \in Nat, NEW n,
           NEW l \in [P -> Nat], NEW k \in [P -> Nat],
           Held(P, b, l, S, g), Settles(P, w, b, l, S, c, k, T, n)
    PROVE  Held(P, c, k, T, g)
<1> USE DEF Settles
<1>0. \A i \in 1..n : i \in 1..l[w]
  OBVIOUS
<1>2. ASSUME NEW x \in P, NEW i \in 1..k[x]
      PROVE  \E d \in 1..l[x] : /\ c[x][i] = b[x][d]
                                /\ x = w => d = i + n
                                /\ x # w => d = i
  <2>1. CASE x = w
    <3>1. i + n \in 1..l[x]
      BY <2>1
    <3> QED BY <2>1, <3>1
  <2>2. CASE x # w
    BY <2>2
  <2> QED BY <2>1, <2>2
<1>3. T \subseteq 1..g
  <2>1. ASSUME NEW i \in 1..n PROVE b[w][i] \in 1..g
    BY <1>0 DEF Held
  <2>2. ASSUME NEW m \in T PROVE m \in 1..g
    <3>1. CASE m \in S
      BY <3>1 DEF Held
    <3> QED BY <2>1, <3>1
  <2> QED BY <2>2
<1>4. ASSUME NEW x \in P, NEW i \in 1..k[x]
      PROVE  c[x][i] \in 1..g /\ c[x][i] \notin T
  <2>0. PICK d \in 1..l[x] : c[x][i] = b[x][d] /\ (x = w => d = i + n)
    BY <1>2
  <2>1. c[x][i] \in 1..g /\ c[x][i] \notin S
    BY <2>0 DEF Held
  <2>2. ASSUME NEW e \in 1..n, c[x][i] = b[w][e] PROVE FALSE
    <3>1. e \in 1..l[w]
      BY <1>0
    <3>0. b[x][d] = b[w][e]
      BY <2>0, <2>2
    <3>2. x = w /\ d = e
      BY <3>0, <3>1, SMTT(30) DEF Held
    <3> QED BY <2>0, <3>2
  <2> QED BY <2>1, <2>2
<1>5. ASSUME NEW w1 \in P, NEW w2 \in P, NEW i \in 1..k[w1], NEW j \in 1..k[w2],
             c[w1][i] = c[w2][j]
      PROVE  w1 = w2 /\ i = j
  <2>1. PICK d \in 1..l[w1] : c[w1][i] = b[w1][d] /\ (w1 = w => d = i + n)
                              /\ (w1 # w => d = i)
    BY <1>2
  <2>2. PICK e \in 1..l[w2] : c[w2][j] = b[w2][e] /\ (w2 = w => e = j + n)
                              /\ (w2 # w => e = j)
    BY <1>2
  <2>0. b[w1][d] = b[w2][e]
    BY <1>5, <2>1, <2>2, ZenonT(30)
  <2>3. w1 = w2 /\ d = e
    BY <2>0, SMTT(30) DEF Held
  <2> QED BY <2>1, <2>2, <2>3
<1>6. ASSUME NEW m \in 1..g
      PROVE  m \in T \/ \E x \in P : \E i \in 1..k[x] : c[x][i] = m
  <2>1. CASE m \in S
    BY <2>1
  <2>2. ASSUME NEW x \in P, NEW i \in 1..l[x], b[x][i] = m
        PROVE  m \in T \/ \E y \in P : \E e \in 1..k[y] : c[y][e] = m
    <3>1. CASE x = w /\ i <= n
      <4>1. i \in 1..n
        BY <3>1
      <4> QED BY <2>2, <3>1, <4>1
    <3>2. CASE x = w /\ i > n
      <4>1. i - n \in 1..k[w] /\ (i - n) + n = i
        BY <3>2, SMTT(30)
      <4>2. c[w][i - n] = b[w][i]
        BY <4>1
      <4> QED BY <2>2, <3>2, <4>1, <4>2
    <3>3. CASE x # w
      <4>1. i \in 1..k[x] /\ c[x][i] = m
        BY <2>2, <3>3
      <4> QED BY <4>1
    <3> QED BY <3>1, <3>2, <3>3, SMTT(30)
  <2> QED BY <2>1, <2>2 DEF Held
<1> QED
  BY <1>3, <1>4, <1>5, <1>6 DEF Held

\* The same for the batches of the model: Held for the pool of sink s.
HeldBy(s, bt, S, g) == Held(Pool[s], bt, [w \in Pool[s] |-> Len(bt[w])], S, g)

\* The pools of the sinks are disjoint sets of workers.
LEMMA PoolFacts ==
    /\ \A s \in Sink : Pool[s] \subseteq Worker
    /\ \A s, t \in Sink : s # t => Pool[s] \cap Pool[t] = {}
    /\ Pool["db"] = DBWriter /\ Pool["state"] = StateWriter
    /\ Pool["alert"] = AlertEvaluator
  BY PoolsAssumption DEF Pool, Sink, Worker

\* A pool does not notice what another pool's worker does to its batch.
LEMMA PoolFrame ==
    ASSUME NEW t \in Sink, NEW bt, NEW ct, NEW S, NEW g, HeldBy(t, bt, S, g),
           \A x \in Pool[t] : ct[x] = bt[x]
    PROVE  HeldBy(t, ct, S, g)
<1> DEFINE l == [x \in Pool[t] |-> Len(bt[x])]
<1>1. l = [x \in Pool[t] |-> Len(ct[x])] /\ Held(Pool[t], bt, l, S, g)
  BY SMTT(30) DEF HeldBy
<1> HIDE DEF l
<1>2. Held(Pool[t], ct, l, S, g)
  <2>1. \A w \in Pool[t] : \A i \in 1..l[w] : ct[w][i] \in 1..g /\ ct[w][i] \notin S
    BY <1>1, ZenonT(30) DEF Held
  <2>2. ASSUME NEW w1 \in Pool[t], NEW w2 \in Pool[t],
               NEW i \in 1..l[w1], NEW j \in 1..l[w2], ct[w1][i] = ct[w2][j]
        PROVE  w1 = w2 /\ i = j
    <3>1. bt[w1][i] = bt[w2][j]
      BY <2>2
    <3>2. \A x, y \in Pool[t] : \A e \in 1..l[x], f \in 1..l[y] :
             bt[x][e] = bt[y][f] => x = y /\ e = f
      BY <1>1, Zenon DEF Held
    <3> QED BY <3>1, <3>2
  <2>3. ASSUME NEW m \in 1..g, m \notin S
        PROVE  \E w \in Pool[t] : \E i \in 1..l[w] : ct[w][i] = m
    <3>1. PICK w \in Pool[t] : \E i \in 1..l[w] : bt[w][i] = m
      BY <1>1, <2>3 DEF Held
    <3> QED BY <3>1
  <2> QED BY <1>1, <2>1, <2>2, <2>3, Zenon DEF Held
<1> QED
  BY <1>1, <1>2 DEF HeldBy

\* A worker appends message g + 1 to its batch.
LEMMA PoolTake ==
    ASSUME NEW s \in Sink, NEW w \in Pool[s], NEW bt \in [Worker -> Seq(Msg)],
           NEW S, NEW g \in Nat, g + 1 \in Msg, HeldBy(s, bt, S, g)
    PROVE  HeldBy(s, [bt EXCEPT ![w] = Append(@, g + 1)], S, g + 1)
<1> DEFINE P == Pool[s]
           ct == [bt EXCEPT ![w] = Append(@, g + 1)]
           l == [x \in P |-> Len(bt[x])]
           k == [x \in P |-> Len(ct[x])]
<1>1. P \subseteq Worker
  BY PoolFacts
<1>2. ct[w] = Append(bt[w], g + 1) /\ \A x \in P \ {w} : ct[x] = bt[x]
  BY <1>1
<1>3. ct \in [Worker -> Seq(Msg)]
  BY <1>1, AppendFacts
<1>4. l \in [P -> Nat] /\ k \in [P -> Nat]
  <2>1. ASSUME NEW x \in P PROVE Len(bt[x]) \in Nat /\ Len(ct[x]) \in Nat
    <3>1. bt[x] \in Seq(Msg) /\ ct[x] \in Seq(Msg)
      BY <1>1, <1>3, SMTT(30)
    <3> QED BY <3>1
  <2> QED BY <2>1
<1>5. /\ \A x \in P \ {w} : ct[x] = bt[x] /\ k[x] = l[x]
      /\ k[w] = l[w] + 1 /\ ct[w][k[w]] = g + 1
      /\ \A i \in 1..l[w] : ct[w][i] = bt[w][i]
  <2>1. bt[w] \in Seq(Msg)
    BY <1>1
  <2>2. /\ Len(ct[w]) = Len(bt[w]) + 1 /\ ct[w][Len(bt[w]) + 1] = g + 1
        /\ \A i \in 1..Len(bt[w]) : ct[w][i] = bt[w][i]
    BY <1>2, <2>1, AppendFacts
  <2> QED BY <1>2, <2>2
<1> HIDE DEF P, ct, l, k
<1>6. Held(P, bt, l, S, g) /\ w \in P
  BY SMTT(30) DEF HeldBy, P, l
<1>7. Held(P, ct, k, S, g + 1)
  <2>1. Takes(P, w, bt, l, ct, k, g)
    BY <1>5, ZenonT(30) DEF Takes
  <2> QED BY <1>4, <1>6, <2>1, HeldTake, Zenon
<1> QED
  BY <1>7 DEF HeldBy, P, ct, k

\* A worker is done with its whole batch.
LEMMA PoolSettle ==
    ASSUME NEW s \in Sink, NEW w \in Pool[s], NEW bt \in [Worker -> Seq(Msg)],
           NEW S, NEW g \in Nat, HeldBy(s, bt, S, g)
    PROVE  HeldBy(s, [bt EXCEPT ![w] = <<>>], S \cup Elems(bt[w]), g)
<1> DEFINE P == Pool[s]
           ct == [bt EXCEPT ![w] = <<>>]
           l == [x \in P |-> Len(bt[x])]
           k == [x \in P |-> Len(ct[x])]
<1>1. P \subseteq Worker
  BY PoolFacts
<1>2. ct[w] = <<>> /\ \A x \in P \ {w} : ct[x] = bt[x]
  BY <1>1
<1>4. l \in [P -> Nat] /\ k \in [P -> Nat]
  <2>1. ASSUME NEW x \in P PROVE Len(bt[x]) \in Nat /\ Len(ct[x]) \in Nat
    <3>1. bt[x] \in Seq(Msg) /\ ct[x] \in Seq(Msg)
      BY <1>1, <1>2
    <3> QED BY <3>1
  <2> QED BY <2>1
<1>5. /\ \A x \in P \ {w} : ct[x] = bt[x] /\ k[x] = l[x]
      /\ k[w] = 0 /\ l[w] = Len(bt[w])
  BY <1>2
<1> HIDE DEF P, ct, l, k
<1>6. Held(P, bt, l, S, g) /\ w \in P
  BY DEF HeldBy, P, l
<1>7. Held(P, ct, k, S \cup Elems(bt[w]), g)
  <2> DEFINE n == l[w]
             T == S \cup Elems(bt[w])
  <2>1. n \in 0..l[w] /\ k[w] = l[w] - n
    BY <1>4, <1>5, <1>6
  <2>2. \A i \in 1..k[w] : ct[w][i] = bt[w][i + n]
    BY <1>5
  <2>3. /\ S \subseteq T /\ \A i \in 1..n : bt[w][i] \in T
        /\ \A m \in T : m \in S \/ \E i \in 1..n : bt[w][i] = m
    BY <1>5 DEF Elems
  <2> HIDE DEF n, T
  <2>4. Settles(P, w, bt, l, S, ct, k, T, n)
    BY <1>5, <2>1, <2>2, <2>3, ZenonT(30) DEF Settles
  <2>5. Held(P, ct, k, T, g)
    BY <1>4, <1>6, <2>4, HeldSettle, Zenon
  <2> QED BY <2>5 DEF T
<1> QED
  BY <1>7 DEF HeldBy, P, ct, k

-----------------------------------------------------------------------------
(* Conservation                                                            *)
(*                                                                         *)
(* ExactlyOnePlace is not inductive: it says nothing of the order in which *)
(* queues hold messages, which is what tells a message that was received   *)
(* from one that was not.  Because every channel is FIFO and Run is the    *)
(* only sender, each queue holds an interval of admission numbers, and a   *)
(* sink's workers have received exactly the messages up to Got(s).         *)

\* The number of messages Run has taken from ingress, the number it has sent
\* to sink s, and the number the workers of s have received.
Taken == admitted - Len(ingress)
Sent(s) == IF Rank[stage] <= Rank[s] THEN Taken - 1 ELSE Taken
Got(s) == Sent(s) - Len(chan[s])

\* Every queue holds consecutive messages, the newest next to its sender.
InOrder ==
    /\ Len(ingress) <= admitted
    /\ \A i \in 1..Len(ingress) : ingress[i] = Taken + i
    /\ hand = IF stage = "recv" THEN 0 ELSE Taken
    /\ \A s \in Sink : /\ Got(s) \in Nat
                       /\ \A i \in 1..Len(chan[s]) : chan[s][i] = Got(s) + i

PoolsHold == \A s \in Sink : HeldBy(s, batch, settled[s], Got(s))

\* An evaluator between two messages holds none, so that receiving one does
\* not overwrite another.
IdleHoldsNothing == \A w \in AlertEvaluator : wpc[w] # "evaluate" => batch[w] = <<>>

\* The inductive invariant of conservation.
Conserved == TypeOK /\ InOrder /\ PoolsHold /\ IdleHoldsNothing

\* Steps of the handler and of Run leave what each sink has received alone.
LEMMA AdmitConserves ==
    ASSUME Conserved, Admit
    PROVE  InOrder' /\ \A s \in Sink : Got(s)' = Got(s)
<1>1. ingress \in Seq(Msg) /\ admitted \in Nat /\ admitted + 1 \in Msg
  BY ConstantFacts DEF Conserved, TypeOK, TypeQueues, TypeHandler, Admit, Msg
<1>2. /\ Len(ingress) \in Nat /\ Len(ingress') = Len(ingress) + 1
      /\ \A i \in 1..Len(ingress) : ingress'[i] = ingress[i]
      /\ ingress'[Len(ingress) + 1] = admitted + 1
  BY <1>1, AppendFacts DEF Admit
<1>3. Taken' = Taken /\ Taken \in Int
  BY <1>1, <1>2 DEF Taken, Admit
<1>4. \A s \in Sink : Got(s)' = Got(s)
  BY <1>3 DEF Got, Sent, Admit, dispatchVars
<1>5. \A i \in 1..Len(ingress') : ingress'[i] = Taken' + i
  BY <1>1, <1>2, <1>3, SMTT(30) DEF Conserved, InOrder, Taken
<1>6. UNCHANGED <<chan, stage, hand>> /\ admitted' = admitted + 1
  BY DEF Admit, dispatchVars
<1>7. Len(ingress') <= admitted'
  <2>1. Len(ingress) <= admitted
    BY DEF Conserved, InOrder
  <2> QED BY <1>1, <1>2, <1>6, <2>1
<1> QED
  BY <1>3, <1>4, <1>5, <1>6, <1>7, ZenonT(30) DEF Conserved, InOrder

\* Run takes the oldest message of ingress into its hand.
LEMMA RunReceiveConserves ==
    ASSUME Conserved, RunReceive
    PROVE  InOrder' /\ \A s \in Sink : Got(s)' = Got(s)
<1>1. ingress \in Seq(Msg) /\ ingress # <<>> /\ admitted \in Nat
  BY ConstantFacts DEF Conserved, TypeOK, TypeQueues, TypeHandler, RunReceive
<1>2. /\ Len(ingress) \in Nat \ {0} /\ Len(ingress') = Len(ingress) - 1
      /\ hand' = ingress[1]
      /\ \A i \in 1..Len(ingress') : ingress'[i] = ingress[i + 1]
  BY <1>1, TailFacts DEF RunReceive
<1>3. Taken' = Taken + 1 /\ Taken \in Int
  BY <1>1, <1>2 DEF Taken, RunReceive, handlerVars
<1>4. \A s \in Sink : Sent(s)' = Sent(s)
  BY <1>3 DEF Sent, RunReceive, Rank, Sink
<1>5. \A s \in Sink : Got(s)' = Got(s)
  BY <1>4 DEF Got, RunReceive
<1>6. \A i \in 1..Len(ingress') : ingress'[i] = Taken' + i
  BY <1>1, <1>2, <1>3 DEF Conserved, InOrder
<1>7. hand' = Taken'
  BY <1>1, <1>2, <1>3 DEF Conserved, InOrder
<1> QED
  BY <1>1, <1>2, <1>5, <1>6, <1>7
     DEF Conserved, InOrder, RunReceive, handlerVars

\* Run appends the message in its hand to the channel of a sink.
LEMMA RunSendConserves ==
    ASSUME Conserved, NEW t \in Sink, RunSend(t)
    PROVE  InOrder' /\ \A s \in Sink : Got(s)' = Got(s)
<1>1. /\ hand \in Msg /\ hand = Taken /\ chan[t] \in Seq(Msg) /\ stage = t
      /\ Taken \in Int /\ Len(chan[t]) \in Nat
  <2>1. stage = t /\ t # "recv"
    BY DEF RunSend, Sink
  <2>2. hand = Taken
    BY <2>1 DEF Conserved, InOrder
  <2>3. hand \in 0..MaxMsgs /\ hand # 0
    BY <2>1 DEF Conserved, TypeOK, TypeQueues
  <2>4. chan[t] \in Seq(Msg)
    BY DEF Conserved, TypeOK, TypeQueues
  <2> QED BY <2>1, <2>2, <2>3, <2>4, ConstantFacts DEF Msg
<1>2. Taken' = Taken
  BY DEF Taken, RunSend, handlerVars
<1>3. chan'[t] = Append(chan[t], hand) /\ \A s \in Sink \ {t} : chan'[s] = chan[s]
  BY DEF RunSend, Conserved, TypeOK, TypeQueues
<1>4. /\ Len(chan'[t]) = Len(chan[t]) + 1
      /\ \A i \in 1..Len(chan[t]) : chan'[t][i] = chan[t][i]
      /\ chan'[t][Len(chan[t]) + 1] = Taken
  BY <1>1, <1>3, AppendFacts
<1>5. Sent(t)' = Sent(t) + 1 /\ Sent(t) = Taken - 1
  BY <1>1, <1>2 DEF Sent, RunSend, Rank, Sink
<1>6. ASSUME NEW s \in Sink \ {t} PROVE Sent(s)' = Sent(s)
  BY <1>1, <1>2 DEF Sent, RunSend, Rank, Sink
<1>7. ASSUME NEW s \in Sink PROVE Got(s)' = Got(s)
  <2>1. CASE s = t
    BY <1>1, <1>4, <1>5, <2>1, SMTT(30) DEF Got
  <2>2. CASE s # t
    BY <1>3, <1>6, <2>2 DEF Got
  <2> QED BY <2>1, <2>2
<1>8. \A i \in 1..Len(chan'[t]) : chan'[t][i] = Got(t)' + i
  <2>1. Got(t)' = Got(t) /\ Got(t) = Taken - 1 - Len(chan[t])
    BY <1>5, <1>7 DEF Got
  <2>2. \A i \in 1..Len(chan[t]) : chan[t][i] = Got(t) + i
    BY DEF Conserved, InOrder
  <2>3. ASSUME NEW i \in 1..Len(chan'[t]) PROVE chan'[t][i] = Got(t) + i
    <3>1. CASE i \in 1..Len(chan[t])
      BY <1>4, <2>2, <3>1
    <3>2. CASE i = Len(chan[t]) + 1
      BY <1>1, <1>4, <2>1, <3>2, SMTT(30)
    <3> QED BY <1>1, <1>4, <3>1, <3>2
  <2> QED BY <2>1, <2>3
<1>9. ASSUME NEW s \in Sink
      PROVE Got(s)' \in Nat /\ \A i \in 1..Len(chan'[s]) : chan'[s][i] = Got(s)' + i
  BY <1>3, <1>7, <1>8, Zenon DEF Conserved, InOrder
<1>10. hand' = IF stage' = "recv" THEN 0 ELSE Taken'
  BY <1>1, <1>2 DEF RunSend, Sink
<1> QED
  BY <1>2, <1>7, <1>9, <1>10, Zenon DEF Conserved, InOrder, RunSend, handlerVars

\* A worker of sink t receives the message after the last one its pool got.
LEMMA ReceiveConserves ==
    ASSUME Conserved, NEW t \in Sink, chan[t] # <<>>,
           chan' = [chan EXCEPT ![t] = Tail(@)],
           UNCHANGED <<admitted, ingress, stage, hand>>
    PROVE  /\ InOrder' /\ Head(chan[t]) = Got(t) + 1 /\ Got(t) + 1 \in Msg
           /\ Got(t)' = Got(t) + 1
           /\ \A s \in Sink \ {t} : Got(s)' = Got(s)
<1> DEFINE q == chan[t]
<1>1. q \in Seq(Msg) /\ q # <<>> /\ Taken \in Int
  BY ConstantFacts DEF Conserved, TypeOK, TypeQueues, TypeHandler, Taken
<1> HIDE DEF q
<1>2. /\ Len(q) \in Nat \ {0} /\ Len(Tail(q)) = Len(q) - 1
      /\ Head(q) = q[1] /\ Head(q) \in Msg
      /\ \A i \in 1..Len(Tail(q)) : Tail(q)[i] = q[i + 1]
  BY <1>1, TailFacts
<1>3. chan'[t] = Tail(q) /\ \A s \in Sink \ {t} : chan'[s] = chan[s]
  BY DEF q, Conserved, TypeOK, TypeQueues
<1>4. Taken' = Taken /\ \A s \in Sink : Sent(s)' = Sent(s)
  BY DEF Taken, Sent
<1>5. \A s \in Sink : Sent(s) \in Int
  BY <1>1 DEF Sent
<1>6. Got(t)' = Got(t) + 1 /\ Got(t) = Sent(t) - Len(q)
  <2>1. Got(t) = Sent(t) - Len(q)
    BY DEF Got, q
  <2>2. Got(t)' = Sent(t) - Len(Tail(q))
    BY <1>3, <1>4, Zenon DEF Got
  <2> QED BY <1>2, <1>5, <2>1, <2>2
<1>7. \A s \in Sink \ {t} : Got(s)' = Got(s)
  BY <1>3, <1>4 DEF Got
<1>8. Got(t) \in Nat /\ \A i \in 1..Len(q) : q[i] = Got(t) + i
  BY DEF Conserved, InOrder, q
<1>9. \A i \in 1..Len(chan'[t]) : chan'[t][i] = Got(t)' + i
  <2> SUFFICES ASSUME NEW i \in 1..Len(Tail(q)) PROVE Tail(q)[i] = Got(t)' + i
    BY <1>3, ZenonT(30)
  <2>1. i \in Int /\ i + 1 \in 1..Len(q) /\ Tail(q)[i] = q[i + 1]
    BY <1>2
  <2>2. q[i + 1] = Got(t) + (i + 1)
    BY <1>8, <2>1
  <2> QED BY <1>6, <1>8, <2>1, <2>2
<1>10. Head(q) = Got(t) + 1
  BY <1>2, <1>8
<1>11. InOrder'
  BY <1>3, <1>4, <1>6, <1>7, <1>8, <1>9 DEF Conserved, InOrder
<1> QED
  BY <1>2, <1>6, <1>7, <1>10, <1>11 DEF q

\* The ways a step can move messages of a pool, each of them conserving.
queueVars == <<admitted, ingress, stage, hand, chan>>

\* A step that touches neither queues, batches nor settled messages conserves.
LEMMA FrameHolds ==
    ASSUME Conserved, UNCHANGED <<queueVars, batch, settled>>
    PROVE  InOrder' /\ PoolsHold'
<1>1. Taken' = Taken /\ \A s \in Sink : Got(s)' = Got(s)
  BY SMTT(30) DEF Taken, Got, Sent, queueVars
<1>2. InOrder'
  BY <1>1, SMTT(30) DEF Conserved, InOrder, queueVars
<1>3. PoolsHold'
  BY <1>1, ZenonT(30) DEF Conserved, PoolsHold, HeldBy
<1> QED BY <1>2, <1>3

\* A step of the handler or of Run leaves what the pools hold alone.
LEMMA QueueHolds ==
    ASSUME Conserved, \A s \in Sink : Got(s)' = Got(s), UNCHANGED <<batch, settled>>
    PROVE  PoolsHold'
  BY ZenonT(30) DEF Conserved, PoolsHold, HeldBy

\* A worker that receives a message and keeps it conserves.
LEMMA TakeHolds ==
    ASSUME Conserved, NEW t \in Sink, NEW w \in Pool[t], chan[t] # <<>>,
           chan' = [chan EXCEPT ![t] = Tail(@)],
           UNCHANGED <<admitted, ingress, stage, hand>>,
           batch' = [batch EXCEPT ![w] = Append(@, Head(chan[t]))],
           settled' = settled
    PROVE  InOrder' /\ PoolsHold'
<1>1. /\ InOrder' /\ Head(chan[t]) = Got(t) + 1 /\ Got(t) + 1 \in Msg
      /\ Got(t)' = Got(t) + 1 /\ \A s \in Sink \ {t} : Got(s)' = Got(s)
  BY ReceiveConserves, ZenonT(30)
<1>2. batch \in [Worker -> Seq(Msg)] /\ Got(t) \in Nat
  BY DEF Conserved, TypeOK, TypeWorkers, InOrder
<1>3. batch' = [batch EXCEPT ![w] = Append(@, Got(t) + 1)]
  BY <1>1, Zenon
<1>4. HeldBy(t, batch', settled[t], Got(t) + 1)
  <2>1. HeldBy(t, batch, settled[t], Got(t))
    BY DEF Conserved, PoolsHold
  <2>2. HeldBy(t, [batch EXCEPT ![w] = Append(@, Got(t) + 1)], settled[t], Got(t) + 1)
    BY <1>1, <1>2, <2>1, PoolTake, Zenon
  <2> QED BY <1>3, <2>2, Zenon
<1>5. ASSUME NEW s \in Sink, s # t PROVE HeldBy(s, batch', settled[s], Got(s))
  <2>1. \A x \in Pool[s] : batch'[x] = batch[x]
    BY <1>2, <1>5, PoolFacts
  <2>2. HeldBy(s, batch, settled[s], Got(s))
    BY ZenonT(30) DEF Conserved, PoolsHold
  <2> QED BY <2>1, <2>2, PoolFrame, ZenonT(30)
<1>6. ASSUME NEW s \in Sink PROVE HeldBy(s, batch, settled[s], Got(s))'
  <2>1. CASE s = t
    BY <1>1, <1>4, <2>1, ZenonT(30) DEF HeldBy
  <2>2. CASE s # t
    BY <1>1, <1>5, <2>2, Zenon DEF HeldBy
  <2> QED BY <2>1, <2>2, ZenonT(30)
<1> QED BY <1>1, <1>6, Zenon DEF PoolsHold

\* A worker that receives a message and settles its batch at once conserves.
LEMMA TakeSettleHolds ==
    ASSUME Conserved, NEW t \in Sink, NEW w \in Pool[t], chan[t] # <<>>,
           chan' = [chan EXCEPT ![t] = Tail(@)],
           UNCHANGED <<admitted, ingress, stage, hand>>,
           batch' = [batch EXCEPT ![w] = <<>>],
           settled' = [settled EXCEPT
                         ![t] = @ \cup Elems(Append(batch[w], Head(chan[t])))]
    PROVE  InOrder' /\ PoolsHold'
<1>1. /\ InOrder' /\ Head(chan[t]) = Got(t) + 1 /\ Got(t) + 1 \in Msg
      /\ Got(t)' = Got(t) + 1 /\ \A s \in Sink \ {t} : Got(s)' = Got(s)
  BY ReceiveConserves, Zenon
<1>2. /\ batch \in [Worker -> Seq(Msg)] /\ Got(t) \in Nat /\ Got(t) + 1 \in Nat
      /\ w \in Worker /\ settled \in [Sink -> SUBSET Msg]
  BY PoolFacts DEF Conserved, TypeOK, TypeWorkers, TypeStores, InOrder
<1> DEFINE held == Append(batch[w], Got(t) + 1)
           mid == [batch EXCEPT ![w] = held]
<1>3. /\ held \in Seq(Msg) /\ mid \in [Worker -> Seq(Msg)] /\ mid[w] = held
      /\ batch' = [mid EXCEPT ![w] = <<>>]
  <2>1. held \in Seq(Msg)
    BY <1>1, <1>2, SMTT(30)
  <2> HIDE DEF held
  <2> QED BY <1>2, <2>1
<1>4. HeldBy(t, mid, settled[t], Got(t) + 1)
  <2>1. HeldBy(t, batch, settled[t], Got(t))
    BY DEF Conserved, PoolsHold
  <2> QED BY <1>1, <1>2, <2>1, PoolTake, Zenon
<1>5. HeldBy(t, batch', settled[t] \cup Elems(held), Got(t) + 1)
  <2> HIDE DEF held, mid
  <2>1. HeldBy(t, [mid EXCEPT ![w] = <<>>], settled[t] \cup Elems(mid[w]), Got(t) + 1)
    BY <1>2, <1>3, <1>4, PoolSettle, Zenon
  <2> QED BY <1>3, <2>1, Zenon
<1>6. /\ settled'[t] = settled[t] \cup Elems(held)
      /\ \A s \in Sink \ {t} : settled'[s] = settled[s]
  BY <1>1, <1>2
<1> HIDE DEF held, mid
<1>7. ASSUME NEW s \in Sink, s # t PROVE HeldBy(s, batch', settled[s], Got(s))
  <2>1. \A x \in Pool[s] : batch'[x] = batch[x]
    BY <1>2, <1>7, PoolFacts
  <2>2. HeldBy(s, batch, settled[s], Got(s))
    BY DEF Conserved, PoolsHold
  <2> QED BY <2>1, <2>2, PoolFrame, ZenonT(30)
<1>8. ASSUME NEW s \in Sink PROVE HeldBy(s, batch, settled[s], Got(s))'
  <2>1. CASE s = t
    BY <1>1, <1>5, <1>6, <2>1, ZenonT(30) DEF HeldBy
  <2>2. CASE s # t
    BY <1>1, <1>6, <1>7, <2>2, Zenon DEF HeldBy
  <2> QED BY <2>1, <2>2, ZenonT(30)
<1> QED BY <1>1, <1>8, Zenon DEF PoolsHold

\* A worker that settles its batch conserves.
LEMMA SettleHolds ==
    ASSUME Conserved, NEW t \in Sink, NEW w \in Pool[t], UNCHANGED queueVars,
           batch' = [batch EXCEPT ![w] = <<>>],
           settled' = [settled EXCEPT ![t] = @ \cup Elems(batch[w])]
    PROVE  InOrder' /\ PoolsHold'
<1>1. Taken' = Taken /\ \A s \in Sink : Got(s)' = Got(s)
  BY DEF Taken, Got, Sent, queueVars
<1>2. InOrder'
  BY <1>1, SMTT(30) DEF Conserved, InOrder, queueVars
<1>3. /\ batch \in [Worker -> Seq(Msg)] /\ Got(t) \in Nat
      /\ w \in Worker /\ settled \in [Sink -> SUBSET Msg]
  BY PoolFacts DEF Conserved, TypeOK, TypeWorkers, TypeStores, InOrder
<1>4. HeldBy(t, batch, settled[t], Got(t))
  BY SMTT(30) DEF Conserved, PoolsHold
<1>5. HeldBy(t, batch', settled'[t], Got(t))
  <2>1. settled'[t] = settled[t] \cup Elems(batch[w])
    BY <1>3
  <2>2. HeldBy(t, [batch EXCEPT ![w] = <<>>], settled[t] \cup Elems(batch[w]), Got(t))
    BY <1>3, <1>4, PoolSettle, Zenon
  <2> QED BY <2>1, <2>2, Zenon
<1>6. ASSUME NEW s \in Sink, s # t
      PROVE  settled'[s] = settled[s] /\ HeldBy(s, batch', settled[s], Got(s))
  <2>1. \A x \in Pool[s] : batch'[x] = batch[x]
    BY <1>3, <1>6, PoolFacts
  <2>2. HeldBy(s, batch, settled[s], Got(s))
    BY DEF Conserved, PoolsHold
  <2>3. settled'[s] = settled[s]
    BY <1>3, <1>6, SMTT(30)
  <2> QED BY <2>1, <2>2, <2>3, PoolFrame
<1>7. ASSUME NEW s \in Sink PROVE HeldBy(s, batch, settled[s], Got(s))'
  <2>1. CASE s = t
    BY <1>1, <1>5, <2>1, ZenonT(30) DEF HeldBy
  <2>2. CASE s # t
    BY <1>1, <1>6, <2>2, ZenonT(30) DEF HeldBy
  <2> QED BY <2>1, <2>2, SMTT(30)
<1> QED BY <1>2, <1>7 DEF PoolsHold

\* Conserved is inductive.
LEMMA DBWriterConserves ==
    ASSUME Conserved, NEW w \in DBWriter, DBWriterStep(w)
    PROVE  Conserved'
<1> w \in Pool["db"] /\ "db" \in Sink
  BY PoolFacts DEF Sink
<1>1. TypeOK'
  BY DBWriterType DEF Conserved
<1>2. IdleHoldsNothing'
  <2>1. \A x \in Worker \ {w} : batch'[x] = batch[x] /\ wpc'[x] = wpc[x]
    BY ZenonT(30) DEF DBWriterStep, DBReceive, DBTick, DBDone, FlushOk, FlushRetry, FlushFail,
       FlushReturns, Conserved, TypeOK, TypeWorkers
  <2>2. AlertEvaluator \subseteq Worker \ {w}
    BY PoolsAssumption DEF Worker
  <2> QED BY <2>1, <2>2, SMTT(30) DEF Conserved, IdleHoldsNothing
<1>3. CASE DBReceive(w)
  <2>1. InOrder' /\ PoolsHold'
    BY <1>3, TakeHolds, ZenonT(30) DEF DBReceive, handlerVars, dispatchVars
  <2> QED BY <1>1, <1>2, <2>1, SMTT(30) DEF Conserved
<1>4. CASE DBTick(w) \/ DBDone(w) \/ FlushRetry(w)
  <2>1. InOrder' /\ PoolsHold'
    BY <1>4, FrameHolds DEF DBTick, DBDone, FlushRetry, handlerVars, dispatchVars, queueVars
  <2> QED BY <1>1, <1>2, <2>1 DEF Conserved
<1>5. CASE FlushOk(w) \/ FlushFail(w)
  <2>1. InOrder' /\ PoolsHold'
    BY <1>5, SettleHolds, Zenon
       DEF FlushOk, FlushFail, FlushReturns, handlerVars, dispatchVars, queueVars
  <2> QED BY <1>1, <1>2, <2>1 DEF Conserved
<1> QED
  BY <1>3, <1>4, <1>5 DEF DBWriterStep

\* Every step of a state writer conserves.
LEMMA StateWriterConserves ==
    ASSUME Conserved, NEW w \in StateWriter, StateWriterStep(w)
    PROVE  Conserved'
<1> w \in Pool["state"] /\ "state" \in Sink
  BY PoolFacts DEF Sink
<1>1. TypeOK'
  BY StateWriterType DEF Conserved
<1>2. IdleHoldsNothing'
  <2>0. batch \in [Worker -> Seq(Msg)] /\ DOMAIN wpc = Worker
    BY SMTT(30) DEF Conserved, TypeOK, TypeWorkers
  <2>1. \A x \in Worker \ {w} : batch'[x] = batch[x] /\ wpc'[x] = wpc[x]
    <3>1. CASE StateReceive(w)
      BY <2>0, <3>1, ZenonT(30) DEF StateReceive, BeginExec, DropBatch, FlushBatchReturns
    <3>2. CASE StateTick(w)
      BY <2>0, <3>2, SMTT(30) DEF StateTick, BeginExec, DropBatch, FlushBatchReturns
    <3>3. CASE StateDone(w) \/ ExecOk(w) \/ ExecFail(w)
      BY <2>0, <3>3, ZenonT(30) DEF StateDone, ExecOk, ExecFail, DropBatch, FlushBatchReturns
    <3>4. CASE PipelineStateUpdate(w) \/ ExecRetry(w)
      BY <3>4 DEF PipelineStateUpdate, ExecRetry
    <3> QED BY <3>1, <3>2, <3>3, <3>4, ZenonT(30) DEF StateWriterStep
  <2>2. AlertEvaluator \subseteq Worker \ {w}
    BY PoolsAssumption DEF Worker
  <2> QED BY <2>1, <2>2, SMTT(30) DEF Conserved, IdleHoldsNothing
<1>3. CASE StateReceive(w)
  <2> DEFINE held == Append(batch[w], Head(chan["state"]))
  <2>1. /\ chan["state"] # <<>> /\ chan' = [chan EXCEPT !["state"] = Tail(@)]
        /\ UNCHANGED <<admitted, ingress, stage, hand>>
    BY <1>3, Zenon DEF StateReceive, handlerVars, dispatchVars
  <2>2. CASE Len(held) >= StateBatchSize /\ cancelled
    <3>1. /\ batch' = [batch EXCEPT ![w] = <<>>]
          /\ settled' = [settled EXCEPT !["state"] = @ \cup Elems(held)]
      BY <1>3, <2>2, SMTT(30) DEF StateReceive, BeginExec, DropBatch, FlushBatchReturns
    <3>2. InOrder' /\ PoolsHold'
      BY <2>1, <3>1, TakeSettleHolds, Zenon
    <3> QED BY <1>1, <1>2, <3>2, SMTT(30) DEF Conserved
  <2>3. CASE ~(Len(held) >= StateBatchSize /\ cancelled)
    <3>1. batch' = [batch EXCEPT ![w] = held] /\ settled' = settled
      BY <1>3, <2>3 DEF StateReceive, BeginExec
    <3>2. InOrder' /\ PoolsHold'
      BY <2>1, <3>1, TakeHolds, ZenonT(30)
    <3> QED BY <1>1, <1>2, <3>2 DEF Conserved
  <2> QED BY <2>2, <2>3, SMTT(30)
<1>4. CASE StateTick(w)
  <2>1. UNCHANGED queueVars
    BY <1>4 DEF StateTick, handlerVars, dispatchVars, queueVars
  <2>2. CASE cancelled
    <3>1. InOrder' /\ PoolsHold'
      BY <1>4, <2>1, <2>2, SettleHolds DEF StateTick, BeginExec, DropBatch, FlushBatchReturns
    <3> QED BY <1>1, <1>2, <3>1 DEF Conserved
  <2>3. CASE ~cancelled
    <3>1. batch' = batch /\ settled' = settled
      BY <1>4, <2>3, ZenonT(30) DEF StateTick, BeginExec, Conserved, TypeOK, TypeWorkers
    <3>2. InOrder' /\ PoolsHold'
      BY <2>1, <3>1, FrameHolds
    <3> QED BY <1>1, <1>2, <3>2 DEF Conserved
  <2> QED BY <2>2, <2>3
<1>5. CASE StateDone(w) \/ ExecOk(w) \/ ExecFail(w)
  <2>1. InOrder' /\ PoolsHold'
    BY <1>5, SettleHolds
       DEF StateDone, ExecOk, ExecFail, DropBatch, FlushBatchReturns, handlerVars, dispatchVars,
           queueVars
  <2> QED BY <1>1, <1>2, <2>1 DEF Conserved
<1>6. CASE PipelineStateUpdate(w) \/ ExecRetry(w)
  <2>1. InOrder' /\ PoolsHold'
    BY <1>6, FrameHolds
       DEF PipelineStateUpdate, ExecRetry, handlerVars, dispatchVars, queueVars
  <2> QED BY <1>1, <1>2, <2>1 DEF Conserved
<1> QED
  BY <1>3, <1>4, <1>5, <1>6 DEF StateWriterStep

\* Every step of an alert evaluator conserves.
LEMMA AlertEvaluatorConserves ==
    ASSUME Conserved, NEW w \in AlertEvaluator, AlertEvaluatorStep(w)
    PROVE  Conserved'
<1> w \in Pool["alert"] /\ "alert" \in Sink
  BY PoolFacts DEF Sink
<1>0. batch \in [Worker -> Seq(Msg)] /\ DOMAIN wpc = Worker /\ AlertEvaluator \subseteq Worker
  BY DEF Conserved, TypeOK, TypeWorkers, Worker
<1>1. TypeOK'
  BY AlertEvaluatorType DEF Conserved
<1>2. CASE AlertReceive(w)
  <2> DEFINE h == Head(chan["alert"])
  <2>1. batch[w] = <<>>
    BY <1>2 DEF AlertReceive, Conserved, IdleHoldsNothing
  <2>2. batch' = [batch EXCEPT ![w] = Append(@, h)]
    BY <1>0, <1>2, <2>1, SMTT(30) DEF AlertReceive
  <2>3. InOrder' /\ PoolsHold'
    BY <1>2, <2>2, TakeHolds, Zenon DEF AlertReceive, handlerVars, dispatchVars
  <2>4. IdleHoldsNothing'
    BY <1>0, <1>2 DEF AlertReceive, Conserved, IdleHoldsNothing
  <2> QED BY <1>1, <2>3, <2>4, SMTT(30) DEF Conserved
<1>3. CASE Evaluated(w)
  <2>1. InOrder' /\ PoolsHold'
    BY <1>3, SettleHolds, ZenonT(30) DEF Evaluated, handlerVars, dispatchVars, queueVars
  <2>2. IdleHoldsNothing'
    BY <1>0, <1>3 DEF Evaluated, Conserved, IdleHoldsNothing
  <2> QED BY <1>1, <2>1, <2>2 DEF Conserved
<1>4. CASE AlertDone(w)
  <2>1. InOrder' /\ PoolsHold'
    BY <1>4, FrameHolds DEF AlertDone, handlerVars, dispatchVars, queueVars
  <2>2. IdleHoldsNothing'
    BY <1>0, <1>4 DEF AlertDone, Conserved, IdleHoldsNothing
  <2> QED BY <1>1, <2>1, <2>2 DEF Conserved
<1> QED
  BY <1>2, <1>3, <1>4 DEF AlertEvaluatorStep

=============================================================================
