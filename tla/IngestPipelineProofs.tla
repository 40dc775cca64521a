------------------------ MODULE IngestPipelineProofs ------------------------
(***************************************************************************)
(* Theorems about IngestPipeline, for every size of channels, batches and  *)
(* worker pools: the conservation of messages, the rows of a message, the  *)
(* contract Delivery, and the state of a vehicle.                          *)
(***************************************************************************)
EXTENDS IngestPipelineLemmas, FiniteSetTheorems

-----------------------------------------------------------------------------
(* Conservation                                                            *)

\* The inductive invariant is kept by every step.
LEMMA ConservedStep == ASSUME Conserved, [Next]_vars PROVE Conserved'
<1>0. TypeOK'
  BY TypeStep DEF Conserved
<1>1. ASSUME UNCHANGED <<queueVars, batch, settled, wpc>> PROVE Conserved'
  <2>1. InOrder' /\ PoolsHold'
    BY <1>1, FrameHolds
  <2>2. IdleHoldsNothing'
    BY <1>1 DEF Conserved, IdleHoldsNothing
  <2> QED BY <1>0, <2>1, <2>2 DEF Conserved
<1>2. ASSUME InOrder', \A s \in Sink : Got(s)' = Got(s), UNCHANGED <<batch, settled, wpc>>
      PROVE  Conserved'
  <2>1. PoolsHold'
    BY <1>2, QueueHolds
  <2>2. IdleHoldsNothing'
    BY <1>2 DEF Conserved, IdleHoldsNothing
  <2> QED BY <1>0, <1>2, <2>1, <2>2 DEF Conserved
<1>3. CASE Admit
  BY <1>2, <1>3, AdmitConserves DEF Admit, workerVars
<1>4. CASE RunReceive
  BY <1>2, <1>4, RunReceiveConserves DEF RunReceive, workerVars
<1>5. ASSUME NEW s \in Sink, RunSend(s) PROVE Conserved'
  BY <1>2, <1>5, RunSendConserves, Zenon DEF RunSend, workerVars
<1>6. CASE Reject \/ CountReceived \/ RunStop
  BY <1>1, <1>6 DEF Reject, CountReceived, RunStop, handlerVars, dispatchVars, workerVars,
     queueVars
<1>7. ASSUME NEW w \in DBWriter, DBWriterStep(w) PROVE Conserved'
  BY <1>7, DBWriterConserves
<1>8. ASSUME NEW w \in StateWriter, StateWriterStep(w) PROVE Conserved'
  BY <1>8, StateWriterConserves
<1>9. ASSUME NEW w \in AlertEvaluator, AlertEvaluatorStep(w) PROVE Conserved'
  BY <1>9, AlertEvaluatorConserves
<1>10. ASSUME NEW v \in Vehicle, ExpireState(v) PROVE Conserved'
  BY <1>1, <1>10 DEF ExpireState, handlerVars, dispatchVars, queueVars
<1>13. ASSUME NEW m \in Msg, LateUpdate(m) PROVE Conserved'
  BY <1>1, <1>13 DEF LateUpdate, handlerVars, dispatchVars, queueVars
<1>11. CASE MainProc
  BY <1>1, <1>11 DEF MainProc, Signal, ShutdownBegins, ShutdownReturns, ShutdownExpires,
     Exit, MainStep, handlerVars, dispatchVars, workerVars, queueVars
<1>12. CASE UNCHANGED vars
  BY <1>1, <1>12 DEF vars, handlerVars, dispatchVars, workerVars, queueVars
<1> QED
  BY <1>3, <1>4, <1>5, <1>6, <1>7, <1>8, <1>9, <1>10, <1>11, <1>12, <1>13
     DEF Next, HandlerStep, DispatcherStep

\* The inductive invariant holds initially.
LEMMA ConservedInit == Init => Conserved
<1> SUFFICES ASSUME Init PROVE Conserved
  OBVIOUS
<1>1. TypeOK
  BY TypeInit
<1>2. Taken = 0 /\ \A s \in Sink : Got(s) = 0
  <2>1. Rank["recv"] = 4 /\ \A s \in Sink : Rank[s] \in 1..3
    BY DEF Rank, Sink
  <2>0. admitted = 0 /\ ingress = <<>>
    BY DEF Init
  <2>2. Taken = 0
    <3>1. Len(ingress) = 0
      BY <2>0
    <3>2. Taken = 0 - 0
      BY <2>0, <3>1, Zenon DEF Taken
    <3> QED BY <3>2
  <2>3. \A s \in Sink : Sent(s) = 0
    BY <2>1, <2>2 DEF Init, Sent
  <2>4. \A s \in Sink : chan[s] = <<>>
    BY DEF Init
  <2> QED BY <2>2, <2>3, <2>4 DEF Got
<1>3. InOrder
  BY <1>2, SMTT(30) DEF Init, InOrder
<1>4. PoolsHold
  <2> SUFFICES ASSUME NEW s \in Sink PROVE HeldBy(s, batch, settled[s], Got(s))
    BY Zenon DEF PoolsHold
  <2>1. settled[s] = {} /\ Got(s) = 0
    BY <1>2 DEF Init
  <2>2. \A w \in Pool[s] : batch[w] = <<>>
    BY PoolFacts DEF Init
  <2>3. \A w \in Pool[s] : [x \in Pool[s] |-> Len(batch[x])][w] = 0
    BY <2>2
  <2>4. 1..0 = {}
    OBVIOUS
  <2>5. \A w \in Pool[s] : 1..[x \in Pool[s] |-> Len(batch[x])][w] = {}
    BY <2>3, <2>4, ZenonT(30)
  <2> QED BY <2>1, <2>4, <2>5, Zenon DEF HeldBy, Held
<1>5. IdleHoldsNothing
  BY DEF Init, IdleHoldsNothing, Worker
<1> QED
  BY <1>1, <1>3, <1>4, <1>5 DEF Conserved

\* Held for the batches as they are.
LEMMA HeldFacts ==
    ASSUME NEW s \in Sink, NEW bt, NEW S, NEW g, HeldBy(s, bt, S, g)
    PROVE  /\ S \subseteq 1..g
           /\ \A w \in Pool[s] : \A i \in 1..Len(bt[w]) : bt[w][i] \in 1..g /\ bt[w][i] \notin S
           /\ \A w1, w2 \in Pool[s] : \A i \in 1..Len(bt[w1]), j \in 1..Len(bt[w2]) :
                 bt[w1][i] = bt[w2][j] => w1 = w2 /\ i = j
           /\ \A k \in 1..g : \/ k \in S
                              \/ \E w \in Pool[s] : \E i \in 1..Len(bt[w]) : bt[w][i] = k
<1> DEFINE l == [w \in Pool[s] |-> Len(bt[w])]
<1>1. \A w \in Pool[s] : l[w] = Len(bt[w])
  OBVIOUS
<1>2. Held(Pool[s], bt, l, S, g)
  BY DEF HeldBy
<1> HIDE DEF l
<1>3. /\ S \subseteq 1..g
      /\ \A w \in Pool[s] : \A i \in 1..l[w] : bt[w][i] \in 1..g /\ bt[w][i] \notin S
  BY <1>2, SMTT(30) DEF Held
<1>4. \A w1, w2 \in Pool[s] : \A i \in 1..l[w1], j \in 1..l[w2] :
         bt[w1][i] = bt[w2][j] => w1 = w2 /\ i = j
  BY <1>2, SMTT(30) DEF Held
<1>5. \A k \in 1..g : k \in S \/ \E w \in Pool[s] : \E i \in 1..l[w] : bt[w][i] = k
  BY <1>2 DEF Held
<1> QED
  BY <1>1, <1>3, <1>4, <1>5

\* The intervals the invariant assigns to the queues leave a message one place.
LEMMA ConservedPlaces ==
    ASSUME Conserved, NEW s \in Sink, NEW m \in 1..admitted
    PROVE  \E p \in Places(s, m) : Places(s, m) = {p}
<1> DEFINE A == {<<"ingress", i>> : i \in {j \in 1..Len(ingress) : ingress[j] = m}}
           B == {<<"hand", i>> : i \in {j \in {0} : hand = m /\ Rank[stage] <= Rank[s]}}
           C == {<<"chan", i>> : i \in {j \in 1..Len(chan[s]) : chan[s][j] = m}}
           D == UNION {{<<w, i>> : i \in {j \in 1..Len(batch[w]) : batch[w][j] = m}} :
                          w \in Pool[s]}
           E == {<<"settled", i>> : i \in {j \in {0} : m \in settled[s]}}
           g == Got(s)
           c == Len(chan[s])
           n == Len(ingress)
<1>0. /\ n \in Nat /\ c \in Nat /\ g \in Nat /\ Taken \in Nat /\ m \in Nat
      /\ Taken = admitted - n /\ admitted \in Nat
  BY ConstantFacts DEF Conserved, TypeOK, TypeHandler, TypeQueues, InOrder, Taken
<1>1. /\ Rank[stage] <= Rank[s] => hand = Taken /\ g + c = Taken - 1
      /\ ~(Rank[stage] <= Rank[s]) => g + c = Taken
  <2>1. Rank[stage] <= Rank[s] => stage # "recv"
    BY DEF Rank, Sink
  <2>2. Rank[stage] <= Rank[s] => hand = Taken
    BY <2>1 DEF Conserved, InOrder
  <2>3. Sent(s) \in Int /\ g = Sent(s) - c
    BY <1>0 DEF Sent, Got
  <2> QED BY <1>0, <2>2, <2>3 DEF Sent
<1>2. /\ \A i \in 1..n : ingress[i] = Taken + i
      /\ \A i \in 1..c : chan[s][i] = g + i
  BY SMTT(30) DEF Conserved, InOrder
<1>3. /\ settled[s] \subseteq 1..g
      /\ \A w \in Pool[s] : \A i \in 1..Len(batch[w]) :
            batch[w][i] \in 1..g /\ batch[w][i] \notin settled[s]
      /\ \A w1, w2 \in Pool[s] : \A i \in 1..Len(batch[w1]), j \in 1..Len(batch[w2]) :
            batch[w1][i] = batch[w2][j] => w1 = w2 /\ i = j
      /\ \A k \in 1..g : \/ k \in settled[s]
                         \/ \E w \in Pool[s] : \E i \in 1..Len(batch[w]) : batch[w][i] = k
  BY HeldFacts DEF Conserved, PoolsHold
<1>4. Places(s, m) = A \cup B \cup C \cup D \cup E
  BY DEF Places
<1>5. m <= Taken => A = {}
  BY <1>0, <1>2
<1>6. ~(Rank[stage] <= Rank[s] /\ m = Taken) => B = {}
  BY <1>1
<1>7. ~(g < m /\ m <= g + c) => C = {}
  <2>1. ASSUME NEW j \in 1..c, chan[s][j] = m PROVE g < m /\ m <= g + c
    <3>1. m = g + j
      BY <1>2, <2>1
    <3> QED BY <1>0, <3>1
  <2> QED BY <2>1
<1>8. m > g => D = {} /\ E = {}
  <2> SUFFICES ASSUME m > g PROVE D = {} /\ E = {}
    OBVIOUS
  <2>1. m \notin 1..g
    BY <1>0
  <2>2. m \notin settled[s]
    BY <1>3, <2>1
  <2>3. \A w \in Pool[s] : \A i \in 1..Len(batch[w]) : batch[w][i] # m
    BY <1>3, <2>1, SMTT(30)
  <2> QED BY <2>2, <2>3
<1> HIDE DEF g, c, n
<1>9. CASE m > Taken
  <2>1. A = {<<"ingress", m - Taken>>}
    <3>1. m - Taken \in 1..n /\ ingress[m - Taken] = m
      BY <1>0, <1>2, <1>9
    <3>2. \A j \in 1..n : ingress[j] = m => j = m - Taken
      BY <1>0, <1>2
    <3>3. {j \in 1..n : ingress[j] = m} = {m - Taken}
      BY <3>1, <3>2
    <3> QED BY <3>3 DEF n
  <2>2. B = {} /\ C = {} /\ D = {} /\ E = {}
    BY <1>0, <1>1, <1>6, <1>7, <1>8, <1>9
  <2> QED BY <1>4, <2>1, <2>2, ZenonT(30)
<1>10. CASE m <= Taken /\ m > g + c
  <2>1. Rank[stage] <= Rank[s] /\ m = Taken
    BY <1>0, <1>1, <1>10
  <2>2. B = {<<"hand", 0>>}
    BY <1>1, <2>1
  <2>3. A = {} /\ C = {} /\ D = {} /\ E = {}
    <3>1. m > g /\ ~(g < m /\ m <= g + c)
      BY <1>0, <1>10
    <3> QED BY <1>5, <1>7, <1>8, <1>10, <3>1, Zenon
  <2> QED BY <1>4, <2>2, <2>3, Zenon
<1>11. CASE g < m /\ m <= g + c
  <2>1. C = {<<"chan", m - g>>}
    <3>1. m - g \in 1..c /\ chan[s][m - g] = m
      BY <1>0, <1>2, <1>11
    <3>2. \A j \in 1..c : chan[s][j] = m => j = m - g
      BY <1>0, <1>2
    <3>3. {j \in 1..c : chan[s][j] = m} = {m - g}
      BY <3>1, <3>2
    <3> QED BY <3>3 DEF c
  <2>2. A = {} /\ B = {} /\ D = {} /\ E = {}
    BY <1>0, <1>1, <1>5, <1>6, <1>8, <1>11, SMTT(30)
  <2> QED BY <1>4, <2>1, <2>2, Zenon
<1>12. CASE m <= g
  <2>1. A = {} /\ B = {} /\ C = {}
    BY <1>0, <1>1, <1>5, <1>6, <1>7, <1>12, SMTT(30)
  <2>2. CASE m \in settled[s]
    <3>1. E = {<<"settled", 0>>}
      BY <2>2
    <3>2. D = {}
      <4>1. \A w \in Pool[s] : \A i \in 1..Len(batch[w]) : batch[w][i] # m
        BY <1>3, <2>2
      <4> QED BY <4>1
    <3> QED BY <1>4, <2>1, <3>1, <3>2, Zenon
  <2>3. CASE m \notin settled[s]
    <3>1. E = {}
      BY <2>3
    <3>2. PICK w \in Pool[s] : \E i \in 1..Len(batch[w]) : batch[w][i] = m
      BY <1>0, <1>3, <1>12, <2>3
    <3>3. PICK i \in 1..Len(batch[w]) : batch[w][i] = m
      BY <3>2
    <3>4. \A x \in Pool[s] : \A j \in 1..Len(batch[x]) : batch[x][j] = m => x = w /\ j = i
      BY <1>3, <3>3
    <3>5. D = {<<w, i>>}
      BY <3>3, <3>4
    <3> QED BY <1>4, <2>1, <3>1, <3>5, ZenonT(30)
  <2> QED BY <2>2, <2>3, SMTT(30)
<1> QED
  BY <1>0, <1>9, <1>10, <1>11, <1>12

\* For any number of workers of each kind, any capacities and batch sizes,
\* and any number of requests: Dispatch, Run, the three pools, their failure
\* paths and the shutdown of main never lose track of, duplicate or reroute
\* an admitted message.
THEOREM Conservation == Spec => []ExactlyOnePlace
<1>1. Conserved => ExactlyOnePlace
  BY ConservedPlaces DEF ExactlyOnePlace
<1>2. Conserved /\ [Next]_vars => Conserved'
  BY ConservedStep
<1> QED
  BY <1>1, <1>2, ConservedInit, PTL DEF Spec

-----------------------------------------------------------------------------
(* Rows of a message                                                       *)
(*                                                                         *)
(* AtMostTwoRows needs to know who may still write: a message gets its     *)
(* first row while one writer holds it, and that writer then retries it    *)
(* once or is done with it.  That no other writer holds it is Conserved.   *)

RowsOnce ==
    \A m \in Msg :
        /\ rows[m] <= 2
        /\ m \notin settled["db"] => rows[m] <= 1
        /\ \/ rows[m] = 0
           \/ m \in settled["db"]
           \/ \E w \in DBWriter : wpc[w] = "retry" /\ m \in Elems(batch[w])

\* A step that changes neither rows nor what DB writers hold keeps RowsOnce.
LEMMA RowsFrame ==
    ASSUME RowsOnce, rows' = rows, settled'["db"] = settled["db"],
           \A w \in DBWriter : wpc[w] = "retry" => wpc'[w] = "retry" /\ batch'[w] = batch[w]
    PROVE  RowsOnce'
<1> SUFFICES ASSUME NEW m \in Msg, rows[m] # 0, m \notin settled["db"]
             PROVE  \E w \in DBWriter : wpc'[w] = "retry" /\ m \in Elems(batch'[w])
  BY DEF RowsOnce, Elems
<1>1. PICK w \in DBWriter : wpc[w] = "retry" /\ m \in Elems(batch[w])
  BY DEF RowsOnce
<1> QED BY <1>1, SMTT(30)

\* What a writer holds nobody has settled, and nobody else has written.
LEMMA HeldAlone ==
    ASSUME Conserved, NEW w \in DBWriter, NEW m \in Elems(batch[w])
    PROVE  /\ m \in Msg /\ m \notin settled["db"]
           /\ \A x \in DBWriter : m \in Elems(batch[x]) => x = w
<1>1. "db" \in Sink /\ Pool["db"] = DBWriter
  BY PoolFacts DEF Sink
<1>2. HeldBy("db", batch, settled["db"], Got("db"))
  BY <1>1 DEF Conserved, PoolsHold
<1>3. PICK i \in 1..Len(batch[w]) : m = batch[w][i]
  BY SMTT(30) DEF Elems
<1>4. m \notin settled["db"]
  BY <1>1, <1>2, <1>3, HeldFacts
<1>5. ASSUME NEW x \in DBWriter, m \in Elems(batch[x]) PROVE x = w
  <2>1. PICK j \in 1..Len(batch[x]) : m = batch[x][j]
    BY <1>5 DEF Elems
  <2>2. \A w1, w2 \in DBWriter : \A e \in 1..Len(batch[w1]), f \in 1..Len(batch[w2]) :
           batch[w1][e] = batch[w2][f] => w1 = w2 /\ e = f
    BY <1>1, <1>2, HeldFacts
  <2> QED BY <1>3, <2>1, <2>2, ZenonT(30)
<1>6. m \in Msg
  <2>1. batch[w] \in Seq(Msg)
    BY DEF Conserved, TypeOK, TypeWorkers, Worker
  <2> QED BY <2>1, ElemsType
<1> QED BY <1>4, <1>5, <1>6

\* An attempt of a flush, with whatever outcome, keeps RowsOnce.
LEMMA FlushRows ==
    ASSUME Conserved, RowsOnce, NEW w \in DBWriter, NEW c \in BOOLEAN, BatchInsert(w, c),
           \/ wpc[w] = "insert" /\ FlushRetry(w)
           \/ wpc[w] \in {"insert", "retry"} /\ FlushReturns(w)
    PROVE  RowsOnce'
<1>0. /\ rows \in [Msg -> Nat] /\ settled \in [Sink -> SUBSET Msg] /\ "db" \in Sink
      /\ batch \in [Worker -> Seq(Msg)] /\ DOMAIN wpc = Worker /\ DBWriter \subseteq Worker
  BY DEF Conserved, TypeOK, TypeStores, TypeWorkers, Sink, Worker
<1>1. \A x \in DBWriter \ {w} : wpc'[x] = wpc[x] /\ batch'[x] = batch[x]
  BY <1>0, SMTT(30) DEF FlushRetry, FlushReturns
<1> SUFFICES ASSUME NEW m \in Msg
             PROVE  /\ rows'[m] <= 2
                    /\ m \notin settled'["db"] => rows'[m] <= 1
                    /\ \/ rows'[m] = 0
                       \/ m \in settled'["db"]
                       \/ \E x \in DBWriter : wpc'[x] = "retry" /\ m \in Elems(batch'[x])
  BY SMTT(30) DEF RowsOnce, Elems
<1>2. CASE m \notin Elems(batch[w])
  <2>1. rows'[m] = rows[m]
    BY <1>0, <1>2, SMTT(30) DEF BatchInsert
  <2>2. m \in settled'["db"] <=> m \in settled["db"]
    BY <1>0, <1>2, SMTT(30) DEF FlushRetry, FlushReturns
  <2>3. ASSUME NEW x \in DBWriter, wpc[x] = "retry", m \in Elems(batch[x])
        PROVE  wpc'[x] = "retry" /\ m \in Elems(batch'[x])
    BY <1>1, <1>2, <2>3, ZenonT(30)
  <2> QED BY <2>1, <2>2, <2>3, ZenonT(30) DEF RowsOnce
<1>3. CASE m \in Elems(batch[w])
  <2>1. /\ m \notin settled["db"]
        /\ \A x \in DBWriter : m \in Elems(batch[x]) => x = w
    BY <1>3, HeldAlone, ZenonT(30)
  <2>2. rows[m] \in Nat /\ rows[m] <= 1 /\ rows'[m] \in {rows[m], rows[m] + 1}
    BY <1>0, <2>1, SMTT(30) DEF RowsOnce, BatchInsert
  <2>3. wpc[w] = "insert" => rows[m] = 0
    BY <2>1, ZenonT(30) DEF RowsOnce
  <2>4. CASE wpc[w] = "insert" /\ FlushRetry(w)
    <3>1. wpc'[w] = "retry" /\ batch'[w] = batch[w]
      BY <1>0, <2>4, SMTT(30) DEF FlushRetry
    <3>2. rows[m] = 0
      BY <2>3, <2>4
    <3>3. rows'[m] \in {0, 1}
      BY <2>2, <3>2
    <3>4. rows'[m] <= 1 /\ rows'[m] <= 2
      BY <3>3
    <3>5. \E x \in DBWriter : wpc'[x] = "retry" /\ m \in Elems(batch'[x])
      BY <1>3, <3>1, Zenon
    <3> QED BY <3>4, <3>5
  <2>5. CASE FlushReturns(w)
    <3>1. m \in settled'["db"]
      BY <1>0, <1>3, <2>5 DEF FlushReturns
    <3>2. rows'[m] <= 2
      BY <2>2, SMTT(30)
    <3> QED BY <3>1, <3>2, Zenon
  <2> QED BY <2>4, <2>5, ZenonT(30)
<1> QED BY <1>2, <1>3, SMTT(30)

\* RowsOnce is kept by every step.
LEMMA RowsStep == ASSUME Conserved, RowsOnce, [Next]_vars PROVE RowsOnce'
<1>0. /\ settled \in [Sink -> SUBSET Msg] /\ batch \in [Worker -> Seq(Msg)]
      /\ DOMAIN wpc = Worker /\ DBWriter \subseteq Worker
      /\ {"db", "state", "alert"} \subseteq Sink
  BY DEF Conserved, TypeOK, TypeStores, TypeWorkers, Sink, Worker
<1>1. ASSUME NEW w \in DBWriter, DBReceive(w) \/ DBTick(w) \/ DBDone(w) PROVE RowsOnce'
  <2>1. wpc[w] = "select" /\ rows' = rows /\ settled' = settled
    BY <1>1, SMTT(30) DEF DBReceive, DBTick, DBDone, sinkVars
  <2>2. \A x \in DBWriter \ {w} : wpc'[x] = wpc[x] /\ batch'[x] = batch[x]
    BY <1>0, <1>1 DEF DBReceive, DBTick, DBDone
  <2> QED BY <2>1, <2>2, RowsFrame, SMTT(30)
<1>2. ASSUME NEW w \in DBWriter, FlushOk(w) \/ FlushRetry(w) \/ FlushFail(w) PROVE RowsOnce'
  <2>1. CASE FlushOk(w)
    BY <2>1, FlushRows, Zenon DEF FlushOk
  <2>2. CASE FlushRetry(w)
    BY <2>2, FlushRows, Zenon DEF FlushRetry
  <2>3. CASE FlushFail(w)
    BY <2>3, FlushRows DEF FlushFail
  <2> QED BY <1>2, <2>1, <2>2, <2>3
<1>3. ASSUME NEW w \in StateWriter, StateWriterStep(w) PROVE RowsOnce'
  <2>1. w \notin DBWriter
    BY PoolsAssumption, SMTT(30)
  <2>2. rows' = rows /\ settled'["db"] = settled["db"]
    BY <1>0, <1>3, ZenonT(30) DEF StateWriterStep, StateReceive, StateTick, StateDone,
       PipelineStateUpdate, ExecOk, ExecRetry, ExecFail, BeginExec, DropBatch,
       FlushBatchReturns
  <2>3. \A x \in Worker \ {w} : batch'[x] = batch[x] /\ wpc'[x] = wpc[x]
    BY <1>0, <1>3, ZenonT(30) DEF StateWriterStep, StateReceive, StateTick, StateDone,
       PipelineStateUpdate, ExecOk, ExecRetry, ExecFail, BeginExec, DropBatch,
       FlushBatchReturns
  <2> QED BY <1>0, <2>1, <2>2, <2>3, RowsFrame
<1>4. ASSUME NEW w \in AlertEvaluator, AlertEvaluatorStep(w) PROVE RowsOnce'
  <2>1. w \notin DBWriter
    BY PoolsAssumption, SMTT(30)
  <2>2. rows' = rows /\ settled'["db"] = settled["db"]
    BY <1>0, <1>4, SMTT(30) DEF AlertEvaluatorStep, AlertReceive, Evaluated, AlertDone, sinkVars
  <2>3. \A x \in Worker \ {w} : batch'[x] = batch[x] /\ wpc'[x] = wpc[x]
    BY <1>0, <1>4 DEF AlertEvaluatorStep, AlertReceive, Evaluated, AlertDone
  <2> QED BY <1>0, <2>1, <2>2, <2>3, RowsFrame
<1>5. ASSUME UNCHANGED <<rows, settled, wpc, batch>> PROVE RowsOnce'
  BY <1>5, RowsFrame
<1>6. CASE HandlerStep \/ DispatcherStep
  BY <1>5, <1>6, SMTT(30) DEF HandlerStep, DispatcherStep, Admit, Reject, CountReceived, RunReceive,
     RunSend, RunStop, workerVars, sinkVars
<1>7. CASE MainProc
  BY <1>5, <1>7 DEF MainProc, Signal, ShutdownBegins, ShutdownReturns, ShutdownExpires,
     Exit, MainStep, workerVars, sinkVars
<1>8. ASSUME NEW v \in Vehicle, ExpireState(v) PROVE RowsOnce'
  BY <1>5, <1>8 DEF ExpireState
<1>10. ASSUME NEW m \in Msg, LateUpdate(m) PROVE RowsOnce'
  BY <1>5, <1>10 DEF LateUpdate
<1>9. CASE UNCHANGED vars
  BY <1>5, <1>9 DEF vars, workerVars, sinkVars
<1> QED
  BY <1>1, <1>2, <1>3, <1>4, <1>6, <1>7, <1>8, <1>9, <1>10, SMTT(30) DEF Next, DBWriterStep

\* However many writers insert, fail, retry and shut down, and whichever
\* answers of the database are lost, no telemetry message gets a third row.
THEOREM RowsBounded == Spec => []AtMostTwoRows
<1>1. Init => RowsOnce
  BY SMTT(30) DEF Init, RowsOnce
<1>2. RowsOnce => AtMostTwoRows
  BY Zenon DEF RowsOnce, AtMostTwoRows
<1>3. Conserved /\ [Next]_vars => Conserved'
  BY ConservedStep
<1>4. Conserved /\ RowsOnce /\ [Next]_vars => RowsOnce'
  BY RowsStep
<1> QED
  BY <1>1, <1>2, <1>3, <1>4, ConservedInit, PTL DEF Spec

-----------------------------------------------------------------------------
(* The contract                                                            *)
(*                                                                         *)
(* Each step of the pipeline is one of Delivery's, or does not show.  What *)
(* Delivery demands, that a sink is done only with what it still owes, is  *)
(* what Conserved says of the batches; that the counters move by the       *)
(* number of messages needs that a batch holds none of them twice.         *)

\* A sink's workers have received only messages that were admitted, and the one
\* they receive next was admitted, too.
LEMMA GotBound ==
    ASSUME Conserved, NEW s \in Sink
    PROVE  /\ Got(s) \in Nat /\ admitted \in Nat /\ Got(s) =< admitted
           /\ chan[s] # <<>> => Got(s) + 1 =< admitted /\ Head(chan[s]) = Got(s) + 1
<1>1. /\ ingress \in Seq(Msg) /\ chan[s] \in Seq(Msg) /\ admitted \in Nat /\ Got(s) \in Nat
      /\ \A i \in 1..Len(chan[s]) : chan[s][i] = Got(s) + i
  BY ConstantFacts DEF Conserved, TypeOK, TypeQueues, TypeHandler, InOrder
<1>2. Len(ingress) \in Nat /\ Len(chan[s]) \in Nat
  BY <1>1
<1>3. Taken \in Int /\ Taken =< admitted
  BY <1>1, <1>2 DEF Taken
<1>4. Sent(s) \in Int /\ Sent(s) =< admitted
  BY <1>1, <1>3 DEF Sent
<1>5. Got(s) + Len(chan[s]) =< admitted
  BY <1>1, <1>2, <1>4 DEF Got
<1>6. ASSUME chan[s] # <<>> PROVE Len(chan[s]) \in Nat \ {0} /\ Head(chan[s]) = chan[s][1]
  BY <1>1, <1>6, TailFacts
<1> QED BY <1>1, <1>2, <1>5, <1>6

\* What a worker holds is owed, and its batch has as many messages as places.
LEMMA BatchOwed ==
    ASSUME Conserved, NEW s \in Sink, NEW w \in Pool[s]
    PROVE  /\ Elems(batch[w]) \subseteq (1..admitted) \ settled[s]
           /\ Cardinality(Elems(batch[w])) = Len(batch[w])
<1>1. HeldBy(s, batch, settled[s], Got(s))
  BY DEF Conserved, PoolsHold
<1>2. /\ \A i \in 1..Len(batch[w]) : batch[w][i] \in 1..Got(s) /\ batch[w][i] \notin settled[s]
      /\ \A i, j \in 1..Len(batch[w]) : batch[w][i] = batch[w][j] => i = j
  BY <1>1, HeldFacts
<1>3. 1..Got(s) \subseteq 1..admitted
  BY GotBound
<1>4. Elems(batch[w]) \subseteq (1..admitted) \ settled[s]
  BY <1>2, <1>3 DEF Elems
<1> DEFINE b == batch[w]
           n == Len(b)
<1>5. b \in Seq(Msg)
  BY PoolFacts DEF Conserved, TypeOK, TypeWorkers
<1>6. b \in [1..n -> Elems(b)] /\ n \in Nat
  <2>1. b \in [1..n -> Msg] /\ n \in Nat
    BY <1>5
  <2>2. \A i \in 1..n : b[i] \in Elems(b)
    BY DEF Elems
  <2> QED BY <2>1, <2>2
<1> HIDE DEF b
<1>7. b \in Surjection(1..n, Elems(b))
  <2>1. \A t \in Elems(b) : \E i \in 1..n : b[i] = t
    BY DEF Elems
  <2> QED BY <1>6, <2>1 DEF Surjection
<1>8. b \in Injection(1..n, Elems(b))
  <2>1. \A i, j \in 1..n : b[i] = b[j] => i = j
    BY <1>2 DEF b
  <2> QED BY <1>6, <2>1 DEF Injection, IsInjective
<1>9. IsFiniteSet(1..n) /\ Cardinality(1..n) = n
  <2> HIDE DEF n
  <2>1. IsFiniteSet(1..n) /\ Cardinality(1..n) = IF 1 > n THEN 0 ELSE n - 1 + 1
    BY <1>6, FS_Interval
  <2> QED BY <1>6, <2>1
<1>10. Cardinality(Elems(b)) = n
  BY <1>7, <1>8, <1>9, FS_Surjection
<1> QED BY <1>4, <1>10 DEF b

\* So is a batch with the message that is received next.
LEMMA HeldOwed ==
    ASSUME Conserved, NEW s \in Sink, NEW w \in Pool[s], chan[s] # <<>>
    PROVE  Elems(Append(batch[w], Head(chan[s]))) \subseteq (1..admitted) \ settled[s]
<1>1. batch[w] \in Seq(Msg) /\ chan[s] \in Seq(Msg)
  BY PoolFacts DEF Conserved, TypeOK, TypeWorkers, TypeQueues
<1>2. Head(chan[s]) \in Msg
  BY <1>1, TailFacts
<1>3. Elems(Append(batch[w], Head(chan[s]))) \subseteq Elems(batch[w]) \cup {Head(chan[s])}
  <2> DEFINE b == batch[w]
             h == Head(chan[s])
  <2>1. /\ Len(b) \in Nat /\ Len(Append(b, h)) = Len(b) + 1
        /\ \A i \in 1..Len(b) : Append(b, h)[i] = b[i]
        /\ Append(b, h)[Len(b) + 1] = h
    BY <1>1, <1>2, AppendFacts
  <2> HIDE DEF b, h
  <2>2. ASSUME NEW i \in 1..Len(Append(b, h)) PROVE Append(b, h)[i] \in Elems(b) \cup {h}
    <3>1. i \in 1..Len(b) \/ i = Len(b) + 1
      BY <2>1
    <3> QED BY <2>1, <3>1 DEF Elems
  <2>3. Elems(Append(b, h)) \subseteq Elems(b) \cup {h}
    BY <2>2 DEF Elems
  <2> QED BY <2>3 DEF b, h
<1>4. Head(chan[s]) \in (1..admitted) \ settled[s]
  <2>1. settled[s] \subseteq 1..Got(s)
    BY HeldFacts DEF Conserved, PoolsHold
  <2>2. Got(s) + 1 \notin 1..Got(s) /\ Got(s) + 1 \in 1..admitted /\ Head(chan[s]) = Got(s) + 1
    BY GotBound
  <2> QED BY <2>1, <2>2
<1> QED BY <1>3, <1>4, BatchOwed, SMTT(30)

\* What the contract sees.
contractVars == <<admitted, settled, rows, dbOk, dbFail>>

\* The contract counts as the pipeline does.
LEMMA SameCardinality ==
    ASSUME NEW M
    PROVE  Contract!Cardinality(M) = Cardinality(M)
BY Zenon DEF Contract!Cardinality, Cardinality, Contract!IsFiniteSet, IsFiniteSet

\* A state writer or an evaluator that is done with owed messages, and does
\* nothing else the contract sees, takes a step of it.
LEMMA HandledStep ==
    ASSUME NEW s \in Sink \ {"db"}, NEW M, M \subseteq (1..admitted) \ settled[s],
           settled' = [settled EXCEPT ![s] = @ \cup M],
           UNCHANGED <<admitted, rows, dbOk, dbFail>>
    PROVE  Contract!Next
<1>1. Contract!Owed(s) = (1..admitted) \ settled[s]
  BY DEF Contract!Owed
<1>2. Contract!Handled(s, M)
  BY <1>1 DEF Contract!Handled, Contract!Settle
<1> QED BY <1>1, <1>2, ZenonT(30) DEF Contract!Next

\* Steps of a DB writer: rows appear, and are counted, for owed messages only.
LEMMA DBWriterContract ==
    ASSUME Conserved, NEW w \in DBWriter, DBWriterStep(w)
    PROVE  Contract!Next \/ UNCHANGED contractVars
<1> DEFINE M == Elems(batch[w])
<1>1. M \in SUBSET Contract!Owed("db") /\ Cardinality(M) = Len(batch[w])
  <2>1. "db" \in Sink /\ w \in Pool["db"]
    BY PoolFacts DEF Sink
  <2> QED BY <2>1, BatchOwed DEF Contract!Owed
<1>2. ASSUME NEW c \in BOOLEAN, BatchInsert(w, c)
      PROVE  IF c THEN Contract!Insert(M) ELSE UNCHANGED rows
  BY <1>2 DEF BatchInsert, Contract!Insert
<1> HIDE DEF M
<1>3. ASSUME FlushReturns(w) PROVE Contract!Settle("db", M)
  BY <1>1, <1>3 DEF FlushReturns, Contract!Settle, M
<1>4. CASE DBReceive(w) \/ DBTick(w) \/ DBDone(w)
  BY <1>4 DEF DBReceive, DBTick, DBDone, contractVars, handlerVars, sinkVars
<1>5. CASE FlushOk(w)
  <2>1. Contract!Insert(M)
    BY <1>2, <1>5, ZenonT(30) DEF FlushOk
  <2>2. dbOk' = dbOk + Cardinality(M) /\ UNCHANGED <<admitted, dbFail>>
    BY <1>1, <1>5 DEF FlushOk, handlerVars
  <2>3. Contract!Settle("db", M)
    BY <1>3, <1>5 DEF FlushOk
  <2>4. Contract!Written(M)
    BY <2>1, <2>2, <2>3, SameCardinality DEF Contract!Written
  <2> QED BY <1>1, <2>4 DEF Contract!Next
<1>6. CASE FlushRetry(w)
  <2>1. Contract!Insert(M) \/ UNCHANGED rows
    BY <1>2, <1>6 DEF FlushRetry
  <2>2. UNCHANGED <<admitted, settled, dbOk, dbFail>>
    BY <1>6 DEF FlushRetry, handlerVars
  <2>3. Contract!Insert(M) => Contract!WrittenUnseen(M)
    BY <1>1, <2>2 DEF Contract!WrittenUnseen
  <2> QED BY <1>1, <2>1, <2>2, <2>3 DEF Contract!Next, contractVars
<1>7. CASE FlushFail(w)
  <2>1. Contract!Insert(M) \/ UNCHANGED rows
    BY <1>2, <1>7 DEF FlushFail
  <2>2. dbFail' = dbFail + Cardinality(M) /\ UNCHANGED <<admitted, dbOk>>
    BY <1>1, <1>7 DEF FlushFail, handlerVars
  <2>3. Contract!Settle("db", M)
    BY <1>3, <1>7 DEF FlushFail
  <2>4. Contract!GivenUp(M)
    BY <2>1, <2>2, <2>3, SameCardinality DEF Contract!GivenUp
  <2> QED BY <1>1, <2>4 DEF Contract!Next
<1> QED BY <1>4, <1>5, <1>6, <1>7 DEF DBWriterStep

\* Steps of a state writer: it is done with a batch when Exec has returned.
LEMMA StateWriterContract ==
    ASSUME Conserved, NEW w \in StateWriter, StateWriterStep(w)
    PROVE  Contract!Next \/ UNCHANGED contractVars
<1>1. "state" \in Sink \ {"db"} /\ w \in Pool["state"]
  BY PoolFacts DEF Sink
<1>2. Elems(batch[w]) \subseteq (1..admitted) \ settled["state"]
  BY <1>1, BatchOwed, SMTT(30)
<1>3. UNCHANGED <<admitted, rows, dbOk, dbFail>>
  BY ZenonT(30) DEF StateWriterStep, StateReceive, StateTick, StateDone, PipelineStateUpdate, ExecOk,
     ExecRetry, ExecFail, handlerVars
<1>4. ASSUME UNCHANGED settled PROVE UNCHANGED contractVars
  BY <1>3, <1>4 DEF contractVars
<1>5. ASSUME NEW M, M \subseteq (1..admitted) \ settled["state"], FlushBatchReturns(w, M)
      PROVE  Contract!Next
  BY <1>1, <1>3, <1>5, HandledStep, ZenonT(30) DEF FlushBatchReturns
<1>6. ASSUME NEW msgs, Elems(msgs) \subseteq (1..admitted) \ settled["state"], BeginExec(w, msgs)
      PROVE  Contract!Next \/ UNCHANGED contractVars
  BY <1>4, <1>5, <1>6, ZenonT(30) DEF BeginExec, DropBatch
<1>7. CASE StateReceive(w)
  <2> DEFINE held == Append(batch[w], Head(chan["state"]))
  <2>1. Elems(held) \subseteq (1..admitted) \ settled["state"]
    BY <1>1, <1>7, HeldOwed, ZenonT(30) DEF StateReceive
  <2>2. BeginExec(w, held) \/ UNCHANGED settled
    BY <1>7 DEF StateReceive
  <2> HIDE DEF held
  <2> QED BY <1>4, <1>6, <2>1, <2>2, ZenonT(30)
<1>8. CASE StateTick(w)
  BY <1>2, <1>6, <1>8 DEF StateTick
<1>9. CASE StateDone(w) \/ ExecOk(w) \/ ExecFail(w)
  BY <1>2, <1>5, <1>9, ZenonT(30) DEF StateDone, ExecOk, ExecFail, DropBatch
<1>10. CASE PipelineStateUpdate(w) \/ ExecRetry(w)
  BY <1>4, <1>10, ZenonT(30) DEF PipelineStateUpdate, ExecRetry
<1> QED BY <1>7, <1>8, <1>9, <1>10 DEF StateWriterStep

\* Every step of the pipeline is a step of the contract or does not show.
LEMMA ContractStep ==
    ASSUME Conserved, [Next]_vars
    PROVE  Contract!Next \/ UNCHANGED contractVars
<1>1. CASE Admit
  <2>1. Contract!Accept
    BY <1>1 DEF Admit, Contract!Accept, workerVars, sinkVars
  <2> QED BY <2>1 DEF Contract!Next
<1>2. ASSUME NEW w \in AlertEvaluator, AlertEvaluatorStep(w)
      PROVE  Contract!Next \/ UNCHANGED contractVars
  <2>1. "alert" \in Sink \ {"db"} /\ w \in Pool["alert"]
    BY PoolFacts DEF Sink
  <2>2. Elems(batch[w]) \subseteq (1..admitted) \ settled["alert"]
    BY <2>1, BatchOwed
  <2>3. CASE Evaluated(w)
    BY <2>1, <2>2, <2>3, HandledStep, ZenonT(30) DEF Evaluated, handlerVars, sinkVars
  <2>4. CASE AlertReceive(w) \/ AlertDone(w)
    BY <2>4 DEF AlertReceive, AlertDone, contractVars, handlerVars, sinkVars
  <2> QED BY <1>2, <2>3, <2>4 DEF AlertEvaluatorStep
<1>3. CASE Reject \/ CountReceived \/ DispatcherStep \/ MainProc
  BY <1>3 DEF Reject, CountReceived, DispatcherStep, RunReceive, RunSend, RunStop, MainProc,
     Signal, ShutdownBegins, ShutdownReturns, ShutdownExpires, Exit, MainStep,
     contractVars, handlerVars, workerVars, sinkVars
<1>4. ASSUME NEW v \in Vehicle, ExpireState(v) PROVE UNCHANGED contractVars
  BY <1>4 DEF ExpireState, contractVars, handlerVars
<1>6. ASSUME NEW m \in Msg, LateUpdate(m) PROVE UNCHANGED contractVars
  BY <1>6 DEF LateUpdate, contractVars, handlerVars
<1>5. CASE UNCHANGED vars
  BY <1>5 DEF vars, contractVars, handlerVars, workerVars, sinkVars
<1> QED BY <1>1, <1>2, <1>3, <1>4, <1>5, <1>6, DBWriterContract, StateWriterContract, SMTT(30)
        DEF Next, HandlerStep

\* For any pools, capacities and batch sizes, the pipeline implements Delivery.
THEOREM ContractKept == Spec => KeepsContract
<1>1. Init => Contract!Init
  BY DEF Init, Contract!Init
<1>2. Conserved /\ [Next]_vars => [Contract!Next]_(Contract!vars)
  BY ContractStep DEF contractVars, Contract!vars
<1>3. Conserved /\ [Next]_vars => Conserved'
  BY ConservedStep
<1> QED
  BY <1>1, <1>2, <1>3, ConservedInit, PTL DEF Spec, KeepsContract, Contract!Spec

-----------------------------------------------------------------------------
(* The state of a vehicle                                                  *)
(*                                                                         *)
(* Why an update may leave an older state behind is decided when its flush *)
(* begins: the channel is FIFO, so whatever another writer takes later is  *)
(* newer.  The invariant follows that through Exec: messages are held in   *)
(* the order of their admission (Ascending); what a writer still holds is  *)
(* newer than a message that was applied, or was held beside it            *)
(* (AppliedBeside); the same between two writers, of which one flushes     *)
(* (FlushedBeside); and what Redis has applied of a pipeline is already    *)
(* explained as CurrentState demands of it when Exec returns (SentStored). *)

Applied == settled["state"] \ stateErrs

\* What CurrentState says of one message.
Explained(m) ==
    \/ hash[VehicleOf[m]] = 0 \/ hash[VehicleOf[m]] >= m
    \/ hash[VehicleOf[m]] \in beside[m] \cup late

Ascending ==
    \A w \in StateWriter : \A i, j \in 1..Len(batch[w]) : i < j => batch[w][i] < batch[w][j]

AppliedBeside ==
    \A w \in StateWriter, m \in Applied : \A i \in 1..Len(batch[w]) :
        m < batch[w][i] \/ batch[w][i] \in beside[m]

FlushedBeside ==
    \A w, x \in StateWriter : wpc[w] = "exec" /\ x # w =>
        \A i \in 1..Len(batch[w]), j \in 1..Len(batch[x]) :
            batch[w][i] < batch[x][j] \/ batch[x][j] \in beside[batch[w][i]]

SentStored ==
    \A w \in StateWriter :
        /\ wpc[w] # "exec" => sent[w] = 0
        /\ \A i \in 1..sent[w] : Explained(batch[w][i])

\* The inductive invariant of CurrentState.
StateInv ==
    /\ Ascending /\ AppliedBeside /\ FlushedBeside /\ SentStored
    /\ \A m \in Applied : Explained(m)

\* The types the lemmas below need.
LEMMA StateTypes ==
    ASSUME Conserved
    PROVE  /\ batch \in [Worker -> Seq(Msg)] /\ StateWriter \subseteq Worker
           /\ DOMAIN wpc = Worker
           /\ sent \in [StateWriter -> Nat] /\ \A w \in StateWriter : sent[w] <= Len(batch[w])
           /\ settled["state"] \in SUBSET Msg /\ "state" \in DOMAIN settled
           /\ hash \in [Vehicle -> 0..MaxMsgs]
           /\ beside \in [Msg -> SUBSET Msg] /\ late \in SUBSET Msg
           /\ \A m \in Msg : m \in Nat /\ VehicleOf[m] \in Vehicle
<1>1. batch \in [Worker -> Seq(Msg)] /\ StateWriter \subseteq Worker /\ DOMAIN wpc = Worker
  BY DEF Conserved, TypeOK, TypeWorkers, Worker
<1>2. /\ sent \in [StateWriter -> Nat] /\ \A w \in StateWriter : sent[w] <= Len(batch[w])
      /\ beside \in [Msg -> SUBSET Msg] /\ late \in SUBSET Msg
  BY DEF Conserved, TypeOK, TypeExec
<1>3. /\ settled["state"] \in SUBSET Msg /\ "state" \in DOMAIN settled
      /\ hash \in [Vehicle -> 0..MaxMsgs]
  BY DEF Conserved, TypeOK, TypeStores, Sink
<1>4. \A m \in Msg : m \in Nat /\ VehicleOf[m] \in Vehicle
  BY ConstantFacts DEF Msg
<1> QED BY <1>1, <1>2, <1>3, <1>4

\* A step that gives no message a new reason to be explained: writers keep their
\* batches or empty them, a hash expires or takes commands given up.
LEMMA StateFrame ==
    ASSUME Conserved, StateInv, settled'["state"] \ stateErrs' \subseteq Applied,
           \A w \in StateWriter :
               /\ \/ batch'[w] = batch[w] /\ wpc'[w] = wpc[w]
                  \/ batch'[w] = <<>> /\ wpc'[w] # "exec" /\ sent'[w] = 0
               /\ sent'[w] = sent[w] \/ sent'[w] = 0,
           beside' = beside, late \subseteq late',
           \A v \in Vehicle : hash'[v] \in {hash[v], 0} \cup late'
    PROVE  StateInv'
<1>1. ASSUME NEW m \in Msg, Explained(m) PROVE Explained(m)'
  <2>1. VehicleOf[m] \in Vehicle
    BY StateTypes
  <2>2. hash'[VehicleOf[m]] \in {hash[VehicleOf[m]], 0} \cup late'
    BY <2>1
  <2> QED BY <1>1, <2>2 DEF Explained
<1>2. Ascending'
  BY DEF StateInv, Ascending
<1>3. AppliedBeside'
  BY SMTT(30) DEF StateInv, AppliedBeside, Applied
<1>4. FlushedBeside'
  <2> SUFFICES ASSUME NEW w \in StateWriter, NEW x \in StateWriter, wpc'[w] = "exec", x # w,
                      NEW i \in 1..Len(batch'[w]), NEW j \in 1..Len(batch'[x])
               PROVE  \/ batch'[w][i] < batch'[x][j]
                      \/ batch'[x][j] \in beside[batch'[w][i]]
    BY DEF FlushedBeside
  <2>1. batch'[w] = batch[w] /\ wpc[w] = "exec"
    OBVIOUS
  <2>2. batch'[x] = batch[x]
    OBVIOUS
  <2>3. i \in 1..Len(batch[w]) /\ j \in 1..Len(batch[x])
    BY <2>1, <2>2
  <2> QED BY <2>1, <2>2, <2>3, SMTT(30) DEF StateInv, FlushedBeside
<1>5. SentStored'
  <2> SUFFICES ASSUME NEW w \in StateWriter
               PROVE  /\ wpc'[w] # "exec" => sent'[w] = 0
                      /\ \A i \in 1..sent'[w] : Explained(batch[w][i])'
    BY DEF SentStored
  <2>1. /\ wpc[w] # "exec" => sent[w] = 0
        /\ \A i \in 1..sent[w] : Explained(batch[w][i])
    BY DEF StateInv, SentStored
  <2>2. wpc'[w] # "exec" => sent'[w] = 0
    BY <2>1, SMTT(30)
  <2>3. ASSUME NEW i \in 1..sent'[w] PROVE Explained(batch[w][i])'
    <3>1. sent'[w] = sent[w] /\ batch'[w] = batch[w]
      BY <2>3
    <3>2. Explained(batch[w][i])
      BY <2>1, <3>1
    <3>3. batch[w][i] \in Msg
      <4>1. batch[w] \in Seq(Msg) /\ i \in 1..Len(batch[w])
        BY <3>1, StateTypes, SMTT(30)
      <4> QED BY <4>1
    <3>4. PICK m \in Msg : m = batch[w][i]
      BY <3>3
    <3>5. Explained(m)'
      BY <1>1, <3>2, <3>4, SMTT(30)
    <3> QED BY <3>1, <3>4, <3>5, ZenonT(30) DEF Explained
  <2> QED BY <2>2, <2>3
<1>6. ASSUME NEW m \in Applied' PROVE Explained(m)'
  <2>1. m \in Applied /\ m \in Msg
    BY StateTypes, SMTT(30) DEF Applied
  <2> QED BY <1>1, <2>1 DEF StateInv
<1> QED BY <1>2, <1>3, <1>4, <1>5, <1>6, SMTT(30) DEF StateInv

\* What writer w may hold after it has received a message, or has not.
Extends(w, q) ==
    \/ q = batch[w]
    \/ chan["state"] # <<>> /\ q = Append(batch[w], Head(chan["state"]))

\* It is in order, has at most one message more, which is newer than all that
\* were received, and nothing that is settled or held by another writer.
LEMMA ExtendsFacts ==
    ASSUME Conserved, Ascending, NEW w \in StateWriter, NEW q, Extends(w, q)
    PROVE  /\ q \in Seq(Msg)
           /\ \A i, j \in 1..Len(q) : i < j => q[i] < q[j]
           /\ \A i \in 1..Len(q) : q[i] \in Msg /\ q[i] \notin settled["state"]
           /\ \A x \in StateWriter \ {w} : \A i \in 1..Len(q), j \in 1..Len(batch[x]) :
                 q[i] # batch[x][j]
           /\ \A i \in 1..Len(q) :
                 \/ i \in 1..Len(batch[w]) /\ q[i] = batch[w][i]
                 \/ /\ \A m \in settled["state"] : m < q[i]
                    /\ \A x \in StateWriter : \A j \in 1..Len(batch[x]) : batch[x][j] < q[i]
<1> DEFINE b == batch[w]
           g == Got("state")
<1>1. "state" \in Sink /\ Pool["state"] = StateWriter
  BY PoolFacts, SMTT(30) DEF Sink
<1>2. b \in Seq(Msg) /\ chan["state"] \in Seq(Msg)
  BY <1>1, StateTypes, SMTT(30) DEF Conserved, TypeOK, TypeQueues
<1>3. HeldBy("state", batch, settled["state"], g)
  BY <1>1, SMTT(30) DEF Conserved, PoolsHold
<1>4. /\ settled["state"] \subseteq 1..g
      /\ \A x \in StateWriter : \A i \in 1..Len(batch[x]) :
            batch[x][i] \in 1..g /\ batch[x][i] \notin settled["state"]
      /\ \A x \in StateWriter \ {w} : \A i \in 1..Len(b), j \in 1..Len(batch[x]) :
            b[i] # batch[x][j]
  <2>1. /\ settled["state"] \subseteq 1..g
        /\ \A x \in Pool["state"] : \A i \in 1..Len(batch[x]) :
              batch[x][i] \in 1..g /\ batch[x][i] \notin settled["state"]
        /\ \A x, y \in Pool["state"] : \A i \in 1..Len(batch[x]), j \in 1..Len(batch[y]) :
              batch[x][i] = batch[y][j] => x = y /\ i = j
    BY <1>1, <1>3, HeldFacts, ZenonT(30)
  <2>2. \A x \in StateWriter \ {w} : \A i \in 1..Len(b), j \in 1..Len(batch[x]) :
            b[i] # batch[x][j]
    BY <1>1, <2>1, ZenonT(30)
  <2> QED BY <1>1, <2>1, <2>2, ZenonT(30)
<1>5. g \in Nat
  BY <1>1, GotBound
<1>6. /\ \A i, j \in 1..Len(b) : i < j => b[i] < b[j]
      /\ \A i \in 1..Len(b) : b[i] \in Msg
  BY <1>2, SMTT(30) DEF Ascending
<1>7. CASE q = b
  BY <1>2, <1>4, <1>6, <1>7, SMTT(30)
<1>8. CASE chan["state"] # <<>> /\ q = Append(b, Head(chan["state"]))
  <2> DEFINE e == Head(chan["state"])
  <2>1. e = g + 1
    BY <1>1, <1>8, GotBound, SMTT(30)
  <2>2. e \in Msg
    BY <1>2, <1>8, TailFacts, ZenonT(30)
  <2> HIDE DEF b, g, e
  <2>3. /\ q \in Seq(Msg) /\ Len(b) \in Nat /\ Len(q) = Len(b) + 1
        /\ \A i \in 1..Len(b) : q[i] = b[i]
        /\ q[Len(b) + 1] = e
    BY <1>2, <1>8, <2>2, AppendFacts, SMTT(30) DEF e
  <2>4. /\ \A m \in settled["state"] : m < e
        /\ \A x \in StateWriter : \A j \in 1..Len(batch[x]) : batch[x][j] < e
    BY <1>4, <1>5, <2>1
  <2>5. \A i \in 1..Len(q) :
            (i \in 1..Len(b) /\ q[i] = b[i]) \/ (i = Len(b) + 1 /\ q[i] = e)
    <3>1. ASSUME NEW i \in 1..Len(q) PROVE i \in 1..Len(b) \/ i = Len(b) + 1
      BY <2>3
    <3>2. ASSUME NEW i \in 1..Len(b) PROVE q[i] = b[i]
      BY <2>3
    <3>3. q[Len(b) + 1] = e
      BY <2>3
    <3> QED BY <3>1, <3>2, <3>3, ZenonT(30)
  <2>6. \A i \in 1..Len(b) : b[i] < e
    BY <2>4 DEF b
  <2>7. \A i, j \in 1..Len(q) : i < j => q[i] < q[j]
    <3> SUFFICES ASSUME NEW i \in 1..Len(q), NEW j \in 1..Len(q), i < j PROVE q[i] < q[j]
      OBVIOUS
    <3>1. i \in 1..Len(b) /\ q[i] = b[i]
      BY <2>3, <2>5
    <3>2. CASE j \in 1..Len(b) /\ q[j] = b[j]
      BY <1>6, <3>1, <3>2, SMTT(30)
    <3>3. CASE q[j] = e
      BY <2>6, <3>1, <3>3, SMTT(30)
    <3> QED BY <2>5, <3>2, <3>3
  <2>8. e \notin settled["state"] /\ \A x \in StateWriter : \A j \in 1..Len(batch[x]) : e # batch[x][j]
    BY <1>4, <1>5, <2>1, SMTT(30)
  <2>9. \A i \in 1..Len(q) : q[i] \in Msg /\ q[i] \notin settled["state"]
    <3>1. \A i \in 1..Len(b) : b[i] \notin settled["state"]
      BY <1>4, SMTT(30) DEF b
    <3> QED BY <1>6, <2>2, <2>5, <2>8, <3>1, SMTT(30)
  <2>10. \A x \in StateWriter \ {w} : \A i \in 1..Len(q), j \in 1..Len(batch[x]) :
            q[i] # batch[x][j]
    BY <1>4, <2>5, <2>8, SMTT(30)
  <2>11. \A i \in 1..Len(q) :
            \/ i \in 1..Len(b) /\ q[i] = b[i]
            \/ /\ \A m \in settled["state"] : m < q[i]
               /\ \A x \in StateWriter : \A j \in 1..Len(batch[x]) : batch[x][j] < q[i]
    BY <2>4, <2>5
  <2> QED BY <2>3, <2>7, <2>9, <2>10, <2>11, ZenonT(30) DEF b
<1> QED BY <1>7, <1>8, ZenonT(30) DEF Extends

\* A writer receives a message, begins to flush, or both: what the other writers
\* hold is noted beside the messages it flushes, and nobody else's changes.
LEMMA StateHolds ==
    ASSUME Conserved, StateInv, NEW w \in StateWriter, NEW q, Extends(w, q), wpc[w] = "select",
           batch' = [batch EXCEPT ![w] = q], UNCHANGED <<settled, sent, stateErrs, hash, late>>,
           \/ UNCHANGED <<wpc, beside>>
           \/ /\ wpc' = [wpc EXCEPT ![w] = "exec"]
              /\ beside' = [m \in Msg |-> IF m \in Elems(q) THEN HeldByOthers(w) ELSE beside[m]]
    PROVE  StateInv'
<1>0. /\ batch \in [Worker -> Seq(Msg)] /\ StateWriter \subseteq Worker
      /\ DOMAIN wpc = Worker /\ settled["state"] \in SUBSET Msg
  BY StateTypes, ZenonT(30)
<1>1. /\ \A i, j \in 1..Len(q) : i < j => q[i] < q[j]
      /\ \A i \in 1..Len(q) : q[i] \in Msg /\ q[i] \notin settled["state"]
  BY ExtendsFacts DEF StateInv
<1>2. \A x \in StateWriter \ {w} : \A i \in 1..Len(q), j \in 1..Len(batch[x]) :
         q[i] # batch[x][j]
  BY ExtendsFacts, SMTT(30) DEF StateInv
<1>3. \A i \in 1..Len(q) :
         \/ i \in 1..Len(batch[w]) /\ q[i] = batch[w][i]
         \/ /\ \A m \in settled["state"] : m < q[i]
            /\ \A x \in StateWriter : \A j \in 1..Len(batch[x]) : batch[x][j] < q[i]
  BY ExtendsFacts DEF StateInv
<1>4. batch'[w] = q /\ \A x \in StateWriter \ {w} : batch'[x] = batch[x] /\ wpc'[x] = wpc[x]
  BY <1>0
<1>5. ASSUME NEW m \in Msg, m \notin Elems(q) PROVE beside'[m] = beside[m]
  BY <1>5
<1>6. ASSUME NEW m \in Msg, m \notin Elems(q), Explained(m) PROVE Explained(m)'
  <2>1. beside'[m] = beside[m]
    BY <1>5, <1>6
  <2> QED BY <1>6, <2>1 DEF Explained
<1>7. \A m \in Applied : m \in Msg /\ m \notin Elems(q)
  BY <1>0, <1>1 DEF Applied, Elems
<1>8. ASSUME NEW x \in StateWriter \ {w}, NEW j \in 1..Len(batch[x])
      PROVE  batch[x][j] \in Msg /\ batch[x][j] \notin Elems(q)
  <2>1. batch[x] \in Seq(Msg)
    BY <1>0
  <2> QED BY <1>2, <2>1, SMTT(30) DEF Elems
<1>9. Ascending'
  <2>1. ASSUME NEW x \in StateWriter, NEW i \in 1..Len(batch'[x]), NEW j \in 1..Len(batch'[x]), i < j
        PROVE  batch'[x][i] < batch'[x][j]
    <3>1. CASE x = w
      BY <1>1, <1>4, <2>1, <3>1, SMTT(30)
    <3>2. CASE x # w
      BY <1>4, <2>1, <3>2, SMTT(30) DEF StateInv, Ascending
    <3> QED BY <3>1, <3>2, SMTT(30)
  <2> QED BY <2>1 DEF Ascending
<1>10. AppliedBeside'
  <2> SUFFICES ASSUME NEW x \in StateWriter, NEW m \in Applied, NEW i \in 1..Len(batch'[x])
               PROVE  m < batch'[x][i] \/ batch'[x][i] \in beside'[m]
    BY DEF AppliedBeside, Applied
  <2>1. beside'[m] = beside[m] /\ m \in settled["state"]
    BY <1>5, <1>7, SMTT(30) DEF Applied
  <2>2. CASE x # w
    BY <1>4, <2>1, <2>2, SMTT(30) DEF StateInv, AppliedBeside
  <2>3. CASE x = w /\ i \in 1..Len(batch[w]) /\ q[i] = batch[w][i]
    BY <1>4, <2>1, <2>3, SMTT(30) DEF StateInv, AppliedBeside
  <2>4. CASE x = w /\ m < q[i]
    BY <1>4, <2>4, SMTT(30)
  <2> QED BY <1>3, <1>4, <2>1, <2>2, <2>3, <2>4, ZenonT(30)
<1>11. FlushedBeside'
  <2> SUFFICES ASSUME NEW y \in StateWriter, NEW x \in StateWriter, wpc'[y] = "exec", x # y,
                      NEW i \in 1..Len(batch'[y]), NEW j \in 1..Len(batch'[x])
               PROVE  \/ batch'[y][i] < batch'[x][j]
                      \/ batch'[x][j] \in beside'[batch'[y][i]]
    BY SMTT(30) DEF FlushedBeside
  <2>1. CASE y = w
    <3>1. /\ batch'[x] = batch[x] /\ x \in StateWriter \ {w} /\ j \in 1..Len(batch[x])
          /\ i \in 1..Len(q) /\ batch'[y][i] = q[i] /\ q[i] \in Msg
      BY <1>1, <1>4, <2>1
    <3>2. beside' = [m \in Msg |-> IF m \in Elems(q) THEN HeldByOthers(w) ELSE beside[m]]
      <4>1. wpc' # wpc
        BY <2>1, SMTT(30)
      <4> QED BY <4>1
    <3>3. batch[x][j] \in HeldByOthers(w) /\ q[i] \in Elems(q)
      BY <3>1, SMTT(30) DEF HeldByOthers, Elems
    <3> QED BY <3>1, <3>2, <3>3, ZenonT(30)
  <2>2. CASE y # w
    <3>1. /\ batch'[y] = batch[y] /\ wpc[y] = "exec" /\ i \in 1..Len(batch[y])
          /\ beside'[batch[y][i]] = beside[batch[y][i]]
      BY <1>4, <1>5, <1>8, <2>2, SMTT(30)
    <3>2. CASE x # w
      <4>1. batch'[x] = batch[x] /\ j \in 1..Len(batch[x])
        BY <1>4, <3>2, SMTT(30)
      <4> QED BY <3>1, <4>1, SMTT(30) DEF StateInv, FlushedBeside
    <3>3. CASE x = w /\ j \in 1..Len(batch[w]) /\ q[j] = batch[w][j]
      <4>1. batch'[x][j] = batch[x][j]
        BY <1>4, <3>3, SMTT(30)
      <4> QED BY <3>1, <3>3, <4>1, ZenonT(30) DEF StateInv, FlushedBeside
    <3>4. CASE x = w /\ batch[y][i] < q[j]
      BY <1>4, <3>1, <3>4, SMTT(30)
    <3> QED BY <1>3, <1>4, <3>1, <3>2, <3>3, <3>4, ZenonT(30)
  <2> QED BY <2>1, <2>2
<1>12. SentStored'
  <2> SUFFICES ASSUME NEW x \in StateWriter
               PROVE  /\ wpc'[x] # "exec" => sent[x] = 0
                      /\ \A i \in 1..sent[x] : Explained(batch[x][i])'
    BY DEF SentStored
  <2>1. CASE x = w
    <3>1. sent[x] = 0
      BY <2>1, SMTT(30) DEF StateInv, SentStored
    <3> QED BY <3>1
  <2>2. CASE x # w
    <3>1. wpc'[x] = wpc[x] /\ batch'[x] = batch[x]
      BY <1>4, <2>2, SMTT(30)
    <3>2. ASSUME NEW i \in 1..sent[x] PROVE Explained(batch[x][i])'
      <4>1. i \in 1..Len(batch[x])
        <5>1. batch[x] \in Seq(Msg) /\ sent[x] \in Nat /\ sent[x] <= Len(batch[x])
          BY StateTypes, ZenonT(30)
        <5> QED BY <5>1, SMTT(30)
      <4>2. PICK m \in Msg : m = batch[x][i] /\ m \notin Elems(q)
        BY <1>8, <2>2, <4>1, SMTT(30)
      <4>3. Explained(m)
        BY <4>2, SMTT(30) DEF StateInv, SentStored
      <4>4. Explained(m)'
        BY <1>6, <4>2, <4>3, SMTT(30)
      <4> QED BY <3>1, <4>2, <4>4, ZenonT(30) DEF Explained
    <3>3. wpc[x] # "exec" => sent[x] = 0
      BY DEF StateInv, SentStored
    <3> QED BY <3>1, <3>2, <3>3, SMTT(30)
  <2> QED BY <2>1, <2>2, SMTT(30)
<1>13. ASSUME NEW m \in Applied' PROVE Explained(m)'
  BY <1>6, <1>7 DEF StateInv, Applied
<1> QED BY <1>9, <1>10, <1>11, <1>12, <1>13, SMTT(30) DEF StateInv

\* Redis applies the next message of a pipeline.  It is newer than a message it
\* overtakes, or was held beside it.
LEMMA StateApplies ==
    ASSUME Conserved, StateInv, NEW w \in StateWriter, PipelineStateUpdate(w)
    PROVE  StateInv'
<1> DEFINE b == batch[w]
<1>0. /\ b \in Seq(Msg) /\ sent[w] \in Nat /\ sent[w] < Len(b) /\ wpc[w] = "exec"
      /\ hash \in [Vehicle -> 0..MaxMsgs] /\ sent \in [StateWriter -> Nat]
      /\ \A m \in Msg : m \in Nat /\ VehicleOf[m] \in Vehicle
      /\ settled["state"] \in SUBSET Msg
  BY StateTypes, ZenonT(30) DEF PipelineStateUpdate
<1>1. PICK k \in 1..Len(b) : k = sent[w] + 1
  BY <1>0
<1>9. PICK n \in Msg : n = b[k]
  BY <1>0, <1>1, SMTT(30)
<1>2. /\ hash' = [hash EXCEPT ![VehicleOf[n]] = n] /\ sent' = [sent EXCEPT ![w] = k]
      /\ UNCHANGED <<batch, wpc, settled, stateErrs, beside, late>>
  BY <1>1, <1>9, ZenonT(30) DEF PipelineStateUpdate, Apply
<1>3. ASSUME NEW m \in Msg, Explained(m), m <= n \/ n \in beside[m] PROVE Explained(m)'
  <2>1. CASE VehicleOf[m] = VehicleOf[n]
    <3>1. hash'[VehicleOf[m]] = n /\ m \in Nat /\ n \in Nat
      BY <1>0, <1>1, <1>2, <2>1, SMTT(30)
    <3> QED BY <1>2, <1>3, <3>1, ZenonT(30) DEF Explained
  <2>2. CASE VehicleOf[m] # VehicleOf[n]
    <3>1. hash'[VehicleOf[m]] = hash[VehicleOf[m]]
      BY <1>0, <1>2, <2>2, SMTT(30)
    <3> QED BY <1>2, <1>3, <3>1, SMTT(30) DEF Explained
  <2> QED BY <2>1, <2>2, SMTT(30)
<1>4. Ascending' /\ AppliedBeside' /\ FlushedBeside'
  BY <1>2, ZenonT(30) DEF StateInv, Ascending, AppliedBeside, FlushedBeside, Applied
<1>5. ASSUME NEW m \in Applied' PROVE Explained(m)'
  <2>1. m \in Applied /\ m \in Msg /\ m \in Nat /\ n \in Nat
    BY <1>0, <1>1, <1>2, ZenonT(30) DEF Applied
  <2>2. m < n \/ n \in beside[m]
    BY <1>1, <1>9, <2>1 DEF StateInv, AppliedBeside
  <2>3. Explained(m)
    BY <2>1 DEF StateInv
  <2> QED BY <1>3, <2>1, <2>2, <2>3, SMTT(30)
<1>6. Explained(n)'
  <2>1. hash'[VehicleOf[n]] = n /\ n \in Nat
    BY <1>0, <1>1, <1>2, SMTT(30)
  <2> QED BY <2>1, SMTT(30) DEF Explained
<1>7. SentStored'
  <2> SUFFICES ASSUME NEW x \in StateWriter
               PROVE  /\ wpc[x] # "exec" => sent'[x] = 0
                      /\ \A i \in 1..sent'[x] : Explained(batch[x][i])'
    BY <1>2 DEF SentStored
  <2>0. /\ wpc[x] # "exec" => sent[x] = 0
        /\ \A i \in 1..sent[x] : Explained(batch[x][i])
    BY SMTT(30) DEF StateInv, SentStored
  <2>1. batch[x] \in Seq(Msg) /\ sent[x] \in Nat /\ sent[x] <= Len(batch[x])
    BY StateTypes, ZenonT(30)
  <2>2. CASE x = w
    <3>1. sent'[x] = k
      BY <1>0, <1>2, <2>2, SMTT(30)
    <3>2. ASSUME NEW i \in 1..k PROVE Explained(batch[x][i])'
      <4>1. CASE i = k
        <5>1. batch'[x][i] = n
          BY <1>9, <1>2, <2>2, <4>1, SMTT(30)
        <5> QED BY <1>6, <5>1, SMTT(30) DEF Explained
      <4>2. CASE i # k
        <5>1. i \in 1..sent[x] /\ i \in 1..Len(b) /\ i < k
          BY <1>0, <1>1, <2>2, <4>2, SMTT(30)
        <5>2. PICK m \in Msg : m = batch[x][i]
          BY <1>0, <2>2, <5>1, SMTT(30)
        <5>3. Explained(m)
          BY <2>0, <5>1, <5>2, SMTT(30)
        <5>4. m < n
          BY <1>1, <1>9, <2>2, <5>1, <5>2, SMTT(30) DEF StateInv, Ascending
        <5>5. Explained(m)'
          BY <1>0, <1>1, <1>3, <5>3, <5>4, SMTT(30)
        <5> QED BY <1>2, <5>2, <5>5, ZenonT(30) DEF Explained
      <4> QED BY <4>1, <4>2
    <3> QED BY <1>0, <2>2, <3>1, <3>2, SMTT(30)
  <2>3. CASE x # w
    <3>1. sent'[x] = sent[x]
      BY <1>0, <1>2, <2>3, SMTT(30)
    <3>2. ASSUME NEW i \in 1..sent[x] PROVE Explained(batch[x][i])'
      <4>1. i \in 1..Len(batch[x]) /\ wpc[x] = "exec"
        BY <2>0, <2>1, SMTT(30)
      <4>2. PICK m \in Msg : m = batch[x][i]
        BY <2>1, <4>1, SMTT(30)
      <4>3. m < n \/ n \in beside[m]
        BY <1>1, <1>9, <2>3, <4>1, <4>2, ZenonT(30) DEF StateInv, FlushedBeside
      <4>4. Explained(m)
        BY <2>0, <4>2
      <4>5. Explained(m)'
        BY <1>0, <1>1, <1>3, <4>3, <4>4, SMTT(30)
      <4> QED BY <1>2, <4>2, <4>5, ZenonT(30) DEF Explained
    <3> QED BY <2>0, <3>1, <3>2, ZenonT(30)
  <2> QED BY <2>2, <2>3, SMTT(30)
<1> QED BY <1>4, <1>5, <1>7, SMTT(30) DEF StateInv

\* Exec returns: what Redis has applied of the pipeline is the whole batch.
LEMMA StateSettles ==
    ASSUME Conserved, StateInv, NEW w \in StateWriter, ExecOk(w)
    PROVE  StateInv'
<1>0. /\ batch \in [Worker -> Seq(Msg)] /\ StateWriter \subseteq Worker /\ DOMAIN wpc = Worker
      /\ sent \in [StateWriter -> Nat] /\ "state" \in DOMAIN settled
      /\ wpc[w] = "exec" /\ sent[w] = Len(batch[w]) /\ settled["state"] \in SUBSET Msg
  BY StateTypes, ZenonT(30) DEF ExecOk
<1>1. /\ batch'[w] = <<>> /\ sent'[w] = 0 /\ wpc'[w] = "select"
      /\ \A x \in StateWriter \ {w} :
            batch'[x] = batch[x] /\ sent'[x] = sent[x] /\ wpc'[x] = wpc[x]
      /\ settled'["state"] = settled["state"] \cup Elems(batch[w])
      /\ UNCHANGED <<hash, stateErrs, beside, late>>
  BY <1>0, SMTT(30) DEF ExecOk, FlushBatchReturns
<1>2. ASSUME NEW m, Explained(m) PROVE Explained(m)'
  BY <1>1, <1>2, ZenonT(30) DEF Explained
<1>3. ASSUME NEW m \in Applied'
      PROVE  m \in Applied \/ \E i \in 1..Len(batch[w]) : m = batch[w][i]
  BY <1>1, ZenonT(30) DEF Applied, Elems
<1>4. Ascending'
  <2>1. ASSUME NEW x \in StateWriter, NEW i \in 1..Len(batch'[x]), NEW j \in 1..Len(batch'[x]), i < j
        PROVE  batch'[x][i] < batch'[x][j]
    <3>1. batch'[x] = batch[x]
      BY <1>1, SMTT(30)
    <3> QED BY <2>1, <3>1, SMTT(30) DEF StateInv, Ascending
  <2> QED BY <2>1 DEF Ascending
<1>5. AppliedBeside'
  <2> SUFFICES ASSUME NEW x \in StateWriter, NEW m \in Applied', NEW j \in 1..Len(batch'[x])
               PROVE  m < batch'[x][j] \/ batch'[x][j] \in beside[m]
    BY <1>1 DEF AppliedBeside
  <2>1. x # w /\ batch'[x] = batch[x] /\ j \in 1..Len(batch[x])
    BY <1>1
  <2>2. CASE m \in Applied
    BY <2>1, <2>2 DEF StateInv, AppliedBeside
  <2>3. ASSUME NEW i \in 1..Len(batch[w]), m = batch[w][i]
        PROVE  m < batch'[x][j] \/ batch'[x][j] \in beside[m]
    <3>1. batch[w][i] < batch[x][j] \/ batch[x][j] \in beside[batch[w][i]]
      BY <1>0, <2>1, ZenonT(30) DEF StateInv, FlushedBeside
    <3> QED BY <2>1, <2>3, <3>1, SMTT(30)
  <2> QED BY <1>3, <2>2, <2>3
<1>6. FlushedBeside'
  <2> SUFFICES ASSUME NEW y \in StateWriter, NEW x \in StateWriter, wpc'[y] = "exec", x # y,
                      NEW i \in 1..Len(batch'[y]), NEW j \in 1..Len(batch'[x])
               PROVE  \/ batch'[y][i] < batch'[x][j]
                      \/ batch'[x][j] \in beside[batch'[y][i]]
    BY <1>1, ZenonT(30) DEF FlushedBeside
  <2>1. x # w /\ batch'[x] = batch[x] /\ batch'[y] = batch[y] /\ wpc[y] = "exec"
    BY <1>1, SMTT(30)
  <2> QED BY <2>1, ZenonT(30) DEF StateInv, FlushedBeside
<1>7. SentStored'
  <2> SUFFICES ASSUME NEW x \in StateWriter
               PROVE  /\ wpc'[x] # "exec" => sent'[x] = 0
                      /\ \A i \in 1..sent'[x] : Explained(batch[x][i])'
    BY SMTT(30) DEF SentStored
  <2>1. CASE x = w
    BY <1>1, <2>1, SMTT(30)
  <2>2. CASE x # w
    <3>1. sent'[x] = sent[x] /\ batch'[x] = batch[x] /\ wpc'[x] = wpc[x]
      BY <1>1, <2>2
    <3>2. /\ wpc[x] # "exec" => sent[x] = 0
          /\ \A i \in 1..sent[x] : Explained(batch[x][i])
      BY SMTT(30) DEF StateInv, SentStored
    <3>3. ASSUME NEW i \in 1..sent[x] PROVE Explained(batch[x][i])'
      <4>1. Explained(batch[x][i])
        BY <3>2, SMTT(30)
      <4> QED BY <1>1, <3>1, <4>1, ZenonT(30) DEF Explained
    <3> QED BY <3>1, <3>2, <3>3, ZenonT(30)
  <2> QED BY <2>1, <2>2
<1>8. ASSUME NEW m \in Applied' PROVE Explained(m)'
  <2>1. CASE m \in Applied
    BY <1>2, <2>1, SMTT(30) DEF StateInv
  <2>2. ASSUME NEW i \in 1..Len(batch[w]), m = batch[w][i] PROVE Explained(m)
    BY <1>0, <2>2, ZenonT(30) DEF StateInv, SentStored
  <2> QED BY <1>2, <1>3, <2>1, <2>2, SMTT(30)
<1> QED BY <1>4, <1>5, <1>6, <1>7, <1>8, SMTT(30) DEF StateInv

\* Every step of a state writer keeps the invariant.
LEMMA StateWriterOrdered ==
    ASSUME Conserved, StateInv, NEW w \in StateWriter, StateWriterStep(w)
    PROVE  StateInv'
<1>0. /\ batch \in [Worker -> Seq(Msg)] /\ StateWriter \subseteq Worker /\ DOMAIN wpc = Worker
      /\ sent \in [StateWriter -> Nat] /\ "state" \in DOMAIN settled
  BY StateTypes, ZenonT(30)
<1>1. ASSUME NEW M, DropBatch(w, M), NEW pc \in {"select", "stopped"},
             wpc' = [wpc EXCEPT ![w] = pc], UNCHANGED <<hash, beside>>, late \subseteq late'
      PROVE  StateInv'
  <2>1. settled'["state"] \ stateErrs' \subseteq Applied
    BY <1>0, <1>1 DEF DropBatch, FlushBatchReturns, Applied
  <2>2. batch'[w] = <<>> /\ wpc'[w] # "exec" /\ sent'[w] = 0
    BY <1>0, <1>1 DEF DropBatch, FlushBatchReturns
  <2>3. \A x \in StateWriter \ {w} : batch'[x] = batch[x] /\ wpc'[x] = wpc[x] /\ sent'[x] = sent[x]
    BY <1>0, <1>1 DEF DropBatch, FlushBatchReturns
  <2> QED BY <1>1, <2>1, <2>2, <2>3, StateFrame, ZenonT(30)
<1>2. ASSUME NEW q, BeginExec(w, q), Extends(w, q), wpc[w] = "select", UNCHANGED <<hash, late>>
      PROVE  StateInv'
  <2>1. CASE cancelled
    BY <1>1, <1>2, <2>1 DEF BeginExec
  <2>2. CASE ~cancelled
    BY <1>2, <2>2, StateHolds, ZenonT(30) DEF BeginExec
  <2> QED BY <2>1, <2>2
<1>3. CASE StateReceive(w)
  <2> DEFINE held == Append(batch[w], Head(chan["state"]))
  <2>1. wpc[w] = "select" /\ UNCHANGED <<hash, late>> /\ Extends(w, held)
    BY <1>3 DEF StateReceive, Extends
  <2>2. \/ BeginExec(w, held)
        \/ /\ batch' = [batch EXCEPT ![w] = held]
           /\ UNCHANGED <<wpc, settled, sent, stateErrs, beside>>
    BY <1>3, Zenon DEF StateReceive
  <2> HIDE DEF held
  <2>3. CASE BeginExec(w, held)
    BY <1>2, <2>1, <2>3
  <2>4. CASE /\ batch' = [batch EXCEPT ![w] = held]
             /\ UNCHANGED <<wpc, settled, sent, stateErrs, beside>>
    BY <2>1, <2>4, StateHolds, ZenonT(30)
  <2> QED BY <2>2, <2>3, <2>4
<1>4. CASE StateTick(w)
  <2>1. wpc[w] = "select" /\ UNCHANGED <<hash, late>> /\ Extends(w, batch[w])
        /\ BeginExec(w, batch[w])
    BY <1>4 DEF StateTick, Extends
  <2> QED BY <1>2, <2>1, SMTT(30)
<1>5. CASE StateDone(w)
  BY <1>1, <1>5 DEF StateDone
<1>6. CASE ExecFail(w)
  BY <1>1, <1>6, SMTT(30) DEF ExecFail
<1>7. CASE ExecRetry(w)
  <2>1. /\ UNCHANGED <<batch, wpc, settled, stateErrs, beside, hash>> /\ late \subseteq late'
        /\ sent' = [sent EXCEPT ![w] = 0]
    BY <1>7 DEF ExecRetry
  <2>2. \A x \in StateWriter : sent'[x] = sent[x] \/ sent'[x] = 0
    BY <1>0, <2>1
  <2> QED BY <2>1, <2>2, StateFrame, SMTT(30) DEF Applied
<1> QED
  BY <1>3, <1>4, <1>5, <1>6, <1>7, StateApplies, StateSettles, SMTT(30) DEF StateWriterStep

\* So does every other step.
LEMMA StateStep == ASSUME Conserved, StateInv, [Next]_vars PROVE StateInv'
<1>0. /\ settled \in [Sink -> SUBSET Msg] /\ batch \in [Worker -> Seq(Msg)]
      /\ {"db", "state", "alert"} \subseteq Sink /\ hash \in [Vehicle -> 0..MaxMsgs]
      /\ StateWriter \subseteq Worker /\ DOMAIN wpc = Worker
  BY DEF Conserved, TypeOK, TypeStores, TypeWorkers, Sink, Worker
<1>1. ASSUME settled'["state"] = settled["state"], UNCHANGED stateVars,
             \A x \in StateWriter : batch'[x] = batch[x] /\ wpc'[x] = wpc[x]
      PROVE  StateInv'
  BY <1>1, StateFrame, SMTT(30) DEF Applied, stateVars, execVars
<1>2. ASSUME NEW w \in DBWriter, DBWriterStep(w) PROVE StateInv'
  <2>1. w \notin StateWriter
    BY PoolsAssumption, SMTT(30)
  <2>2. settled'["state"] = settled["state"] /\ UNCHANGED stateVars
    BY <1>0, <1>2, ZenonT(30) DEF DBWriterStep, DBReceive, DBTick, DBDone, FlushOk, FlushRetry,
       FlushFail, FlushReturns, sinkVars
  <2>3. \A x \in Worker \ {w} : batch'[x] = batch[x] /\ wpc'[x] = wpc[x]
    BY <1>0, <1>2, ZenonT(30) DEF DBWriterStep, DBReceive, DBTick, DBDone, FlushOk, FlushRetry,
       FlushFail, FlushReturns
  <2> QED BY <1>0, <1>1, <2>1, <2>2, <2>3
<1>3. ASSUME NEW w \in AlertEvaluator, AlertEvaluatorStep(w) PROVE StateInv'
  <2>1. w \notin StateWriter
    BY PoolsAssumption, SMTT(30)
  <2>2. settled'["state"] = settled["state"] /\ UNCHANGED stateVars
    BY <1>0, <1>3, ZenonT(30) DEF AlertEvaluatorStep, AlertReceive, Evaluated, AlertDone, sinkVars
  <2>3. \A x \in Worker \ {w} : batch'[x] = batch[x] /\ wpc'[x] = wpc[x]
    BY <1>0, <1>3, ZenonT(30) DEF AlertEvaluatorStep, AlertReceive, Evaluated, AlertDone
  <2> QED BY <1>0, <1>1, <2>1, <2>2, <2>3
<1>4. CASE HandlerStep \/ DispatcherStep
  BY <1>1, <1>4, SMTT(30) DEF HandlerStep, DispatcherStep, Admit, Reject, CountReceived, RunReceive,
     RunSend, RunStop, workerVars, sinkVars
<1>5. CASE MainProc
  BY <1>1, <1>5, SMTT(30) DEF MainProc, Signal, ShutdownBegins, ShutdownReturns, ShutdownExpires,
     Exit, MainStep, workerVars, sinkVars
<1>6. ASSUME \A x \in Vehicle : hash'[x] \in {hash[x], 0} \cup late,
             UNCHANGED <<settled, stateErrs, execVars, batch, wpc>>
      PROVE  StateInv'
  BY <1>6, StateFrame, ZenonT(30) DEF Applied, execVars
<1>7. ASSUME NEW v \in Vehicle, ExpireState(v) PROVE StateInv'
  BY <1>0, <1>6, <1>7 DEF ExpireState
<1>8. ASSUME NEW m \in Msg, LateUpdate(m) PROVE StateInv'
  BY <1>0, <1>6, <1>8, SMTT(30) DEF LateUpdate, Apply
<1>9. CASE UNCHANGED vars
  BY <1>1, <1>9, ZenonT(30) DEF vars, workerVars, sinkVars
<1> QED
  BY <1>2, <1>3, <1>4, <1>5, <1>7, <1>8, <1>9, StateWriterOrdered, SMTT(30) DEF Next

\* For any number of state writers and any batch size: once Exec has returned for
\* a message, the hash of its vehicle is older only by an update that another
\* writer already held when flushBatch was called, or by a pipeline given up.
THEOREM OlderStateExplained == Spec => []CurrentState
<1>1. Init => StateInv
  <2> SUFFICES ASSUME Init PROVE StateInv
    OBVIOUS
  <2>1. Applied = {} /\ \A w \in StateWriter : batch[w] = <<>> /\ sent[w] = 0
    BY DEF Init, Sink, Worker, Applied
  <2>2. Ascending /\ AppliedBeside /\ FlushedBeside
    BY <2>1 DEF Ascending, AppliedBeside, FlushedBeside
  <2>3. SentStored
    BY <2>1 DEF SentStored
  <2> QED BY <2>1, <2>2, <2>3, SMTT(30) DEF StateInv
<1>2. Conserved /\ [Next]_vars => Conserved'
  BY ConservedStep
<1>3. Conserved /\ StateInv /\ [Next]_vars => StateInv'
  BY StateStep
<1>4. StateInv => CurrentState
  BY DEF StateInv, Applied, Explained, CurrentState
<1> QED
  BY <1>1, <1>2, <1>3, <1>4, ConservedInit, PTL DEF Spec

=============================================================================
