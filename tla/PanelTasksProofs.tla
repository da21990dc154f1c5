-------------------------- MODULE PanelTasksProofs --------------------------
(***************************************************************************)
(* Proofs about PanelTasks for any number of nodes, executors, requests,   *)
(* retries and tasks: an activation of a task is run by at most one        *)
(* executor; a service does not go on with an old file unnoticed; and,     *)
(* with one executor, "completed" means deployed.                          *)
(***************************************************************************)
EXTENDS PanelTasks, TLAPS

USE ConstantsAssumption

\* The state functions of the queue and the nodes are in their types after
\* the two statements of an enqueue.
LEMMA DeletePendingType ==
  ASSUME TypeOK, NEW n, NEW k, DeletePending(n, k)
  PROVE  /\ status' \in [TaskId -> Status]
         /\ UNCHANGED <<info, epoch, nextId>>
  BY DEF TypeOK, DeletePending, Pending, Status

LEMMA InsertPendingType ==
  ASSUME TypeOK, NEW n \in Nodes \cup {NoNode}, NEW k \in Types,
         NEW p \in Content, InsertPending(n, k, p)
  PROVE  /\ status' \in [TaskId -> Status]
         /\ info' \in [TaskId -> TaskInfo]
         /\ epoch' \in [TaskId -> Nat]
         /\ nextId' \in 1 .. (MaxTasks + 1)
  BY DEF TypeOK, InsertPending, Status, TaskId, TaskInfo

\* An agent call leaves the nodes' contents in their types.
LEMMA AgentAppliesType ==
  ASSUME TypeOK, NEW e \in Executors, exec[e].id \in TaskId,
         exec[e].node \in Nodes, AgentApplies(e)
  PROVE  /\ remote' \in [Nodes -> [ContentTypes -> Content]]
         /\ loaded' \in [Nodes -> [ContentTypes -> Content]]
  <1> DEFINE n == exec[e].node
             k == info[exec[e].id].type
  <1>1. n \in Nodes /\ k \in Types /\ exec[e].val \in Content
    BY DEF TypeOK, ExecState, TaskInfo
  <1>2. CASE k = Restart
    BY <1>1, <1>2, ZenonT(40) DEF TypeOK, AgentApplies
  <1>3. CASE k # Restart
    <2>1. k \in ContentTypes
      BY <1>1, <1>3 DEF Types
    <2>2. remote' = [remote EXCEPT ![n][k] = exec[e].val] /\ loaded' = loaded
      BY <1>3 DEF AgentApplies
    <2>3. QED
      BY <1>1, <2>1, <2>2 DEF TypeOK
  <1>4. QED
    BY <1>2, <1>3

\* The initial state satisfies the inductive invariant.
LEMMA InitQueueInv == Init => QueueInv
  <1> SUFFICES ASSUME Init PROVE QueueInv
    OBVIOUS
  <1>1. TypeOK
    BY DEF Init, TypeOK, IdleExec, ExecState, ReqState, ExecPc, TaskInfo,
           Status, Content, Types
  <1>2. IdsInOrder /\ RunsPastActivation /\ ActivationRunsOnce
    BY DEF Init, IdleExec, IdsInOrder, RunsPastActivation,
           ActivationRunsOnce, Running, RunningPc, TaskId
  <1>3. QED
    BY <1>1, <1>2 DEF QueueInv

-----------------------------------------------------------------------------
\* No row that exists becomes pending, and ids are still handed out in order.
RowsKept ==
  /\ nextId' \in Nat /\ nextId <= nextId'
  /\ \A t \in TaskId : status'[t] = "free" <=> nextId' <= t
  /\ \A t \in TaskId :
        t < nextId => /\ epoch'[t] = epoch[t]
                      /\ status'[t] = "pending" => status[t] = "pending"

\* What an executor does that does not claim: nothing, give up, go to a node,
\* choose a row, or go on with the task it runs.
Follows(e) ==
  \/ exec'[e] = exec[e]
  \/ exec'[e].pc \in {"idle", "poll"}
  \/ exec'[e].pc = "select" /\ exec'[e].node \in Nodes
  \/ /\ exec'[e].pc = "claim"
     /\ exec'[e].node \in Nodes
     /\ exec'[e].id \in TaskId
     /\ exec'[e].id < nextId
     /\ exec'[e].left > 0
  \/ /\ exec[e].pc \in RunningPc /\ exec'[e].pc \in RunningPc
     /\ exec'[e].id = exec[e].id /\ exec'[e].ep = exec[e].ep
     /\ exec'[e].node = exec[e].node

\* A retry past its SELECT refers to a row that exists.
RetryFollows ==
  \A q \in Retries : retry'[q].pc = "write" => /\ retry'[q].id \in TaskId
                                               /\ retry'[q].id < nextId

\* Such steps preserve the inductive invariant.
LEMMA KeptInv ==
  ASSUME QueueInv, TypeOK', RowsKept, \A e \in Executors : Follows(e),
         RetryFollows
  PROVE  QueueInv'
  <1> USE DEF QueueInv, RunningPc
  <1>1. nextId \in Nat /\ nextId' \in Nat
    BY DEF TypeOK
  <1>2. ASSUME NEW e \in Executors, NEW t \in TaskId, Running(e, t)'
        PROVE  Running(e, t) /\ exec'[e].ep = exec[e].ep
    BY <1>2 DEF Follows, Running
  <1>3. IdsInOrder'
    <2>1. \A e \in Executors :
             /\ exec'[e].pc \notin {"idle", "poll"} => exec'[e].node \in Nodes
             /\ exec'[e].pc \in RunningPc \cup {"claim"} =>
                   exec'[e].id \in TaskId /\ exec'[e].id < nextId
             /\ exec'[e].pc = "claim" => exec'[e].left > 0
      BY DEF IdsInOrder, Follows
    <2>2. \A i \in TaskId : i < nextId => i < nextId'
      BY <1>1 DEF RowsKept, TaskId
    <2>3. QED
      BY <2>1, <2>2 DEF IdsInOrder, RowsKept, RetryFollows
  <1>4. RunsPastActivation'
    <2>1. \A e \in Executors, t \in TaskId : Running(e, t) => t < nextId
      BY DEF IdsInOrder, Running
    <2>2. QED
      BY <1>2, <2>1 DEF RunsPastActivation, RowsKept
  <1>5. ActivationRunsOnce'
    BY <1>2 DEF ActivationRunsOnce
  <1>6. QED
    BY <1>3, <1>4, <1>5

\* A retry that does not move still refers to a row that exists.
LEMMA RetryUnchanged ==
  ASSUME QueueInv, UNCHANGED retry
  PROVE  RetryFollows
  BY DEF QueueInv, IdsInOrder, RetryFollows

\* The statements that keep the rows: none, a DELETE of pending rows, an
\* INSERT.
LEMMA UnchangedRows ==
  ASSUME QueueInv, UNCHANGED taskVars
  PROVE  RowsKept
  BY DEF QueueInv, IdsInOrder, RowsKept, taskVars, TypeOK

LEMMA DeleteRows ==
  ASSUME QueueInv, NEW n, NEW k, DeletePending(n, k)
  PROVE  RowsKept
  BY DEF QueueInv, IdsInOrder, RowsKept, TypeOK, DeletePending, Pending

LEMMA InsertRows ==
  ASSUME QueueInv, NEW n, NEW k, NEW p, InsertPending(n, k, p)
  PROVE  RowsKept
  <1> USE DEF QueueInv, TypeOK, TaskId
  <1>1. nextId \in TaskId /\ nextId' = nextId + 1
    BY DEF InsertPending
  <1>2. \A t \in TaskId : /\ t # nextId => status'[t] = status[t]
                                          /\ epoch'[t] = epoch[t]
                          /\ t = nextId => status'[t] = "pending"
    BY DEF InsertPending
  <1>3. QED
    BY <1>1, <1>2 DEF IdsInOrder, RowsKept

\* The contents the panel's database holds keep their type.
LEMMA SavedType ==
  ASSUME TypeOK, NEW r \in Requests, Commit(r) \/ SaveSettings(r)
  PROVE  saved' \in [Nodes -> [ContentTypes -> Content]]
  <1>1. Kind[r] \in ContentTypes /\ saved \in [Nodes -> [ContentTypes -> Content]]
    BY DEF TypeOK
  <1>2. {r} \in Content
    BY DEF Content
  <1>3. CASE Commit(r)
    <2> DEFINE v(n) == [saved[n] EXCEPT ![Kind[r]] = saved[n][Kind[r]] \cup {r}]
    <2>1. saved' = [n \in Nodes |-> v(n)]
      BY <1>1, <1>3 DEF Commit
    <2>2. ASSUME NEW n \in Nodes
          PROVE  v(n) \in [ContentTypes -> Content]
      <3>1. saved[n] \in [ContentTypes -> Content]
        BY <1>1
      <3>2. saved[n][Kind[r]] \cup {r} \in Content
        BY <1>1, <3>1 DEF Content
      <3>3. QED
        BY <3>1, <3>2
    <2> HIDE DEF v
    <2>3. QED
      BY <2>1, <2>2
  <1>4. CASE SaveSettings(r)
    <2> DEFINE n == req[r].node
               v == [saved[n] EXCEPT ![Kind[r]] = {r}]
    <2>1. saved' = [saved EXCEPT ![n] = v]
      BY <1>4 DEF SaveSettings
    <2>2. n \in Nodes => v \in [ContentTypes -> Content]
      BY <1>1, <1>2
    <2> HIDE DEF n, v
    <2>3. QED
      BY <1>1, <2>1, <2>2
  <1>5. QED
    BY <1>3, <1>4

\* The requests' progress keeps its type.
LEMMA RequestType ==
  ASSUME TypeOK, NEW r \in Requests, RequestStep(r)
  PROVE  req' \in [Requests -> ReqState]
  <1> USE DEF ReqState
  <1>0. req \in [Requests -> ReqState]
    BY DEF TypeOK
  <1>1. CASE Commit(r)
    BY <1>0, <1>1, ZenonT(40) DEF Commit
  <1>2. CASE \E n \in Nodes : Begin(r, n)
    <2>1. PICK n \in Nodes : Begin(r, n)
      BY <1>2
    <2> DEFINE x == [req[r] EXCEPT !.pc = "delete", !.todo = {n}]
    <2>2. x \in ReqState
      BY <1>0
    <2>3. req' = [req EXCEPT ![r] = x]
      BY <1>0, <2>1 DEF Begin
    <2> HIDE DEF x, ReqState
    <2>4. QED
      BY <1>0, <2>2, <2>3
  <1>3. CASE \E n \in Nodes : EnqueueDelete(r, n)
    BY <1>0, <1>3 DEF EnqueueDelete
  <1>4. CASE EnqueueInsert(r)
    BY <1>0, <1>4 DEF EnqueueInsert, AfterInsert
  <1>5. CASE EnqueueInsertFails(r)
    <2> DEFINE pc == IF Kind[r] \in DbTypes THEN AfterInsert(r) ELSE "done"
    <2>1. pc \in {"new", "delete", "insert", "save", "done"}
      BY DEF AfterInsert
    <2>2. req' = [req EXCEPT ![r].pc = pc, ![r].lost = TRUE]
      BY <1>5 DEF EnqueueInsertFails
    <2> HIDE DEF pc
    <2>3. QED
      BY <1>0, <2>1, <2>2, ZenonT(40)
  <1>6. CASE SaveSettings(r)
    BY <1>0, <1>6 DEF SaveSettings
  <1>7. CASE CancelRequest(r)
    BY <1>0, <1>7, ZenonT(40) DEF CancelRequest
  <1>8. QED
    BY <1>1, <1>2, <1>3, <1>4, <1>5, <1>6, <1>7 DEF RequestStep

\* A step of a request preserves the inductive invariant.
LEMMA RequestStepInv ==
  ASSUME QueueInv, NEW r \in Requests, RequestStep(r)
  PROVE  QueueInv'
  <1>0. TypeOK /\ req' \in [Requests -> ReqState]
    BY RequestType DEF QueueInv
  <1>a. ASSUME TypeOK', RowsKept, UNCHANGED <<exec, retry>>
        PROVE  QueueInv'
    BY <1>a, KeptInv, RetryUnchanged DEF Follows
  <1>1. CASE Commit(r) \/ SaveSettings(r)
    <2>1. saved' \in [Nodes -> [ContentTypes -> Content]]
      BY <1>0, <1>1, SavedType
    <2>2. UNCHANGED <<taskVars, exec, retry, nodeVars, faults>>
      BY <1>1 DEF Commit, SaveSettings
    <2>3. TypeOK'
      BY <1>0, <2>1, <2>2 DEF TypeOK, taskVars, nodeVars
    <2>4. QED
      BY <1>a, <2>2, <2>3, UnchangedRows
  <1>2. CASE \/ \E n \in Nodes : Begin(r, n)
             \/ CancelRequest(r) \/ EnqueueInsertFails(r)
    <2>1. UNCHANGED <<taskVars, exec, retry, saved, nodeVars, faults>>
      BY <1>2 DEF Begin, CancelRequest, EnqueueInsertFails
    <2>2. TypeOK'
      BY <1>0, <2>1 DEF TypeOK, taskVars, nodeVars
    <2>3. QED
      BY <1>a, <2>1, <2>2, UnchangedRows
  <1>3. CASE \E n \in Nodes : EnqueueDelete(r, n)
    <2>1. PICK n \in Nodes : EnqueueDelete(r, n)
      BY <1>3
    <2>2. DeletePending(n, Kind[r])
          /\ UNCHANGED <<exec, retry, saved, nodeVars, faults>>
      BY <2>1 DEF EnqueueDelete
    <2>3. status' \in [TaskId -> Status] /\ UNCHANGED <<info, epoch, nextId>>
      BY <1>0, <2>2, DeletePendingType
    <2>4. TypeOK'
      BY <1>0, <2>2, <2>3 DEF TypeOK, nodeVars
    <2>5. QED
      BY <1>a, <2>2, <2>4, DeleteRows
  <1>4. CASE EnqueueInsert(r)
    <2> DEFINE p == IF Kind[r] \in DbTypes THEN {} ELSE {r}
    <2>1. /\ InsertPending(req[r].node, Kind[r], p)
          /\ UNCHANGED <<exec, retry, saved, nodeVars, faults>>
      BY <1>4 DEF EnqueueInsert
    <2>2. /\ req[r].node \in Nodes \cup {NoNode}
          /\ Kind[r] \in Types
          /\ p \in Content
      BY <1>0 DEF TypeOK, ReqState, Types, Content
    <2>3. /\ status' \in [TaskId -> Status]
          /\ info' \in [TaskId -> TaskInfo]
          /\ epoch' \in [TaskId -> Nat]
          /\ nextId' \in 1 .. (MaxTasks + 1)
      BY <1>0, <2>1, <2>2, InsertPendingType
    <2>4. TypeOK'
      BY <1>0, <2>1, <2>3 DEF TypeOK, nodeVars
    <2>5. QED
      BY <1>a, <2>1, <2>4, InsertRows
  <1>5. QED
    BY <1>1, <1>2, <1>3, <1>4 DEF RequestStep

-----------------------------------------------------------------------------
\* A step of an executor that touches neither rows nor nodes.
QuietStep(e) ==
  \/ StartSync(e) \/ EndSync(e) \/ SelectOldest(e) \/ SelectNone(e)
  \/ \E n \in Nodes : PollOnline(e, n) \/ PollFails(e, n)
  \/ ClaimMisses(e) \/ ReadContent(e) \/ ReadFails(e)
  \/ RestartInsertFails(e) \/ CompleteFails(e) \/ CancelSync(e)

\* What an executor is after a task or a node.
LEMMA TaskOverType ==
  ASSUME NEW x \in ExecState
  PROVE  /\ TaskOver(x) \in ExecState
         /\ TaskOver(x).pc = "select" /\ TaskOver(x).node = x.node
  <1> DEFINE y == TaskOver(x)
  <1>1. y \in ExecState
    BY ZenonT(40) DEF TaskOver, ExecState, ExecPc, Content
  <1>2. y.pc = "select" /\ y.node = x.node
    BY DEF TaskOver, ExecState
  <1>3. QED
    BY <1>1, <1>2

LEMMA NodeOverType ==
  ASSUME NEW x \in ExecState
  PROVE  /\ NodeOver(x) \in ExecState
         /\ NodeOver(x).pc = "poll"
  <1>1. IdleExec \in ExecState /\ x.todo \in SUBSET Nodes
    BY DEF IdleExec, ExecState, ExecPc, Content
  <1>2. NodeOver(x) = [IdleExec EXCEPT !.pc = "poll", !.todo = x.todo]
    BY DEF NodeOver
  <1>3. QED
    BY <1>1, <1>2 DEF ExecState, ExecPc

\* It keeps the executors' states in their type ...
LEMMA QuietStepType ==
  ASSUME TypeOK, NEW e \in Executors, QuietStep(e),
         exec[e].pc = "read" => exec[e].id \in TaskId /\ exec[e].node \in Nodes
  PROVE  exec' \in [Executors -> ExecState]
  <1> USE DEF ExecState, ExecPc
  <1>0. exec \in [Executors -> ExecState]
    BY DEF TypeOK
  <1>1. CASE StartSync(e)
    <2> DEFINE x == [exec[e] EXCEPT !.pc = "poll", !.todo = Nodes]
    <2>1. x \in ExecState
      BY <1>0, ZenonT(40)
    <2>2. exec' = [exec EXCEPT ![e] = x]
      BY <1>0, <1>1 DEF StartSync
    <2> HIDE DEF x, ExecState
    <2>3. QED
      BY <1>0, <2>1, <2>2
  <1>2. CASE \E n \in Nodes : PollOnline(e, n)
    BY <1>0, <1>2 DEF PollOnline
  <1>3. CASE \E n \in Nodes : PollFails(e, n)
    BY <1>0, <1>3 DEF PollFails
  <1>4. CASE EndSync(e)
    <2>1. IdleExec \in ExecState
      BY DEF IdleExec, Content
    <2>2. exec' = [exec EXCEPT ![e] = IdleExec]
      BY <1>4 DEF EndSync
    <2> HIDE DEF ExecState
    <2>3. QED
      BY <1>0, <2>1, <2>2
  <1>5. CASE SelectOldest(e)
    <2>1. PICK t \in Pending(exec[e].node) :
             exec' = [exec EXCEPT ![e].pc = "claim", ![e].id = t]
      BY <1>5 DEF SelectOldest
    <2>2. t \in Nat
      BY <2>1 DEF Pending, TaskId
    <2> DEFINE x == [exec[e] EXCEPT !.pc = "claim", !.id = t]
    <2>3. x \in ExecState
      BY <1>0, <2>2, ZenonT(40)
    <2>4. exec' = [exec EXCEPT ![e] = x]
      BY <1>0, <2>1
    <2> HIDE DEF x, ExecState
    <2>5. QED
      BY <1>0, <2>3, <2>4
  <1>6. CASE SelectNone(e) \/ ClaimMisses(e)
    <2> HIDE DEF ExecState
    <2>1. NodeOver(exec[e]) \in ExecState
      BY <1>0, NodeOverType
    <2>2. QED
      BY <1>0, <1>6, <2>1 DEF SelectNone, ClaimMisses
  <1>7. CASE CompleteFails(e)
    <2> HIDE DEF ExecState
    <2>1. TaskOver(exec[e]) \in ExecState
      BY <1>0, TaskOverType
    <2>2. QED
      BY <1>0, <1>7, <2>1 DEF CompleteFails
  <1>8. CASE ReadContent(e)
    <2> DEFINE row == info[exec[e].id]
               v == IF row.type \in DbTypes THEN saved[exec[e].node][row.type]
                    ELSE row.payload
    <2>1. row \in TaskInfo /\ exec[e].node \in Nodes
      BY <1>0, <1>8 DEF ReadContent, TypeOK
    <2>2. v \in Content
      BY <2>1 DEF TaskInfo, ContentTypes, TypeOK
    <2> DEFINE x == [exec[e] EXCEPT !.pc = "write", !.val = v]
    <2>3. exec' = [exec EXCEPT ![e] = x]
      BY <1>0, <1>8 DEF ReadContent
    <2> HIDE DEF v
    <2>4. x \in ExecState
      BY <1>0, <2>2, ZenonT(40)
    <2> HIDE DEF x, ExecState
    <2>5. QED
      BY <1>0, <2>3, <2>4
  <1>9. CASE ReadFails(e)
    <2> DEFINE x == [exec[e] EXCEPT !.pc = "complete", !.err = "error"]
    <2>1. x \in ExecState
      BY <1>0, ZenonT(40)
    <2>2. exec' = [exec EXCEPT ![e] = x]
      BY <1>0, <1>9 DEF ReadFails
    <2> HIDE DEF x, ExecState
    <2>3. QED
      BY <1>0, <2>1, <2>2
  <1>10. CASE RestartInsertFails(e)
    <2> DEFINE x == [exec[e] EXCEPT !.pc = "complete", !.err = "error"]
    <2>1. x \in ExecState
      BY <1>0, ZenonT(40)
    <2>2. exec' = [exec EXCEPT ![e] = x]
      BY <1>0, <1>10 DEF RestartInsertFails
    <2> HIDE DEF x, ExecState
    <2>3. QED
      BY <1>0, <2>1, <2>2
  <1>11. CASE CancelSync(e)
    <2>1. IdleExec \in ExecState
      BY DEF IdleExec, Content
    <2>2. exec' = [exec EXCEPT ![e] = IdleExec]
      BY <1>11 DEF CancelSync
    <2> HIDE DEF ExecState
    <2>3. QED
      BY <1>0, <2>1, <2>2
  <1>12. QED
    BY <1>1, <1>2, <1>3, <1>4, <1>5, <1>6, <1>7, <1>8, <1>9, <1>10, <1>11
    DEF QuietStep

\* ... and claims nothing.
LEMMA QuietStepFollows ==
  ASSUME QueueInv, NEW e \in Executors, QuietStep(e)
  PROVE  \A f \in Executors : Follows(f)
  <1>0. exec \in [Executors -> ExecState]
    BY DEF QueueInv, TypeOK
  <1>a. \A f \in Executors : f # e => exec'[f] = exec[f]
    BY <1>0 DEF QuietStep, StartSync, EndSync, SelectOldest, SelectNone,
       PollOnline, PollFails, ClaimMisses, ReadContent, ReadFails,
       RestartInsertFails, CompleteFails, CancelSync
  <1>b. SUFFICES Follows(e)
    BY <1>a DEF Follows
  <1>1. CASE StartSync(e) \/ EndSync(e) \/ SelectNone(e) \/ ClaimMisses(e)
             \/ CancelSync(e) \/ \E n \in Nodes : PollFails(e, n)
    <2>1. CASE SelectNone(e) \/ ClaimMisses(e)
      BY <1>0, <2>1, NodeOverType DEF SelectNone, ClaimMisses, Follows
    <2>2. CASE StartSync(e) \/ EndSync(e) \/ CancelSync(e)
               \/ \E n \in Nodes : PollFails(e, n)
      <3>1. exec'[e].pc \in {"idle", "poll"}
        BY <1>0, <2>2 DEF StartSync, EndSync, CancelSync, PollFails, IdleExec,
                          ExecState
      <3>2. QED
        BY <3>1 DEF Follows
    <2>3. QED
      BY <1>1, <2>1, <2>2
  <1>2. CASE \E n \in Nodes : PollOnline(e, n)
    BY <1>0, <1>2 DEF PollOnline, ExecState, Follows
  <1>3. CASE SelectOldest(e)
    <2>1. PICK t \in Pending(exec[e].node) :
             exec' = [exec EXCEPT ![e].pc = "claim", ![e].id = t]
      BY <1>3 DEF SelectOldest
    <2>2. t \in TaskId /\ t < nextId
      BY DEF Pending, QueueInv, IdsInOrder, TypeOK, TaskId
    <2>3. exec[e].node \in Nodes /\ exec[e].left > 0
      BY <1>3 DEF SelectOldest, QueueInv, IdsInOrder
    <2>4. exec'[e].pc = "claim" /\ exec'[e].id = t
          /\ exec'[e].node = exec[e].node /\ exec'[e].left = exec[e].left
      BY <1>0, <2>1 DEF ExecState
    <2>5. QED
      BY <2>2, <2>3, <2>4 DEF Follows
  <1>4. CASE ReadContent(e) \/ ReadFails(e) \/ RestartInsertFails(e)
    <2>1. exec[e].pc \in RunningPc
      BY <1>4 DEF ReadContent, ReadFails, RestartInsertFails, RunningPc
    <2>2. /\ exec'[e].pc \in RunningPc
          /\ exec'[e].id = exec[e].id
          /\ exec'[e].ep = exec[e].ep
          /\ exec'[e].node = exec[e].node
      BY <1>0, <1>4 DEF ReadContent, ReadFails, RestartInsertFails,
                        ExecState, RunningPc
    <2>3. QED
      BY <2>1, <2>2 DEF Follows
  <1>5. CASE CompleteFails(e)
    <2>1. exec[e].node \in Nodes
      BY <1>5 DEF CompleteFails, QueueInv, IdsInOrder
    <2>2. QED
      BY <1>0, <1>5, <2>1, TaskOverType DEF CompleteFails, Follows
  <1>6. QED
    BY <1>1, <1>2, <1>3, <1>4, <1>5 DEF QuietStep

\* Executor e is past its claim and stays so, in any of the five states.
LEMMA GoesOn ==
  ASSUME QueueInv, NEW e \in Executors, NEW p \in RunningPc,
         NEW err \in {"none", "error"}, exec[e].pc \in RunningPc,
         \/ exec' = [exec EXCEPT ![e].pc = p]
         \/ exec' = [exec EXCEPT ![e].pc = p, ![e].err = err]
  PROVE  /\ exec' \in [Executors -> ExecState]
         /\ \A f \in Executors : Follows(f)
  <1>0. exec \in [Executors -> ExecState] /\ p \in ExecPc
    BY DEF QueueInv, TypeOK, RunningPc, ExecPc
  <1> DEFINE x == [exec[e] EXCEPT !.pc = p]
             y == [exec[e] EXCEPT !.pc = p, !.err = err]
  <1>1. PICK z \in {x, y} : exec' = [exec EXCEPT ![e] = z]
    BY <1>0 DEF ExecState
  <1>2. z \in ExecState /\ z.pc = p /\ z.id = exec[e].id
        /\ z.ep = exec[e].ep /\ z.node = exec[e].node
    BY <1>0, ZenonT(40) DEF ExecState
  <1>3. exec' \in [Executors -> ExecState]
    BY <1>0, <1>1, <1>2
  <1>4. exec'[e] = z /\ \A f \in Executors : f # e => exec'[f] = exec[f]
    BY <1>0, <1>1
  <1>5. QED
    BY <1>2, <1>3, <1>4 DEF Follows

\* The end of a task preserves the inductive invariant: whatever status the
\* row gets, it is not 'pending'.
LEMMA CompleteInv ==
  ASSUME QueueInv, NEW e \in Executors, Complete(e)
  PROVE  QueueInv'
  <1> DEFINE t == exec[e].id
             st == IF status[t] = "deleted" THEN "deleted"
                   ELSE IF exec[e].err = "error" THEN "failed"
                   ELSE "completed"
  <1>0. /\ TypeOK /\ IdsInOrder
        /\ exec \in [Executors -> ExecState]
        /\ exec[e].pc = "complete"
        /\ exec[e].node \in Nodes
        /\ t \in TaskId /\ t < nextId
    BY DEF QueueInv, TypeOK, IdsInOrder, Complete, RunningPc
  <1>1. /\ status' = [status EXCEPT ![t] = st]
        /\ exec' = [exec EXCEPT ![e] = TaskOver(exec[e])]
        /\ UNCHANGED <<info, epoch, nextId, req, retry, saved, nodeVars,
                       faults>>
    BY DEF Complete
  <1>2. st \in {"deleted", "failed", "completed"}
    OBVIOUS
  <1> HIDE DEF st
  <1>3. RowsKept
    BY <1>0, <1>1, <1>2 DEF RowsKept, IdsInOrder, TypeOK, TaskId
  <1>4. exec' \in [Executors -> ExecState]
    BY <1>0, <1>1, TaskOverType
  <1>5. \A f \in Executors : Follows(f)
    BY <1>0, <1>1, TaskOverType DEF Follows
  <1>6. TypeOK'
    BY <1>0, <1>1, <1>2, <1>4 DEF TypeOK, Status, nodeVars
  <1>7. QED
    BY <1>1, <1>3, <1>5, <1>6, RetryUnchanged, KeptInv

\* A claim preserves the inductive invariant: the row was pending, so whoever
\* else still runs it runs an earlier activation.
LEMMA ClaimInv ==
  ASSUME QueueInv, NEW e \in Executors, Claim(e)
  PROVE  QueueInv'
  <1> DEFINE t == exec[e].id
             p == IF info[t].type = Restart THEN "write" ELSE "read"
             x == [exec[e] EXCEPT !.pc = p, !.ep = epoch[t],
                                  !.left = exec[e].left - 1,
                                  !.val = {}, !.err = "none"]
  <1>0. /\ TypeOK /\ IdsInOrder /\ RunsPastActivation /\ ActivationRunsOnce
        /\ exec \in [Executors -> ExecState]
        /\ exec[e].pc = "claim"
        /\ exec[e].node \in Nodes
        /\ t \in TaskId /\ t < nextId
        /\ status[t] = "pending"
        /\ exec[e].left > 0
    BY DEF QueueInv, TypeOK, IdsInOrder, Claim
  <1>1. /\ status' = [status EXCEPT ![t] = "processing"]
        /\ UNCHANGED <<info, epoch, nextId, req, retry, saved, nodeVars,
                       faults>>
    BY DEF Claim
  <1>2. exec' = [exec EXCEPT ![e] = x]
    BY <1>0 DEF Claim, ExecState
  <1>3. p \in RunningPc /\ p \in ExecPc
    BY DEF RunningPc, ExecPc
  <1>13. exec[e].left - 1 \in 0 .. MaxPerPoll
    BY <1>0 DEF ExecState
  <1>4. /\ x \in ExecState
        /\ x.pc = p /\ x.id = t /\ x.ep = epoch[t] /\ x.node = exec[e].node
    <2>1. epoch[t] \in Nat /\ {} \in Content
      BY <1>0 DEF TypeOK, Content
    <2> HIDE DEF p
    <2>2. QED
      BY <1>0, <1>3, <1>13, <2>1, ZenonT(40) DEF ExecState
  <1> HIDE DEF x, p
  <1>5. exec'[e] = x /\ \A f \in Executors : f # e => exec'[f] = exec[f]
    BY <1>0, <1>2
  <1>6. TypeOK'
    BY <1>0, <1>1, <1>2, <1>4 DEF TypeOK, Status, nodeVars
  <1>7. IdsInOrder'
    BY <1>0, <1>1, <1>3, <1>4, <1>5 DEF IdsInOrder, TypeOK, TaskId, RunningPc
  <1>8. ASSUME NEW f \in Executors, NEW u \in TaskId, Running(f, u)'
        PROVE  \/ f # e /\ Running(f, u) /\ exec'[f] = exec[f]
               \/ f = e /\ u = t /\ exec'[f].ep = epoch[t]
    <2>1. exec'[f].id = u /\ exec'[f].pc \in RunningPc
      BY <1>8 DEF Running
    <2>2. CASE f = e
      BY <1>4, <1>5, <2>1, <2>2
    <2>3. CASE f # e
      BY <1>5, <2>1, <2>3 DEF Running
    <2>4. QED
      BY <2>2, <2>3
  <1>9. RunsPastActivation'
    BY <1>0, <1>1, <1>8 DEF RunsPastActivation, TypeOK
  <1>10. \A f \in Executors : Running(f, t) => exec[f].ep < epoch[t]
    BY <1>0 DEF RunsPastActivation
  <1>11. ActivationRunsOnce'
    <2> SUFFICES ASSUME NEW f \in Executors, NEW g \in Executors,
                        NEW u \in TaskId, Running(f, u)', Running(g, u)',
                        exec'[f].ep = exec'[g].ep
                 PROVE  f = g
      BY DEF ActivationRunsOnce
    <2>1. \A h \in Executors : exec[h].ep \in Nat /\ epoch[t] \in Nat
      BY <1>0 DEF TypeOK, ExecState
    <2>2. CASE f # e /\ g # e
      BY <1>0, <1>8, <2>2 DEF ActivationRunsOnce
    <2>3. CASE f = e /\ g # e
      BY <1>8, <1>10, <2>1, <2>3
    <2>4. CASE f # e /\ g = e
      BY <1>8, <1>10, <2>1, <2>4
    <2>5. QED
      BY <2>2, <2>3, <2>4
  <1>12. QED
    BY <1>6, <1>7, <1>9, <1>11 DEF QueueInv

\* A step of an executor preserves the inductive invariant.
LEMMA ExecStepInv ==
  ASSUME QueueInv, NEW e \in Executors,
         StartSync(e) \/ ExecStep(e) \/ CancelSync(e)
  PROVE  QueueInv'
  <1>0. /\ TypeOK
        /\ exec[e].pc \notin {"idle", "poll"} => exec[e].node \in Nodes
        /\ exec[e].pc \in RunningPc \cup {"claim"} =>
              exec[e].id \in TaskId /\ exec[e].id < nextId
    BY DEF QueueInv, IdsInOrder
  <1>1. CASE QuietStep(e)
    <2>1. /\ exec' \in [Executors -> ExecState]
          /\ \A f \in Executors : Follows(f)
      BY <1>0, <1>1, QuietStepType, QuietStepFollows DEF RunningPc
    <2>2. UNCHANGED <<taskVars, req, retry, saved, nodeVars>>
      BY <1>1 DEF QuietStep, StartSync, EndSync, SelectOldest, SelectNone,
         PollOnline, PollFails, ClaimMisses, ReadContent, ReadFails,
         RestartInsertFails, CompleteFails, CancelSync
    <2>3. PICK T \in SUBSET Nat :
             \/ UNCHANGED faults
             \/ faults' = [faults EXCEPT !.stranded = @ \cup T]
      <3>1. RunBy({e}) \in SUBSET Nat /\ {exec[e].id} \in SUBSET Nat
        BY <1>0 DEF TypeOK, RunBy, ExecState
      <3>2. QED
        BY <1>1, <3>1 DEF QuietStep, StartSync, EndSync, SelectOldest,
           SelectNone, PollOnline, PollFails, ClaimMisses, ReadContent,
           ReadFails, RestartInsertFails, CompleteFails, CancelSync
    <2>4. faults' \in [crashes: 0 .. MaxCrashes, stranded: SUBSET Nat]
      BY <1>0, <2>3 DEF TypeOK
    <2>5. TypeOK'
      BY <1>0, <2>1, <2>2, <2>4 DEF TypeOK, taskVars, nodeVars
    <2>6. QED
      BY <2>1, <2>2, <2>5, UnchangedRows, RetryUnchanged, KeptInv
  <1>2. CASE CallSucceeds(e) \/ CallFails(e)
    <2>1. /\ remote' \in [Nodes -> [ContentTypes -> Content]]
          /\ loaded' \in [Nodes -> [ContentTypes -> Content]]
      <3>1. CASE AgentApplies(e)
        BY <1>0, <1>2, <3>1, AgentAppliesType
        DEF CallSucceeds, CallFails, RunningPc
      <3>2. CASE UNCHANGED nodeVars
        BY <1>0, <3>2 DEF nodeVars, TypeOK
      <3>3. QED
        BY <1>2, <3>1, <3>2 DEF CallSucceeds, CallFails
    <2>2. /\ exec' \in [Executors -> ExecState]
          /\ \A f \in Executors : Follows(f)
      BY <1>2, GoesOn DEF CallSucceeds, CallFails, RunningPc
    <2>3. UNCHANGED <<taskVars, req, retry, saved, faults>>
      BY <1>2 DEF CallSucceeds, CallFails
    <2>4. TypeOK'
      BY <1>0, <2>1, <2>2, <2>3 DEF TypeOK, taskVars
    <2>5. QED
      BY <2>2, <2>3, <2>4, UnchangedRows, RetryUnchanged, KeptInv
  <1>3. CASE RestartDelete(e)
    <2>1. /\ DeletePending(exec[e].node, Restart)
          /\ UNCHANGED <<req, retry, saved, nodeVars, faults>>
      BY <1>3 DEF RestartDelete
    <2>2. status' \in [TaskId -> Status] /\ UNCHANGED <<info, epoch, nextId>>
      BY <1>0, <2>1, DeletePendingType
    <2>3. /\ exec' \in [Executors -> ExecState]
          /\ \A f \in Executors : Follows(f)
      BY <1>3, GoesOn DEF RestartDelete, RunningPc
    <2>4. TypeOK'
      BY <1>0, <2>1, <2>2, <2>3 DEF TypeOK, nodeVars
    <2>5. QED
      BY <2>1, <2>3, <2>4, DeleteRows, RetryUnchanged, KeptInv
  <1>4. CASE RestartInsert(e)
    <2>1. /\ InsertPending(exec[e].node, Restart, {})
          /\ UNCHANGED <<req, retry, saved, nodeVars, faults>>
      BY <1>4 DEF RestartInsert
    <2>2. /\ exec[e].node \in Nodes \cup {NoNode}
          /\ Restart \in Types /\ {} \in Content
      BY <1>0, <1>4 DEF RestartInsert, Types, Content
    <2>3. /\ status' \in [TaskId -> Status]
          /\ info' \in [TaskId -> TaskInfo]
          /\ epoch' \in [TaskId -> Nat]
          /\ nextId' \in 1 .. (MaxTasks + 1)
      BY <1>0, <2>1, <2>2, InsertPendingType
    <2>4. /\ exec' \in [Executors -> ExecState]
          /\ \A f \in Executors : Follows(f)
      BY <1>4, GoesOn DEF RestartInsert, RunningPc
    <2>5. TypeOK'
      BY <1>0, <2>1, <2>3, <2>4 DEF TypeOK, nodeVars
    <2>6. QED
      BY <2>1, <2>4, <2>5, InsertRows, RetryUnchanged, KeptInv
  <1>5. CASE Complete(e)
    BY <1>5, CompleteInv
  <1>6. CASE Claim(e)
    BY <1>6, ClaimInv
  <1>7. QED
    BY <1>1, <1>2, <1>3, <1>4, <1>5, <1>6 DEF ExecStep, QuietStep

\* A step of a retry preserves the inductive invariant: making the row pending
\* starts a new activation, later than any that is being run.
LEMMA RetryStepInv ==
  ASSUME QueueInv, NEW q \in Retries, RetryStep(q)
  PROVE  QueueInv'
  <1> DEFINE RetryState == [pc: {"new", "write", "done"}, id: Nat]
  <1>0. TypeOK /\ IdsInOrder /\ RunsPastActivation /\ ActivationRunsOnce
        /\ retry \in [Retries -> RetryState]
    BY DEF QueueInv, TypeOK
  <1>1. CASE \E t \in TaskId : RetryRead(q, t)
    <2>1. PICK t \in TaskId : RetryRead(q, t)
      BY <1>1
    <2> DEFINE x == [pc |-> IF status[t] = "processing" THEN "done"
                            ELSE "write", id |-> t]
    <2>2. /\ retry' = [retry EXCEPT ![q] = x]
          /\ UNCHANGED <<taskVars, exec, req, saved, nodeVars, faults>>
      BY <2>1 DEF RetryRead
    <2>3. x \in RetryState /\ x.id = t /\ t < nextId
      BY <1>0, <2>1 DEF RetryRead, IdsInOrder, TypeOK, TaskId
    <2> HIDE DEF x, RetryState
    <2>4. retry' \in [Retries -> RetryState]
      BY <1>0, <2>2, <2>3
    <2>5. RetryFollows
      BY <1>0, <2>2, <2>3 DEF RetryFollows, IdsInOrder
    <2>6. TypeOK'
      BY <1>0, <2>2, <2>4 DEF TypeOK, taskVars, nodeVars, RetryState
    <2>7. QED
      BY <2>2, <2>5, <2>6, UnchangedRows, KeptInv DEF Follows
  <1>2. CASE RetryWrite(q)
    <2> DEFINE t == retry[q].id
    <2>1. t \in TaskId /\ t < nextId /\ retry[q].pc = "write"
      BY <1>0, <1>2 DEF RetryWrite, IdsInOrder
    <2>2. /\ retry' = [retry EXCEPT ![q].pc = "done"]
          /\ UNCHANGED <<info, nextId, exec, req, saved, nodeVars, faults>>
      BY <1>2 DEF RetryWrite
    <2>3. /\ retry' \in [Retries -> RetryState]
          /\ \A r \in Retries : retry'[r].pc = "write" => retry'[r] = retry[r]
      BY <1>0, <2>2
    <2>4. CASE status[t] = "deleted"
      <3>1. UNCHANGED <<status, epoch>>
        BY <1>2, <2>4 DEF RetryWrite
      <3>2. TypeOK'
        BY <1>0, <2>2, <2>3, <3>1 DEF TypeOK, nodeVars
      <3>3. RetryFollows
        BY <1>0, <2>3 DEF RetryFollows, IdsInOrder
      <3>4. QED
        BY <2>2, <3>1, <3>2, <3>3, UnchangedRows, KeptInv
        DEF Follows, taskVars
    <2>5. CASE status[t] # "deleted"
      <3>1. /\ status' = [status EXCEPT ![t] = "pending"]
            /\ epoch' = [epoch EXCEPT ![t] = @ + 1]
        BY <1>2, <2>5 DEF RetryWrite
      <3>2. TypeOK'
        <4>1. epoch' \in [TaskId -> Nat]
          BY <1>0, <2>1, <3>1 DEF TypeOK
        <4>2. status' \in [TaskId -> Status]
          BY <1>0, <3>1 DEF TypeOK, Status
        <4>3. QED
          BY <1>0, <2>2, <2>3, <4>1, <4>2 DEF TypeOK, nodeVars
      <3>3. status[t] # "free"
        BY <1>0, <2>1 DEF IdsInOrder, TypeOK, TaskId
      <3>4. IdsInOrder'
        BY <1>0, <2>1, <2>2, <2>3, <3>1, <3>3
        DEF IdsInOrder, TypeOK, TaskId
      <3>5. \A e \in Executors, u \in TaskId :
               /\ Running(e, u)' <=> Running(e, u)
               /\ exec'[e].ep = exec[e].ep /\ exec[e].ep \in Nat
               /\ epoch[u] \in Nat
        BY <1>0, <2>2 DEF Running, TypeOK, ExecState
      <3>6. \A u \in TaskId :
               /\ u # t => epoch'[u] = epoch[u] /\ status'[u] = status[u]
               /\ u = t => epoch'[u] = epoch[u] + 1
        BY <1>0, <3>1 DEF TypeOK
      <3>7. RunsPastActivation'
        BY <1>0, <3>5, <3>6 DEF RunsPastActivation
      <3>8. ActivationRunsOnce'
        BY <1>0, <3>5 DEF ActivationRunsOnce
      <3>9. QED
        BY <3>2, <3>4, <3>7, <3>8 DEF QueueInv
    <2>6. QED
      BY <2>4, <2>5
  <1>3. QED
    BY <1>1, <1>2 DEF RetryStep

\* A crash preserves the inductive invariant: nobody runs anything after it.
LEMMA CrashInv ==
  ASSUME QueueInv, Crash
  PROVE  QueueInv'
  <1>0. TypeOK
    BY DEF QueueInv
  <1>1. /\ exec' = [e \in Executors |-> IdleExec]
        /\ UNCHANGED <<taskVars, saved, nodeVars>>
    BY DEF Crash
  <1>7. faults' \in [crashes: 0 .. MaxCrashes, stranded: SUBSET Nat]
    <2>1. /\ faults.crashes \in 0 .. MaxCrashes
          /\ faults.stranded \cup RunBy(Executors) \in SUBSET Nat
      BY <1>0 DEF TypeOK, RunBy, ExecState
    <2>2. /\ faults.crashes < MaxCrashes
          /\ faults' = [crashes |-> faults.crashes + 1,
                        stranded |-> faults.stranded \cup RunBy(Executors)]
      BY DEF Crash
    <2>3. faults.crashes + 1 \in 0 .. MaxCrashes
      BY <2>1, <2>2
    <2>4. QED
      BY <2>1, <2>2, <2>3
  <1>2. exec' \in [Executors -> ExecState]
        /\ \A e \in Executors : exec'[e].pc = "idle"
    BY <1>1 DEF IdleExec, ExecState, ExecPc, Content
  <1>3. req' \in [Requests -> ReqState]
    <2>0. req \in [Requests -> ReqState]
      BY <1>0 DEF TypeOK
    <2>1. ASSUME NEW r \in Requests
          PROVE  [req[r] EXCEPT !.pc = "done", !.lost = TRUE] \in ReqState
      BY <2>0 DEF ReqState
    <2> HIDE DEF ReqState
    <2>2. QED
      BY <2>0, <2>1 DEF Crash
  <1>4. retry' \in [Retries -> [pc: {"new", "write", "done"}, id: Nat]]
        /\ \A q \in Retries : retry'[q].pc # "write"
    BY <1>0 DEF Crash, TypeOK
  <1>5. TypeOK'
    BY <1>0, <1>1, <1>2, <1>3, <1>4, <1>7 DEF TypeOK, taskVars, nodeVars
  <1>6. QED
    BY <1>1, <1>2, <1>4, <1>5, UnchangedRows, KeptInv
    DEF Follows, RetryFollows

-----------------------------------------------------------------------------
\* The inductive invariant holds in every behaviour of the queue.
THEOREM QueueInvariant == Spec => []QueueInv
  <1>1. Init => QueueInv
    BY InitQueueInv
  <1>2. QueueInv /\ [Next]_vars => QueueInv'
    <2> SUFFICES ASSUME QueueInv, [Next]_vars PROVE QueueInv'
      OBVIOUS
    <2>1. ASSUME NEW r \in Requests, RequestStep(r) PROVE QueueInv'
      BY <2>1, RequestStepInv
    <2>2. ASSUME NEW e \in Executors,
                 StartSync(e) \/ ExecStep(e) \/ CancelSync(e)
          PROVE  QueueInv'
      BY <2>2, ExecStepInv
    <2>3. ASSUME NEW q \in Retries, RetryStep(q) PROVE QueueInv'
      BY <2>3, RetryStepInv
    <2>4. CASE Crash
      BY <2>4, CrashInv
    <2>5. CASE UNCHANGED vars
      BY <2>5 DEF vars, QueueInv, TypeOK, IdsInOrder, RunsPastActivation,
         ActivationRunsOnce, Running
    <2>6. QED
      BY <2>1, <2>2, <2>3, <2>4, <2>5 DEF Next
  <1>3. QED
    BY <1>1, <1>2, PTL DEF Spec

\* Type correctness of the queue's specification.
THEOREM TypeCorrect == Spec => []TypeOK
  <1>1. QueueInv => TypeOK
    BY DEF QueueInv
  <1>2. QED
    BY <1>1, QueueInvariant, PTL

\* However many executors poll a node (the worker and any number of manual
\* syncs) and however requests, retries, cancelled contexts and crashes
\* interleave with them, claimPendingTask hands an activation of a task to at
\* most one executor.
THEOREM ClaimIsExclusive == Spec => []ActivationRunsOnce
  <1>1. QueueInv => ActivationRunsOnce
    BY DEF QueueInv
  <1>2. QED
    BY <1>1, QueueInvariant, PTL

-----------------------------------------------------------------------------
\* Ids below nextId are those of the rows that were inserted.
LEMMA UsedIds ==
  ASSUME QueueInv
  PROVE  /\ \A t \in TaskId : status[t] # "free" <=> t < nextId
         /\ nextId \in Nat /\ \A t \in TaskId : t \in Nat
  <1>1. nextId \in Nat /\ \A t \in TaskId : t \in Nat
    BY DEF QueueInv, TypeOK, TaskId
  <1>2. \A t \in TaskId : status[t] = "free" <=> nextId <= t
    BY DEF QueueInv, IdsInOrder
  <1>3. QED
    BY <1>1, <1>2

\* Rows that exist keep their type, node and payload.
InfoKept == \A t \in TaskId : t < nextId => info'[t] = info[t]

LEMMA InfoIsKept ==
  ASSUME QueueInv, Next
  PROVE  InfoKept
  <1>0. TypeOK
    BY DEF QueueInv
  <1>1. ASSUME NEW n, NEW k, NEW p, InsertPending(n, k, p)
        PROVE  InfoKept
    BY <1>0, <1>1 DEF TypeOK, InsertPending, InfoKept, TaskId
  <1>2. ASSUME UNCHANGED info PROVE InfoKept
    BY <1>2 DEF InfoKept
  <1>3. ASSUME NEW r \in Requests, RequestStep(r) PROVE InfoKept
    BY <1>1, <1>2, <1>3 DEF RequestStep, Commit, Begin, EnqueueDelete,
       EnqueueInsert, EnqueueInsertFails, SaveSettings, CancelRequest,
       DeletePending, taskVars
  <1>4. ASSUME NEW e \in Executors,
               StartSync(e) \/ ExecStep(e) \/ CancelSync(e)
        PROVE  InfoKept
    BY <1>1, <1>2, <1>4 DEF StartSync, CancelSync, ExecStep, PollOnline,
       PollFails, EndSync, SelectOldest, SelectNone, Claim, ClaimMisses,
       ReadContent, ReadFails, CallSucceeds, CallFails, RestartDelete,
       RestartInsert, RestartInsertFails, Complete, CompleteFails,
       DeletePending, taskVars
  <1>5. ASSUME NEW q \in Retries, RetryStep(q) PROVE InfoKept
    BY <1>2, <1>5 DEF RetryStep, RetryRead, RetryWrite, taskVars
  <1>6. CASE Crash
    BY <1>2, <1>6 DEF Crash, taskVars
  <1>7. QED
    BY <1>3, <1>4, <1>5, <1>6 DEF Next

\* What an executor does in one step: it leaves its task or a node, chooses a
\* row, claims it, or goes on with it in the order of executeTask.
SameTask(e) == /\ exec'[e].id = exec[e].id /\ exec'[e].node = exec[e].node
               /\ exec'[e].ep = exec[e].ep
Chooses(e) ==
  /\ exec'[e].pc = "claim" /\ exec'[e].id \in TaskId /\ exec'[e].id < nextId
  /\ info[exec'[e].id].node = exec'[e].node
Claims(e) ==
  /\ exec[e].pc = "claim" /\ status[exec[e].id] = "pending"
  /\ exec'[e].id = exec[e].id /\ exec'[e].node = exec[e].node
  /\ exec'[e].ep = epoch[exec[e].id]
  /\ exec'[e].pc = IF info[exec[e].id].type = Restart THEN "write" ELSE "read"
Reads(e) ==
  /\ SameTask(e) /\ exec[e].pc = "read" /\ exec'[e].pc = "write"
  /\ exec'[e].val = IF info[exec[e].id].type \in DbTypes
                      THEN saved[exec[e].node][info[exec[e].id].type]
                      ELSE info[exec[e].id].payload
Writes(e) ==
  /\ SameTask(e) /\ exec[e].pc = "write"
  /\ exec'[e].pc = IF info[exec[e].id].type \in SyncTypes THEN "rdelete"
                   ELSE "complete"
Enqueues(e) ==
  /\ SameTask(e)
  /\ \/ exec[e].pc = "rdelete" /\ exec'[e].pc = "rinsert"
     \/ exec[e].pc = "rinsert" /\ exec'[e].pc = "complete"
Fails(e) ==
  /\ SameTask(e) /\ exec[e].pc \in {"read", "write", "rinsert"}
  /\ exec'[e].pc = "complete" /\ exec'[e].err = "error"
Moved(e) ==
  /\ \A f \in Executors : f # e => exec'[f] = exec[f]
  /\ \/ exec'[e].pc \in {"idle", "poll", "select"}
     \/ Chooses(e) \/ Claims(e) \/ Reads(e) \/ Writes(e) \/ Enqueues(e)
     \/ Fails(e)

\* A claim takes the row's activation and goes on by its type.
LEMMA ClaimClaims ==
  ASSUME NEW e \in Executors, exec \in [Executors -> ExecState], Claim(e)
  PROVE  Claims(e)
  <1> DEFINE t == exec[e].id
             p == IF info[t].type = Restart THEN "write" ELSE "read"
             x == [exec[e] EXCEPT !.pc = p, !.ep = epoch[t],
                                  !.left = exec[e].left - 1,
                                  !.val = {}, !.err = "none"]
  <1>1. exec' = [exec EXCEPT ![e] = x]
    BY DEF Claim, ExecState
  <1>2. exec[e] \in ExecState /\ exec'[e] = x
    BY <1>1
  <1> HIDE DEF p
  <1>3. x.id = t /\ x.node = exec[e].node /\ x.ep = epoch[t] /\ x.pc = p
    BY <1>2 DEF ExecState
  <1> HIDE DEF x
  <1>4. QED
    BY <1>2, <1>3 DEF Claim, Claims, p

LEMMA ExecMoves ==
  ASSUME QueueInv, NEW e \in Executors,
         StartSync(e) \/ ExecStep(e) \/ CancelSync(e)
  PROVE  Moved(e)
  <1>0. exec \in [Executors -> ExecState]
    BY DEF QueueInv, TypeOK
  <1>1. \A f \in Executors : f # e => exec'[f] = exec[f]
    BY <1>0 DEF StartSync, CancelSync, ExecStep, PollOnline,
       PollFails, EndSync, SelectOldest, SelectNone, Claim, ClaimMisses,
       ReadContent, ReadFails, CallSucceeds, CallFails, RestartDelete,
       RestartInsert, RestartInsertFails, Complete, CompleteFails
  <1>2. CASE \/ StartSync(e) \/ CancelSync(e) \/ EndSync(e) \/ SelectNone(e)
             \/ ClaimMisses(e) \/ Complete(e) \/ CompleteFails(e)
             \/ \E n \in Nodes : PollOnline(e, n) \/ PollFails(e, n)
    <2>1. CASE StartSync(e) \/ CancelSync(e) \/ EndSync(e)
      BY <1>0, <1>1, <2>1 DEF StartSync, CancelSync, EndSync, IdleExec,
         ExecState, Moved
    <2>2. CASE SelectNone(e) \/ ClaimMisses(e)
      BY <1>0, <1>1, <2>2, NodeOverType DEF SelectNone, ClaimMisses, Moved
    <2>3. CASE Complete(e) \/ CompleteFails(e)
      BY <1>0, <1>1, <2>3, TaskOverType DEF Complete, CompleteFails, Moved
    <2>4. ASSUME NEW n \in Nodes, PollOnline(e, n) \/ PollFails(e, n)
          PROVE  exec'[e].pc \in {"idle", "poll", "select"}
      BY <1>0, <2>4 DEF PollOnline, PollFails, ExecState
    <2>5. QED
      BY <1>1, <1>2, <2>1, <2>2, <2>3, <2>4 DEF Moved
  <1>3. CASE SelectOldest(e)
    <2>1. PICK t \in Pending(exec[e].node) :
             exec' = [exec EXCEPT ![e].pc = "claim", ![e].id = t]
      BY <1>3 DEF SelectOldest
    <2>2. /\ t \in TaskId /\ info[t].node = exec[e].node
          /\ status[t] = "pending" /\ t < nextId
      <3>1. t \in TaskId /\ info[t].node = exec[e].node /\ status[t] = "pending"
        BY DEF Pending
      <3>2. QED
        BY <3>1, UsedIds
    <2>3. exec'[e].pc = "claim" /\ exec'[e].id = t
          /\ exec'[e].node = exec[e].node
      BY <1>0, <2>1 DEF ExecState
    <2>4. QED
      BY <1>1, <2>2, <2>3 DEF Moved, Chooses
  <1>4. CASE Claim(e)
    <2>1. Claims(e)
      BY <1>0, <1>4, ClaimClaims
    <2>2. QED
      BY <1>1, <2>1 DEF Moved
  <1>5. CASE ReadContent(e)
    <2>1. Reads(e)
      BY <1>0, <1>5 DEF ReadContent, Reads, ExecState, SameTask
    <2>2. QED
      BY <1>1, <2>1 DEF Moved
  <1>6. CASE CallSucceeds(e)
    <2>1. Writes(e)
      BY <1>0, <1>6 DEF CallSucceeds, Writes, ExecState, SameTask
    <2>2. QED
      BY <1>1, <2>1 DEF Moved
  <1>7. CASE RestartDelete(e) \/ RestartInsert(e)
    <2>1. Enqueues(e)
      BY <1>0, <1>7 DEF RestartDelete, RestartInsert, Enqueues, ExecState,
                        SameTask
    <2>2. QED
      BY <1>1, <2>1 DEF Moved
  <1>8. CASE ReadFails(e) \/ CallFails(e) \/ RestartInsertFails(e)
    <2>1. Fails(e)
      BY <1>0, <1>8 DEF ReadFails, CallFails, RestartInsertFails, Fails,
                        ExecState, SameTask
    <2>2. QED
      BY <1>1, <2>1 DEF Moved
  <1>9. QED
    BY <1>2, <1>3, <1>4, <1>5, <1>6, <1>7, <1>8 DEF ExecStep

\* A step of a request or of a retry moves no executor, a crash stops all.
LEMMA OthersMoveNone ==
  ASSUME Next
  PROVE  \/ UNCHANGED exec
         \/ \E e \in Executors : StartSync(e) \/ ExecStep(e) \/ CancelSync(e)
         \/ Crash
  BY DEF Next, RequestStep, Commit, Begin, EnqueueDelete, EnqueueInsert,
     EnqueueInsertFails, SaveSettings, CancelRequest, RetryStep, RetryRead,
     RetryWrite

\* An executor stays at rows of its own node.
LEMMA RunsOwnRowInv ==
  ASSUME QueueInv, RunsOwnRow, Next
  PROVE  RunsOwnRow'
  <1>0. InfoKept
    BY InfoIsKept
  <1>1. \A e \in Executors :
           exec[e].pc \in RunningPc \cup {"claim"} =>
              exec[e].id \in TaskId /\ exec[e].id < nextId
    BY DEF QueueInv, IdsInOrder
  <1>2. CASE UNCHANGED exec
    BY <1>0, <1>1, <1>2 DEF RunsOwnRow, InfoKept, RunningPc
  <1>3. CASE Crash
    BY <1>3 DEF Crash, IdleExec, RunsOwnRow, RunningPc
  <1>4. ASSUME NEW e \in Executors,
               StartSync(e) \/ ExecStep(e) \/ CancelSync(e)
        PROVE  RunsOwnRow'
    <2>1. Moved(e)
      BY <1>4, ExecMoves
    <2>2. ASSUME NEW f \in Executors, f # e
          PROVE  /\ exec'[f].pc \in RunningPc \cup {"claim"} =>
                       info'[exec'[f].id].node = exec'[f].node
                 /\ exec'[f].pc \in {"rdelete", "rinsert"} =>
                       info'[exec'[f].id].type \in SyncTypes
      BY <1>0, <1>1, <2>1, <2>2 DEF Moved, RunsOwnRow, InfoKept, RunningPc
    <2>3. /\ exec'[e].pc \in RunningPc \cup {"claim"} =>
                info'[exec'[e].id].node = exec'[e].node
          /\ exec'[e].pc \in {"rdelete", "rinsert"} =>
                info'[exec'[e].id].type \in SyncTypes
      BY <1>0, <1>1, <2>1 DEF Moved, Chooses, Claims, Reads, Writes,
         Enqueues, Fails, SameTask, RunsOwnRow, InfoKept, RunningPc
    <2>4. QED
      BY <2>2, <2>3 DEF RunsOwnRow
  <1>5. QED
    BY <1>2, <1>3, <1>4, OthersMoveNone

-----------------------------------------------------------------------------
(* RestartFollowsWrite *)

\* As long as no Retry has begun, none has made a step.
LEMMA NoRetryBack ==
  ASSUME QueueInv, Next, NoRetry'
  PROVE  /\ NoRetry
         /\ \/ \E r \in Requests : RequestStep(r)
            \/ \E e \in Executors :
                  StartSync(e) \/ ExecStep(e) \/ CancelSync(e)
            \/ Crash
  <1>0. retry \in [Retries -> [pc: {"new", "write", "done"}, id: Nat]]
    BY DEF QueueInv, TypeOK
  <1>1. ASSUME NEW q \in Retries, RetryStep(q) PROVE FALSE
    <2>1. retry'[q].pc # "new"
      BY <1>0, <1>1 DEF RetryStep, RetryRead, RetryWrite
    <2>2. QED
      BY <2>1 DEF NoRetry
  <1>2. ASSUME NEW r \in Requests, RequestStep(r) PROVE UNCHANGED retry
    BY <1>2 DEF RequestStep, Commit, Begin, EnqueueDelete,
       EnqueueInsert, EnqueueInsertFails, SaveSettings, CancelRequest
  <1>3. ASSUME NEW e \in Executors,
               StartSync(e) \/ ExecStep(e) \/ CancelSync(e)
        PROVE  UNCHANGED retry
    BY <1>3 DEF StartSync, CancelSync, ExecStep, PollOnline,
       PollFails, EndSync, SelectOldest, SelectNone, Claim, ClaimMisses,
       ReadContent, ReadFails, CallSucceeds, CallFails, RestartDelete,
       RestartInsert, RestartInsertFails, Complete, CompleteFails
  <1>4. CASE Crash
    <2>1. \A q \in Retries : retry'[q].pc = "new" => retry[q].pc = "new"
      BY <1>0, <1>4 DEF Crash
    <2>2. QED
      BY <1>4, <2>1 DEF NoRetry
  <1>5. QED
    BY <1>1, <1>2, <1>3, <1>4 DEF Next, NoRetry

\* Without a Retry a running row is run by one executor.
LEMMA OneRunner ==
  ASSUME QueueInv, RunsProcessing, NEW e \in Executors, NEW f \in Executors,
         exec[e].pc \in RunningPc, exec[f].pc \in RunningPc,
         exec[e].id = exec[f].id
  PROVE  e = f
  <1>1. exec[e].id \in TaskId
    BY DEF QueueInv, IdsInOrder
  <1>2. exec[e].ep = exec[f].ep
    BY DEF RunsProcessing
  <1>3. QED
    BY <1>1, <1>2 DEF QueueInv, ActivationRunsOnce, Running

\* The rows of a step that neither removes nor inserts a restart of node n, and
\* ends tasks as their executors say.
RowsGoOn(n) ==
  \A t \in TaskId :
     /\ status[t] # "free" => info'[t] = info[t]
     /\ status[t] # "free" /\ info[t].node = n =>
           \/ status'[t] = status[t]
           \/ status[t] = "pending" /\ status'[t] = "processing"
           \/ /\ status[t] = "pending" /\ status'[t] = "deleted"
              /\ info[t].type # Restart
           \/ /\ status[t] = "processing"
              /\ status'[t] = IF Ends(t) THEN "completed" ELSE "failed"
     /\ status[t] = "free" =>
           \/ status'[t] = "free"
           \/ status'[t] = "pending"
              /\ ~(info'[t].node = n /\ info'[t].type = Restart)

\* No sync or restart of node n comes to its successful end.
NoneEnds(n) ==
  \A t \in TaskId :
     /\ status[t] # "free" /\ info[t].node = n
     /\ info[t].type \in SyncTypes \cup {Restart} /\ Ends(t)'
     => Ends(t)

\* Such steps leave a trace of every file that the service has not read.
LEMMA TracedFrame ==
  ASSUME QueueInv, NEW n \in Nodes, Traced(n), RowsGoOn(n), NoneEnds(n),
         \A k \in SyncTypes :
            /\ loaded'[n][k] = loaded[n][k]
            /\ remote'[n][k] = remote[n][k]
  PROVE  Traced(n)'
  <1>1. CASE \A k \in SyncTypes : loaded[n][k] = remote[n][k]
    BY <1>1 DEF Traced
  <1>2. CASE \E t \in TaskId :
                Newest(n, Restart, t) /\ status[t] # "completed" /\ ~Ends(t)
    <2>1. PICK t \in TaskId :
             Newest(n, Restart, t) /\ status[t] # "completed" /\ ~Ends(t)
      BY <1>2
    <2>2. /\ status[t] \notin {"free", "deleted"}
          /\ info[t].node = n /\ info[t].type = Restart
          /\ \A u \in Rows(n, Restart) : u <= t
      BY <2>1 DEF Newest, Rows
    <2>3. /\ status'[t] \notin {"free", "deleted", "completed"}
          /\ info'[t].node = n /\ info'[t].type = Restart
      BY <2>1, <2>2 DEF RowsGoOn
    <2>4. ~Ends(t)'
      BY <2>1, <2>2 DEF NoneEnds
    <2>5. ASSUME NEW u \in TaskId, u \in Rows(n, Restart)'
          PROVE  u <= t
      <3>1. /\ status'[u] \notin {"free", "deleted"}
            /\ info'[u].node = n /\ info'[u].type = Restart
        BY <2>5 DEF Rows
      <3>2. /\ status[u] \notin {"free", "deleted"}
            /\ info[u].node = n /\ info[u].type = Restart
        BY <3>1 DEF RowsGoOn
      <3>3. u \in Rows(n, Restart)
        BY <3>2 DEF Rows
      <3>4. QED
        BY <2>2, <3>3
    <2>6. t \in Rows(n, Restart)' /\ \A u \in Rows(n, Restart)' : u \in TaskId
      BY <2>3 DEF Rows
    <2>7. Newest(n, Restart, t)'
      BY <2>5, <2>6 DEF Newest
    <2>8. QED
      BY <2>3, <2>4, <2>7 DEF Traced
  <1>3. CASE \E t \in TaskId :
                /\ info[t].node = n /\ info[t].type \in SyncTypes
                /\ status[t] \in {"processing", "failed"} /\ ~Ends(t)
    <2>1. PICK t \in TaskId :
                /\ info[t].node = n /\ info[t].type \in SyncTypes
                /\ status[t] \in {"processing", "failed"} /\ ~Ends(t)
      BY <1>3
    <2>2. /\ info'[t].node = n /\ info'[t].type \in SyncTypes
          /\ status'[t] \in {"processing", "failed"}
      BY <2>1 DEF RowsGoOn
    <2>3. ~Ends(t)'
      BY <2>1 DEF NoneEnds
    <2>4. QED
      BY <2>2, <2>3 DEF Traced
  <1>4. QED
    BY <1>1, <1>2, <1>3 DEF Traced

\* The statements that leave the restarts of node n alone.
LEMMA GoOnUnchanged ==
  ASSUME QueueInv, UNCHANGED taskVars, NEW n
  PROVE  RowsGoOn(n)
  BY DEF taskVars, RowsGoOn

LEMMA GoOnDelete ==
  ASSUME QueueInv, NEW n, NEW m, NEW k, DeletePending(m, k),
         m # n \/ k # Restart
  PROVE  RowsGoOn(n)
  <1>1. \A t \in TaskId :
           \/ status'[t] = status[t]
           \/ /\ status[t] = "pending" /\ status'[t] = "deleted"
              /\ info[t].node = m /\ info[t].type = k
    BY DEF DeletePending, Pending
  <1>2. UNCHANGED info
    BY DEF DeletePending
  <1>3. QED
    BY <1>1, <1>2 DEF RowsGoOn

LEMMA GoOnInsert ==
  ASSUME QueueInv, NEW n, NEW m, NEW k, NEW p, InsertPending(m, k, p),
         m # n \/ k # Restart
  PROVE  RowsGoOn(n)
  <1>1. /\ nextId \in TaskId /\ status[nextId] = "free"
        /\ status \in [TaskId -> Status] /\ info \in [TaskId -> TaskInfo]
    BY UsedIds DEF QueueInv, TypeOK, IdsInOrder, InsertPending, TaskId
  <1>2. /\ \A t \in TaskId : t # nextId => /\ status'[t] = status[t]
                                           /\ info'[t] = info[t]
        /\ status'[nextId] = "pending"
        /\ info'[nextId] = [type |-> k, node |-> m, payload |-> p]
    BY <1>1 DEF InsertPending
  <1>3. QED
    BY <1>1, <1>2 DEF RowsGoOn

\* A running row stays in 'processing' until its executor ends it.
LEMMA ProcessingFrame ==
  ASSUME QueueInv, RunsProcessing, RowsKept, \A f \in Executors : Follows(f),
         \A f \in Executors :
            /\ exec'[f].pc \in RunningPc
            /\ status[exec'[f].id] = "processing"
            => status'[exec'[f].id] = "processing"
  PROVE  RunsProcessing'
  <1> SUFFICES ASSUME NEW f \in Executors, exec'[f].pc \in RunningPc
               PROVE  /\ status'[exec'[f].id] = "processing"
                      /\ exec'[f].ep = epoch'[exec'[f].id]
    BY DEF RunsProcessing
  <1>1. /\ exec[f].pc \in RunningPc
        /\ exec'[f].id = exec[f].id /\ exec'[f].ep = exec[f].ep
    BY DEF Follows, RunningPc
  <1>2. exec[f].id \in TaskId /\ exec[f].id < nextId
    BY <1>1 DEF QueueInv, IdsInOrder
  <1>3. status[exec[f].id] = "processing" /\ exec[f].ep = epoch[exec[f].id]
    BY <1>1 DEF RunsProcessing
  <1>4. QED
    BY <1>1, <1>2, <1>3 DEF RowsKept

\* A statement that only touches pending or new rows.
LEMMA ProcessingStays ==
  ASSUME QueueInv, NEW n, NEW k, NEW p,
         \/ UNCHANGED taskVars \/ DeletePending(n, k)
         \/ InsertPending(n, k, p)
  PROVE  \A t \in TaskId :
            status[t] = "processing" => status'[t] = "processing"
  <1>1. status \in [TaskId -> Status] /\ nextId \in Nat
    BY DEF QueueInv, TypeOK
  <1>2. CASE UNCHANGED taskVars
    BY <1>2 DEF taskVars
  <1>3. CASE DeletePending(n, k)
    BY <1>3 DEF DeletePending, Pending
  <1>4. CASE InsertPending(n, k, p)
    BY <1>1, <1>4, UsedIds DEF InsertPending, TaskId
  <1>5. QED
    BY <1>2, <1>3, <1>4

\* A step of a request leaves what the invariant says.
LEMMA RequestTraced ==
  ASSUME RestartInv, NoRetry, NEW r \in Requests, RequestStep(r)
  PROVE  RunsProcessing' /\ \A n \in Nodes : Traced(n)'
  <1>0. /\ QueueInv /\ RunsProcessing /\ \A n \in Nodes : Traced(n)
        /\ Kind[r] # Restart
    BY DEF RestartInv, ContentTypes, DbTypes, SyncTypes, Restart
  <1>1. UNCHANGED <<exec, retry>> /\ UNCHANGED <<remote, loaded>>
    BY DEF RequestStep, Commit, Begin, EnqueueDelete, EnqueueInsert,
       EnqueueInsertFails, SaveSettings, CancelRequest, nodeVars
  <1>2. PICK n \in Nodes \cup {req[r].node}, p \in {{}, {r}} :
           \/ UNCHANGED taskVars \/ DeletePending(n, Kind[r])
           \/ InsertPending(n, Kind[r], p)
    BY DEF RequestStep, Commit, Begin, EnqueueDelete, EnqueueInsert,
       EnqueueInsertFails, SaveSettings, CancelRequest
  <1>3. RowsKept
    BY <1>0, <1>2, UnchangedRows, DeleteRows, InsertRows
  <1>4. \A t \in TaskId :
            status[t] = "processing" => status'[t] = "processing"
    BY <1>0, <1>2, ProcessingStays
  <1>5. \A f \in Executors : exec[f].pc \in RunningPc => exec[f].id \in TaskId
    BY <1>0 DEF QueueInv, IdsInOrder
  <1>6. RunsProcessing'
    <2>1. \A f \in Executors : Follows(f)
      BY <1>1 DEF Follows
    <2>2. QED
      BY <1>0, <1>1, <1>3, <1>4, <1>5, <2>1, ProcessingFrame
  <1>7. ASSUME NEW m \in Nodes PROVE Traced(m)'
    <2>1. RowsGoOn(m)
      BY <1>0, <1>2, GoOnUnchanged, GoOnDelete, GoOnInsert
    <2>2. NoneEnds(m)
      BY <1>1 DEF NoneEnds, Ends
    <2>3. QED
      BY <1>0, <1>1, <2>1, <2>2, TracedFrame
  <1>8. QED
    BY <1>6, <1>7

\* So does a crash, after which nobody is about to end a task.
LEMMA CrashTraced ==
  ASSUME RestartInv, NoRetry, Crash
  PROVE  RunsProcessing' /\ \A n \in Nodes : Traced(n)'
  <1>0. QueueInv /\ \A n \in Nodes : Traced(n)
    BY DEF RestartInv
  <1>1. /\ UNCHANGED taskVars /\ UNCHANGED <<remote, loaded>>
        /\ \A e \in Executors : exec'[e].pc = "idle"
    BY DEF Crash, nodeVars, IdleExec
  <1>2. ASSUME NEW m \in Nodes PROVE Traced(m)'
    <2>1. NoneEnds(m)
      BY <1>1 DEF NoneEnds, Ends
    <2>2. QED
      BY <1>0, <1>1, <2>1, GoOnUnchanged, TracedFrame
  <1>3. QED
    BY <1>1, <1>2 DEF RunsProcessing, RunningPc

\* Only the executor that moved can have come to a successful end.
LEMMA EndsBack ==
  ASSUME NEW e \in Executors, \A f \in Executors : f # e => exec'[f] = exec[f],
         NEW t, Ends(t)',
         \/ exec'[e].id # t \/ exec'[e].pc # "complete"
         \/ exec'[e].err # "none"
  PROVE  Ends(t)
  BY DEF Ends

\* A step of an executor that touches neither rows nor nodes.
LEMMA QuietTraced ==
  ASSUME RestartInv, NoRetry, NEW e \in Executors, QuietStep(e)
  PROVE  RunsProcessing' /\ \A n \in Nodes : Traced(n)'
  <1>0. /\ QueueInv /\ RunsProcessing /\ \A n \in Nodes : Traced(n)
        /\ exec \in [Executors -> ExecState]
    BY DEF RestartInv, QueueInv, TypeOK
  <1>1. UNCHANGED taskVars /\ UNCHANGED <<remote, loaded>>
    BY DEF QuietStep, StartSync, EndSync, SelectOldest, SelectNone,
       PollOnline, PollFails, ClaimMisses, ReadContent, ReadFails,
       RestartInsertFails, CompleteFails, CancelSync, nodeVars
  <1>2. \A f \in Executors : Follows(f)
    BY <1>0, QuietStepFollows
  <1>3. RunsProcessing'
    <2>1. RowsKept
      BY <1>0, <1>1, UnchangedRows
    <2>2. QED
      BY <1>0, <1>1, <1>2, <2>1, ProcessingFrame DEF taskVars
  <1>4. Moved(e)
    BY <1>0, ExecMoves DEF QuietStep, ExecStep
  <1>5. exec'[e].pc # "complete" \/ exec'[e].err # "none"
    <2>1. CASE \/ StartSync(e) \/ EndSync(e) \/ ReadContent(e)
               \/ ReadFails(e) \/ RestartInsertFails(e) \/ CancelSync(e)
      BY <1>0, <2>1 DEF StartSync, EndSync, ReadContent, ReadFails,
         RestartInsertFails, CancelSync, IdleExec, ExecState
    <2>2. CASE SelectNone(e) \/ ClaimMisses(e) \/ CompleteFails(e)
      BY <1>0, <2>2, NodeOverType, TaskOverType
      DEF SelectNone, ClaimMisses, CompleteFails
    <2>3. CASE \E n \in Nodes : PollOnline(e, n) \/ PollFails(e, n)
      BY <1>0, <2>3 DEF PollOnline, PollFails, ExecState
    <2>4. CASE SelectOldest(e)
      <3>1. PICK t \in Pending(exec[e].node) :
               exec' = [exec EXCEPT ![e].pc = "claim", ![e].id = t]
        BY <2>4 DEF SelectOldest
      <3>2. QED
        BY <1>0, <3>1 DEF ExecState
    <2>5. QED
      BY <2>1, <2>2, <2>3, <2>4 DEF QuietStep
  <1>6. ASSUME NEW m \in Nodes PROVE Traced(m)'
    <2>1. NoneEnds(m)
      BY <1>4, <1>5, EndsBack DEF NoneEnds, Moved
    <2>2. QED
      BY <1>0, <1>1, <2>1, GoOnUnchanged, TracedFrame
  <1>7. QED
    BY <1>3, <1>6

\* A claim: the row is 'processing' and at its beginning.
LEMMA ClaimTraced ==
  ASSUME RestartInv, NoRetry, NEW e \in Executors, Claim(e)
  PROVE  RunsProcessing' /\ \A n \in Nodes : Traced(n)'
  <1> DEFINE t == exec[e].id
  <1>0. /\ QueueInv /\ RunsProcessing /\ \A n \in Nodes : Traced(n)
        /\ t \in TaskId /\ status \in [TaskId -> Status]
        /\ status[t] = "pending"
    BY DEF RestartInv, QueueInv, TypeOK, IdsInOrder, Claim
  <1>1. /\ UNCHANGED <<info, epoch>> /\ UNCHANGED <<remote, loaded>>
        /\ status' = [status EXCEPT ![t] = "processing"]
    BY DEF Claim, nodeVars
  <1>2. Moved(e)
    BY <1>0, ExecMoves DEF ExecStep
  <1>3. /\ exec'[e].id = t /\ exec'[e].ep = epoch[t]
        /\ exec'[e].pc \in {"read", "write"}
    BY <1>0, ClaimClaims DEF Claims, QueueInv, TypeOK
  <1>4. RunsProcessing'
    <2> SUFFICES ASSUME NEW f \in Executors, exec'[f].pc \in RunningPc
                 PROVE  /\ status'[exec'[f].id] = "processing"
                        /\ exec'[f].ep = epoch'[exec'[f].id]
      BY DEF RunsProcessing
    <2>1. CASE f = e
      BY <1>0, <1>1, <1>3, <2>1
    <2>2. CASE f # e
      <3>1. exec'[f] = exec[f]
        BY <1>2, <2>2 DEF Moved
      <3>2. exec[f].id \in TaskId
        BY <1>0, <3>1 DEF QueueInv, IdsInOrder
      <3>3. QED
        BY <1>0, <1>1, <3>1, <3>2 DEF RunsProcessing
    <2>3. QED
      BY <2>1, <2>2
  <1>5. ASSUME NEW m \in Nodes PROVE Traced(m)'
    <2>1. NoneEnds(m)
      BY <1>2, <1>3, EndsBack DEF NoneEnds, Moved
    <2>2. RowsGoOn(m)
      BY <1>0, <1>1 DEF RowsGoOn
    <2>3. QED
      BY <1>0, <1>1, <2>1, <2>2, TracedFrame
  <1>6. QED
    BY <1>4, <1>5

\* The end of a task: the row gets the result of the one that ran it.
LEMMA CompleteTraced ==
  ASSUME RestartInv, NoRetry, NEW e \in Executors, Complete(e)
  PROVE  RunsProcessing' /\ \A n \in Nodes : Traced(n)'
  <1> DEFINE t == exec[e].id
  <1>0. /\ QueueInv /\ RunsProcessing /\ \A n \in Nodes : Traced(n)
        /\ t \in TaskId /\ status \in [TaskId -> Status]
        /\ exec \in [Executors -> ExecState]
        /\ exec[e].pc = "complete" /\ exec[e].err \in {"none", "error"}
        /\ status[t] = "processing"
    <2>1. /\ QueueInv /\ RunsProcessing /\ \A n \in Nodes : Traced(n)
          /\ exec[e].pc = "complete" /\ exec[e].pc \in RunningPc
      BY DEF RestartInv, Complete, RunningPc
    <2>2. QED
      BY <2>1 DEF QueueInv, TypeOK, IdsInOrder, RunsProcessing, ExecState
  <1>1. /\ UNCHANGED <<info, epoch>> /\ UNCHANGED <<remote, loaded>>
        /\ status' = [status EXCEPT
                        ![t] = IF exec[e].err = "error" THEN "failed"
                               ELSE "completed"]
    BY <1>0 DEF Complete, nodeVars
  <1>2. Moved(e)
    BY <1>0, ExecMoves DEF ExecStep
  <1>3. exec'[e].pc = "select"
    BY <1>0, TaskOverType DEF Complete
  <1>4. \A f \in Executors :
           exec[f].pc \in RunningPc /\ exec[f].id = t => f = e
    BY <1>0, OneRunner DEF RunningPc
  <1>5. RunsProcessing'
    <2> SUFFICES ASSUME NEW f \in Executors, exec'[f].pc \in RunningPc
                 PROVE  /\ status'[exec'[f].id] = "processing"
                        /\ exec'[f].ep = epoch'[exec'[f].id]
      BY DEF RunsProcessing
    <2>1. f # e
      BY <1>3 DEF RunningPc
    <2>2. exec'[f] = exec[f]
      BY <1>2, <2>1 DEF Moved
    <2>3. exec[f].id \in TaskId /\ exec[f].id # t
      BY <1>0, <1>4, <2>1, <2>2 DEF QueueInv, IdsInOrder
    <2>4. QED
      BY <1>0, <1>1, <2>2, <2>3 DEF RunsProcessing
  <1>6. Ends(t) <=> exec[e].err = "none"
    BY <1>0, <1>4 DEF Ends, RunningPc
  <1>7. ASSUME NEW m \in Nodes PROVE Traced(m)'
    <2>1. NoneEnds(m)
      BY <1>2, <1>3, EndsBack DEF NoneEnds, Moved
    <2>2. RowsGoOn(m)
      BY <1>0, <1>1, <1>6 DEF RowsGoOn
    <2>3. QED
      BY <1>0, <1>1, <2>1, <2>2, TracedFrame
  <1>8. QED
    BY <1>5, <1>7

\* A row whose executor is not at a successful end is a trace of its own, when
\* it writes a file.
LEMMA OwnTrace ==
  ASSUME RestartInv, NoRetry, NEW e \in Executors, exec[e].pc \in RunningPc,
         info[exec[e].id].type \in SyncTypes, Moved(e),
         exec'[e].pc # "complete" \/ exec'[e].err # "none",
         InfoKept, status'[exec[e].id] = "processing"
  PROVE  \A n \in Nodes : n = exec[e].node => Traced(n)'
  <1>a. PICK t : t = exec[e].id
    OBVIOUS
  <1>0. /\ QueueInv /\ RunsProcessing /\ t \in TaskId /\ t < nextId
        /\ info[t].node = exec[e].node
    BY <1>a DEF RestartInv, QueueInv, IdsInOrder, RunsOwnRow
  <1>2. ~Ends(t)'
    <2>1. \A f \in Executors : f # e =>
             exec'[f] = exec[f]
             /\ ~(exec[f].pc \in RunningPc /\ exec[f].id = t)
      BY <1>a, <1>0, OneRunner DEF Moved
    <2>2. QED
      BY <2>1 DEF Ends, RunningPc
  <1>3. info'[t] = info[t]
    BY <1>0 DEF InfoKept
  <1>4. QED
    BY <1>a, <1>0, <1>2, <1>3 DEF Traced

\* A call of an agent.
LEMMA CallTraced ==
  ASSUME RestartInv, NoRetry, NEW e \in Executors,
         CallSucceeds(e) \/ CallFails(e)
  PROVE  RunsProcessing' /\ \A n \in Nodes : Traced(n)'
  <1>a. PICK n, t, k : n = exec[e].node /\ t = exec[e].id /\ k = info[t].type
    OBVIOUS
  <1>0. /\ QueueInv /\ RunsProcessing /\ \A m \in Nodes : Traced(m)
        /\ exec[e].pc = "write" /\ exec[e].pc \in RunningPc
    BY DEF RestartInv, CallSucceeds, CallFails, RunningPc
  <1>1. /\ t \in TaskId /\ t < nextId /\ n \in Nodes /\ info[t].node = n
        /\ status[t] = "processing" /\ k \in Types
    BY <1>a, <1>0 DEF QueueInv, IdsInOrder, RestartInv, RunsOwnRow, TypeOK, TaskInfo,
                RunsProcessing
  <1>2. UNCHANGED taskVars
    BY DEF CallSucceeds, CallFails
  <1>3. Moved(e)
    BY <1>0, ExecMoves DEF ExecStep
  <1>4. \A f \in Executors : Follows(f)
    BY <1>0, GoesOn DEF CallSucceeds, CallFails, RunningPc
  <1>5. RunsProcessing'
    <2>1. RowsKept
      BY <1>0, <1>2, UnchangedRows
    <2>2. QED
      BY <1>0, <1>2, <1>4, <2>1, ProcessingFrame DEF taskVars
  <1>6. /\ exec'[e].id = t
        /\ CallSucceeds(e) => exec'[e].pc = IF k \in SyncTypes THEN "rdelete"
                                            ELSE "complete"
        /\ CallFails(e) => exec'[e].err = "error"
    BY <1>a, <1>0 DEF CallSucceeds, CallFails, QueueInv, TypeOK, ExecState
  <1>7. \/ UNCHANGED <<remote, loaded>> /\ CallFails(e)
        \/ k = Restart /\ UNCHANGED remote
           /\ loaded' = [loaded EXCEPT ![n] = remote[n]]
        \/ k # Restart /\ UNCHANGED loaded
           /\ remote' = [remote EXCEPT ![n][k] = exec[e].val]
    BY <1>a DEF CallSucceeds, CallFails, AgentApplies, nodeVars
  <1>8. /\ loaded \in [Nodes -> [ContentTypes -> Content]]
        /\ remote \in [Nodes -> [ContentTypes -> Content]]
        /\ SyncTypes \subseteq ContentTypes
    BY <1>0 DEF QueueInv, TypeOK, ContentTypes
  <1>9. ASSUME NEW m \in Nodes, m # n PROVE Traced(m)'
    <2>1. NoneEnds(m)
      BY <1>1, <1>3, <1>6, <1>9, EndsBack DEF NoneEnds, Moved
    <2>2. loaded'[m] = loaded[m] /\ remote'[m] = remote[m]
      BY <1>7, <1>8, <1>9
    <2>3. QED
      BY <1>0, <1>2, <2>1, <2>2, GoOnUnchanged, TracedFrame
  <1>10. CASE k \in SyncTypes
    <2>1. exec'[e].pc # "complete" \/ exec'[e].err # "none"
      BY <1>6, <1>10
    <2>2. InfoKept /\ status'[t] = "processing"
      BY <1>1, <1>2 DEF InfoKept, taskVars
    <2>3. Traced(n)'
      BY <1>a, <1>0, <1>1, <1>3, <1>10, <2>1, <2>2, OwnTrace
    <2>4. QED
      BY <1>5, <1>9, <2>3
  <1>11. CASE k = Restart
    <2>1. CASE CallFails(e) /\ UNCHANGED <<remote, loaded>>
      <3>1. NoneEnds(n)
        BY <1>3, <1>6, <2>1, EndsBack DEF NoneEnds, Moved
      <3>2. Traced(n)'
        BY <1>0, <1>1, <1>2, <2>1, <3>1, GoOnUnchanged, TracedFrame
      <3>3. QED
        BY <1>5, <1>9, <3>2
    <2>2. CASE loaded' = [loaded EXCEPT ![n] = remote[n]] /\ UNCHANGED remote
      <3>1. loaded'[n] = remote'[n]
        BY <1>1, <1>8, <2>2
      <3>2. Traced(n)'
        BY <3>1 DEF Traced
      <3>3. QED
        BY <1>5, <1>9, <3>2
    <2>3. QED
      BY <1>7, <1>11, <2>1, <2>2
  <1>12. CASE k \notin SyncTypes \cup {Restart}
    <2>1. NoneEnds(n)
      BY <1>a, <1>1, <1>3, <1>6, <1>12, EndsBack DEF NoneEnds, Moved
    <2>2. \A j \in SyncTypes : /\ loaded'[n][j] = loaded[n][j]
                               /\ remote'[n][j] = remote[n][j]
      <3>1. CASE UNCHANGED <<remote, loaded>>
        BY <3>1
      <3>2. CASE remote' = [remote EXCEPT ![n][k] = exec[e].val]
                 /\ UNCHANGED loaded
        <4>1. remote'[n] = [remote[n] EXCEPT ![k] = exec[e].val]
          BY <1>1, <1>8, <3>2
        <4>2. remote[n] \in [ContentTypes -> Content]
          BY <1>1, <1>8
        <4>3. \A j \in SyncTypes : j \in ContentTypes /\ j # k
          BY <1>8, <1>12
        <4>4. QED
          BY <3>2, <4>1, <4>2, <4>3
      <3>3. QED
        BY <1>7, <1>12, <3>1, <3>2
    <2>3. Traced(n)'
      BY <1>0, <1>1, <1>2, <2>1, <2>2, GoOnUnchanged, TracedFrame
    <2>4. QED
      BY <1>5, <1>9, <2>3
  <1>13. QED
    BY <1>10, <1>11, <1>12

\* The two statements that enqueue a restart: between them the sync task is the
\* trace, after them the new row is the newest.
LEMMA EnqueueTraced ==
  ASSUME RestartInv, NoRetry, NEW e \in Executors,
         RestartDelete(e) \/ RestartInsert(e)
  PROVE  RunsProcessing' /\ \A n \in Nodes : Traced(n)'
  <1>a. PICK n, t : n = exec[e].node /\ t = exec[e].id
    OBVIOUS
  <1>0. /\ QueueInv /\ RunsProcessing /\ \A m \in Nodes : Traced(m)
        /\ exec[e].pc \in {"rdelete", "rinsert"} /\ exec[e].pc \in RunningPc
    BY DEF RestartInv, RestartDelete, RestartInsert, RunningPc
  <1>1. /\ t \in TaskId /\ t < nextId /\ n \in Nodes /\ info[t].node = n
        /\ status[t] = "processing" /\ info[t].type \in SyncTypes
    BY <1>a, <1>0 DEF QueueInv, IdsInOrder, RestartInv, RunsOwnRow, RunsProcessing
  <1>2. /\ UNCHANGED <<remote, loaded>>
        /\ DeletePending(n, Restart) \/ InsertPending(n, Restart, {})
    BY <1>a DEF RestartDelete, RestartInsert, nodeVars
  <1>3. Moved(e)
    BY <1>0, ExecMoves DEF ExecStep
  <1>4. /\ exec'[e].id = t
        /\ RestartDelete(e) => exec'[e].pc = "rinsert"
    BY <1>a, <1>0 DEF RestartDelete, RestartInsert, QueueInv, TypeOK, ExecState
  <1>5. \A f \in Executors : Follows(f)
    BY <1>0, GoesOn DEF RestartDelete, RestartInsert, RunningPc
  <1>6. \A u \in TaskId :
            status[u] = "processing" => status'[u] = "processing"
    BY <1>0, <1>2, ProcessingStays
  <1>7. RunsProcessing'
    <2>1. RowsKept
      BY <1>0, <1>2, DeleteRows, InsertRows
    <2>2. \A f \in Executors :
             exec'[f].pc \in RunningPc => exec'[f].id \in TaskId
      BY <1>0, <1>5 DEF Follows, QueueInv, IdsInOrder, RunningPc
    <2>3. QED
      BY <1>0, <1>5, <1>6, <2>1, <2>2, ProcessingFrame
  <1>8. ASSUME NEW m \in Nodes, m # n PROVE Traced(m)'
    <2>1. NoneEnds(m)
      BY <1>1, <1>3, <1>4, <1>8, EndsBack DEF NoneEnds, Moved
    <2>2. RowsGoOn(m)
      BY <1>0, <1>2, <1>8, GoOnDelete, GoOnInsert
    <2>3. QED
      BY <1>0, <1>2, <2>1, <2>2, TracedFrame
  <1>9. CASE RestartDelete(e)
    <2>1. InfoKept
      BY <1>9 DEF RestartDelete, DeletePending, InfoKept
    <2>2. exec'[e].pc # "complete"
      BY <1>4, <1>9
    <2>3. Traced(n)'
      BY <1>a, <1>0, <1>1, <1>3, <1>6, <2>1, <2>2, OwnTrace
    <2>4. QED
      BY <1>7, <1>8, <2>3
  <1>10. CASE RestartInsert(e)
    <2>0. PICK i : i = nextId
      OBVIOUS
    <2>1. /\ i \in TaskId
          /\ status' = [status EXCEPT ![i] = "pending"]
          /\ info' = [info EXCEPT ![i] = [type |-> Restart, node |-> n,
                                               payload |-> {}]]
      BY <1>a, <1>0, <1>10, <2>0, UsedIds
      DEF RestartInsert, InsertPending, TaskId, QueueInv, TypeOK
    <2>2. /\ status'[i] = "pending" /\ info'[i].node = n
          /\ info'[i].type = Restart
      BY <1>0, <2>1 DEF QueueInv, TypeOK
    <2>3. \A u \in TaskId : u # i => status'[u] = status[u]
      BY <1>0, <2>1 DEF QueueInv, TypeOK
    <2>4. \A u \in Rows(n, Restart)' : u <= i
      BY <1>0, <2>0, <2>1, <2>3, UsedIds DEF Rows
    <2>5. i \in Rows(n, Restart)'
      BY <2>1, <2>2 DEF Rows
    <2>6. ~Ends(i)'
      <3>1. \A f \in Executors :
               exec'[f].pc \in RunningPc => exec'[f].id < i /\ i \in Nat
        BY <1>0, <1>5, <2>0, UsedIds DEF Follows, QueueInv, IdsInOrder, RunningPc
      <3>2. QED
        BY <3>1 DEF Ends, RunningPc
    <2>7. \E u \in TaskId :
             Newest(n, Restart, u)' /\ status'[u] # "completed" /\ ~Ends(u)'
      <3>1. Newest(n, Restart, i)'
        BY <2>4, <2>5 DEF Newest
      <3>2. QED
        BY <2>1, <2>2, <2>6, <3>1
    <2>8. Traced(n)'
      BY <2>7 DEF Traced
    <2>9. QED
      BY <1>7, <1>8, <2>8
  <1>11. QED
    BY <1>9, <1>10

\* RestartInv is preserved by every step.
LEMMA NextRestartInv ==
  ASSUME RestartInv, Next, QueueInv'
  PROVE  RestartInv'
  <1>0. QueueInv /\ RunsOwnRow'
    BY RunsOwnRowInv DEF RestartInv
  <1>1. ASSUME NoRetry' PROVE RunsProcessing' /\ \A n \in Nodes : Traced(n)'
    <2>1. NoRetry
      BY <1>0, <1>1, NoRetryBack
    <2>2. CASE \E r \in Requests : RequestStep(r)
      BY <2>1, <2>2, RequestTraced
    <2>3. CASE Crash
      BY <2>1, <2>3, CrashTraced
    <2>4. ASSUME NEW e \in Executors,
                 StartSync(e) \/ ExecStep(e) \/ CancelSync(e)
          PROVE  RunsProcessing' /\ \A n \in Nodes : Traced(n)'
      <3>1. \/ QuietStep(e) \/ Claim(e) \/ Complete(e)
            \/ CallSucceeds(e) \/ CallFails(e)
            \/ RestartDelete(e) \/ RestartInsert(e)
        BY <2>4 DEF ExecStep, QuietStep
      <3>2. QED
        BY <2>1, <3>1, QuietTraced, ClaimTraced, CompleteTraced, CallTraced,
           EnqueueTraced
    <2>5. QED
      BY <1>0, <1>1, <2>2, <2>3, <2>4, NoRetryBack
  <1>2. QED
    BY <1>0, <1>1 DEF RestartInv

\* The inductive invariant about files and restarts holds in every behaviour:
\* as long as no Retry has begun, each file that a service has not read leaves
\* a row by which it is seen.
THEOREM RestartInvariant == Spec => []RestartInv
  <1>1. Init => RestartInv
    <2> SUFFICES ASSUME Init PROVE RestartInv
      OBVIOUS
    <2>1. QueueInv
      BY InitQueueInv
    <2>2. RunsOwnRow /\ RunsProcessing /\ \A n \in Nodes : Traced(n)
      BY DEF Init, IdleExec, RunsOwnRow, RunsProcessing, Traced, RunningPc,
         ContentTypes
    <2>3. QED
      BY <2>1, <2>2 DEF RestartInv
  <1>2. RestartInv /\ QueueInv' /\ [Next]_vars => RestartInv'
    <2> SUFFICES ASSUME RestartInv, QueueInv', [Next]_vars PROVE RestartInv'
      OBVIOUS
    <2>1. CASE Next
      BY <2>1, NextRestartInv
    <2>2. CASE UNCHANGED vars
      BY <2>2 DEF vars, RestartInv, RunsOwnRow, RunsProcessing, Traced, Ends,
         Newest, Rows, NoRetry
    <2>3. QED
      BY <2>1, <2>2
  <1>3. QED
    BY <1>1, <1>2, QueueInvariant, PTL DEF Spec

\* The service never goes on with an old file unnoticed, for any number of
\* nodes, executors and requests and whatever is cancelled or crashes, as long
\* as no Retry has begun.
THEOREM RestartsFollowWrites == Spec => []RestartFollowsWrite
  <1>1. RestartInv => RestartFollowsWrite
    <2> SUFFICES ASSUME RestartInv, NoRetry, NEW n \in Nodes
                 PROVE  \/ \A k \in SyncTypes : loaded[n][k] = remote[n][k]
                        \/ \E t \in TaskId : /\ Newest(n, Restart, t)
                                             /\ status[t] # "completed"
                        \/ \E k \in SyncTypes : \E t \in Rows(n, k) :
                              status[t] # "completed"
      BY DEF RestartFollowsWrite
    <2>1. Traced(n)
      BY DEF RestartInv
    <2>2. ASSUME NEW t \in TaskId, info[t].node = n,
                 info[t].type \in SyncTypes,
                 status[t] \in {"processing", "failed"}
          PROVE  t \in Rows(n, info[t].type) /\ status[t] # "completed"
      BY <2>2 DEF Rows
    <2>3. QED
      BY <2>1, <2>2 DEF Traced
  <1>2. QED
    BY <1>1, RestartInvariant, PTL

-----------------------------------------------------------------------------
(* CompletedMeansDeployed *)

\* What a request does in one step, as far as it is not about rows.
Asks(r) ==
  /\ \A s \in Requests : s # r => req'[s] = req[s]
  /\ req[r].pc # "done" /\ req'[r].pc # "new"
  /\ \/ /\ req[r].pc = "new" /\ req'[r].pc = "delete"
        /\ Kind[r] \in DbTypes /\ req'[r].todo = Nodes
     \/ /\ req[r].pc = "new" /\ req'[r].pc = "delete"
        /\ Kind[r] \notin DbTypes /\ \E n \in Nodes : req'[r].todo = {n}
     \/ /\ req[r].pc = "delete" /\ req'[r].pc = "insert"
        /\ req'[r].node \in req[r].todo /\ req'[r].node \in Nodes
        /\ req'[r].todo = req[r].todo \ {req'[r].node}
     \/ /\ req[r].pc = "insert" /\ req'[r].pc = AfterInsert(r)
        /\ req'[r].node = req[r].node /\ req'[r].todo = req[r].todo
     \/ /\ req[r].pc = "save" /\ req'[r].pc = "done"
        /\ req'[r].node = req[r].node /\ req'[r].lost = req[r].lost
     \/ req'[r].pc = "done" /\ req'[r].lost /\ req'[r].node = req[r].node

LEMMA RequestAsks ==
  ASSUME QueueInv, NEW r \in Requests, RequestStep(r)
  PROVE  Asks(r)
  <1>0. req \in [Requests -> ReqState]
    BY DEF QueueInv, TypeOK
  <1>1. \A s \in Requests : s # r => req'[s] = req[s]
    BY <1>0 DEF RequestStep, Commit, Begin, EnqueueDelete, EnqueueInsert,
       EnqueueInsertFails, SaveSettings, CancelRequest
  <1>2. AfterInsert(r) \in {"delete", "save", "done"}
    BY DEF AfterInsert
  <1>3. CASE Commit(r)
    BY <1>0, <1>1, <1>3 DEF Commit, Asks, ReqState
  <1>4. CASE \E n \in Nodes : Begin(r, n)
    <2>1. PICK n \in Nodes : Begin(r, n)
      BY <1>4
    <2>2. /\ req[r].pc = "new" /\ Kind[r] \notin DbTypes
          /\ req'[r].pc = "delete" /\ req'[r].todo = {n}
      BY <1>0, <2>1 DEF Begin, ReqState
    <2>3. QED
      BY <1>1, <2>2 DEF Asks
  <1>5. CASE \E n \in Nodes : EnqueueDelete(r, n)
    <2>1. PICK n \in Nodes : EnqueueDelete(r, n)
      BY <1>5
    <2>2. /\ req[r].pc = "delete" /\ n \in req[r].todo
          /\ req'[r].pc = "insert" /\ req'[r].node = n
          /\ req'[r].todo = req[r].todo \ {n}
      BY <1>0, <2>1 DEF EnqueueDelete, ReqState
    <2>3. QED
      BY <1>1, <2>2 DEF Asks
  <1>6. CASE EnqueueInsert(r)
    <2>1. /\ req[r].pc = "insert" /\ req'[r].pc = AfterInsert(r)
          /\ req'[r].node = req[r].node /\ req'[r].todo = req[r].todo
      BY <1>0, <1>6 DEF EnqueueInsert, ReqState
    <2>2. QED
      BY <1>1, <1>2, <2>1 DEF Asks
  <1>7. CASE EnqueueInsertFails(r)
    <2>1. /\ req[r].pc = "insert"
          /\ req'[r].pc = IF Kind[r] \in DbTypes THEN AfterInsert(r) ELSE "done"
          /\ req'[r].lost
          /\ req'[r].node = req[r].node /\ req'[r].todo = req[r].todo
      BY <1>0, <1>7 DEF EnqueueInsertFails, ReqState
    <2>2. CASE Kind[r] \in DbTypes
      BY <1>1, <1>2, <2>1, <2>2 DEF Asks
    <2>3. CASE Kind[r] \notin DbTypes
      BY <1>1, <2>1, <2>3 DEF Asks
    <2>4. QED
      BY <2>2, <2>3
  <1>8. CASE SaveSettings(r)
    BY <1>0, <1>1, <1>8 DEF SaveSettings, Asks, ReqState
  <1>9. CASE CancelRequest(r)
    BY <1>0, <1>1, <1>9 DEF CancelRequest, Asks, ReqState
  <1>10. QED
    BY <1>3, <1>4, <1>5, <1>6, <1>7, <1>8, <1>9 DEF RequestStep

\* A crash cuts the requests under way short.
LEMMA CrashAsks ==
  ASSUME QueueInv, Crash, NEW r \in Requests
  PROVE  \/ req'[r] = req[r] /\ req[r].pc \in {"new", "done"}
         \/ /\ req[r].pc \notin {"new", "done"} /\ req'[r].pc = "done"
            /\ req'[r].lost /\ req'[r].node = req[r].node
  <1>1. req[r] \in ReqState
    BY DEF QueueInv, TypeOK
  <1>2. req'[r] = IF req[r].pc \in {"new", "done"} THEN req[r]
                  ELSE [req[r] EXCEPT !.pc = "done", !.lost = TRUE]
    BY DEF Crash
  <1>3. QED
    BY <1>1, <1>2 DEF ReqState

\* Executors leave requests and the panel's data alone.
LEMMA ExecLeaves ==
  ASSUME NEW e \in Executors, StartSync(e) \/ ExecStep(e) \/ CancelSync(e)
  PROVE  UNCHANGED <<req, retry, saved>>
  BY DEF StartSync, CancelSync, ExecStep, PollOnline,
     PollFails, EndSync, SelectOldest, SelectNone, Claim, ClaimMisses,
     ReadContent, ReadFails, CallSucceeds, CallFails, RestartDelete,
     RestartInsert, RestartInsertFails, Complete, CompleteFails

\* A request that has begun stays so.
LEMMA BegunGrows ==
  ASSUME QueueInv, Next, NEW k
  PROVE  Begun(k) \subseteq Begun(k)' /\ (OneChange(k)' => OneChange(k))
  <1>1. \A r \in Requests : req'[r].pc = "new" => req[r].pc = "new"
    <2>1. CASE \E r \in Requests : RequestStep(r)
      BY <2>1, RequestAsks DEF Asks
    <2>2. CASE Crash
      BY <2>2, CrashAsks
    <2>3. CASE \E q \in Retries : RetryStep(q)
      BY <2>3 DEF RetryStep, RetryRead, RetryWrite
    <2>4. CASE \E e \in Executors :
                  StartSync(e) \/ ExecStep(e) \/ CancelSync(e)
      BY <2>4, ExecLeaves
    <2>5. QED
      BY <2>1, <2>2, <2>3, <2>4 DEF Next
  <1>2. Begun(k) \subseteq Begun(k)'
    BY <1>1 DEF Begun
  <1>3. QED
    BY <1>2 DEF OneChange

\* The types of tasks exclude one another.
LEMMA TypesDiffer ==
  /\ DbTypes \cap SyncTypes = {} /\ Restart \notin DbTypes \cup SyncTypes
  /\ DbTypes \subseteq ContentTypes /\ SyncTypes \subseteq ContentTypes
  /\ Restart \notin ContentTypes
  BY DEF DbTypes, SyncTypes, Restart, ContentTypes

\* What the database says of a file changes when a request over it saves, what
\* it says otherwise when a request commits.
LEMMA SavedBy ==
  ASSUME QueueInv, NEW r \in Requests, RequestStep(r), NEW n \in Nodes,
         NEW k \in DbTypes \cup SyncTypes
  PROVE  \/ saved'[n][k] = saved[n][k]
         \/ SaveSettings(r) /\ k = Kind[r]
         \/ Commit(r) /\ k = Kind[r]
  <1>0. saved \in [Nodes -> [ContentTypes -> Content]] /\ k \in ContentTypes
    BY TypesDiffer DEF QueueInv, TypeOK
  <1>1. CASE UNCHANGED saved
    BY <1>1
  <1>2. CASE Commit(r)
    <2>1. saved'[n] = [saved[n] EXCEPT ![Kind[r]] = saved[n][Kind[r]] \cup {r}]
      BY <1>0, <1>2 DEF Commit
    <2>2. saved[n] \in [ContentTypes -> Content]
      BY <1>0
    <2>3. QED
      BY <1>0, <1>2, <2>1, <2>2
  <1>3. CASE SaveSettings(r)
    <2> DEFINE m == req[r].node
    <2>1. saved' = [saved EXCEPT ![m] = [saved[m] EXCEPT ![Kind[r]] = {r}]]
      BY <1>3 DEF SaveSettings
    <2>2. saved[n] \in [ContentTypes -> Content]
      BY <1>0
    <2>3. CASE n = m
      <3>1. saved'[n] = [saved[n] EXCEPT ![Kind[r]] = {r}]
        BY <1>0, <2>1, <2>3
      <3>2. QED
        BY <1>0, <1>3, <2>2, <3>1
    <2>4. CASE n # m
      BY <1>0, <2>1, <2>4
    <2>5. QED
      BY <2>3, <2>4
  <1>4. QED
    BY <1>1, <1>2, <1>3 DEF RequestStep, Begin, EnqueueDelete, EnqueueInsert,
       EnqueueInsertFails, CancelRequest

\* A settings request keeps its order: delete, insert, save.
LEMMA SavedLastInv ==
  ASSUME QueueInv, SavedLast, Next
  PROVE  SavedLast'
  <1>1. ASSUME NEW r \in Requests, RequestStep(r)
        PROVE  SavedLast'
    <2>0. Asks(r)
      BY <1>1, RequestAsks
    <2>1. \A k : OneChange(k)' => OneChange(k)
      BY BegunGrows
    <2>2. ASSUME NEW s \in Requests, s # r
          PROVE  /\ req'[s].pc \in {"insert", "save"} => req'[s].node \in Nodes
                 /\ req'[s].pc = "save" => Kind[s] \in SyncTypes
                 /\ Kind[s] \in SyncTypes =>
                    /\ req'[s].pc = "delete" =>
                          \E n \in Nodes : req'[s].todo = {n}
                    /\ req'[s].pc = "insert" => req'[s].todo = {}
                    /\ req'[s].pc = "done" /\ ~req'[s].lost =>
                          /\ req'[s].node \in Nodes
                          /\ OneChange(Kind[s])' =>
                                saved'[req'[s].node][Kind[s]] = {s}
      <3>1. req'[s] = req[s]
        BY <2>0, <2>2 DEF Asks
      <3>2. ASSUME Kind[s] \in SyncTypes, req[s].pc = "done", ~req[s].lost,
                   OneChange(Kind[s])'
            PROVE  saved'[req[s].node][Kind[s]] = {s}
        <4>1. req[s].node \in Nodes /\ saved[req[s].node][Kind[s]] = {s}
          BY <2>1, <3>2 DEF SavedLast
        <4>2. Kind[r] # Kind[s]
          <5>1. s \in Begun(Kind[s])' /\ (Kind[r] = Kind[s] => r \in Begun(Kind[s])')
            BY <2>0, <3>1, <3>2 DEF Begun, Asks
          <5>2. QED
            BY <2>2, <3>2, <5>1, TypesDiffer DEF OneChange
        <4>3. QED
          BY <1>1, <3>2, <4>1, <4>2, SavedBy
      <3>3. QED
        BY <3>1, <3>2 DEF SavedLast
    <2>3. /\ req'[r].pc \in {"insert", "save"} => req'[r].node \in Nodes
          /\ req'[r].pc = "save" => Kind[r] \in SyncTypes
          /\ Kind[r] \in SyncTypes =>
             /\ req'[r].pc = "delete" => \E n \in Nodes : req'[r].todo = {n}
             /\ req'[r].pc = "insert" => req'[r].todo = {}
      BY <2>0, TypesDiffer DEF Asks, AfterInsert, SavedLast
    <2>4. ASSUME Kind[r] \in SyncTypes, req'[r].pc = "done", ~req'[r].lost
          PROVE  /\ req'[r].node \in Nodes
                 /\ saved'[req'[r].node][Kind[r]] = {r}
      <3>1. req[r].pc = "save" /\ req'[r].node = req[r].node
        BY <2>0, <2>4 DEF Asks, AfterInsert, SavedLast
      <3>2. SaveSettings(r)
        <4>1. ~CancelRequest(r)
          BY <2>4 DEF CancelRequest, QueueInv, TypeOK, ReqState
        <4>2. QED
          BY <1>1, <3>1, <4>1 DEF RequestStep, Commit, Begin, EnqueueDelete,
             EnqueueInsert, EnqueueInsertFails
      <3>3. req[r].node \in Nodes
        BY <3>1 DEF SavedLast
      <3>4. saved'[req[r].node][Kind[r]] = {r}
        <4> DEFINE n == req[r].node
        <4>1. /\ saved \in [Nodes -> [ContentTypes -> Content]]
              /\ Kind[r] \in ContentTypes
          BY DEF QueueInv, TypeOK
        <4>2. saved' = [saved EXCEPT ![n] = [saved[n] EXCEPT ![Kind[r]] = {r}]]
          BY <3>2 DEF SaveSettings
        <4>3. saved'[n] = [saved[n] EXCEPT ![Kind[r]] = {r}]
          BY <3>3, <4>1, <4>2
        <4>4. saved[n] \in [ContentTypes -> Content]
          BY <3>3, <4>1
        <4>5. QED
          BY <4>1, <4>3, <4>4
      <3>5. QED
        BY <3>1, <3>3, <3>4
    <2>5. QED
      BY <2>2, <2>3, <2>4 DEF SavedLast
  <1>2. CASE Crash
    <2>1. UNCHANGED saved
      BY <1>2 DEF Crash
    <2>2. \A k : OneChange(k)' => OneChange(k)
      BY BegunGrows
    <2>3. QED
      BY <1>2, <2>1, <2>2, CrashAsks DEF SavedLast
  <1>3. CASE UNCHANGED <<req, saved>>
    BY <1>3 DEF SavedLast, OneChange, Begun
  <1>4. QED
    BY <1>1, <1>2, <1>3, ExecLeaves DEF Next, RetryStep, RetryRead, RetryWrite

\* A row that writes a file was inserted by a request that goes on to save.
LEMMA RowsOfRequestsInv ==
  ASSUME QueueInv, SavedLast, RowsOfRequests, Next
  PROVE  RowsOfRequests'
  <1>0. InfoKept
    BY InfoIsKept
  <1>1. \A r \in Requests :
           req[r].pc \in {"save", "done"} =>
              req'[r].pc \in {"save", "done"} /\ req'[r].node = req[r].node
    <2>1. CASE \E r \in Requests : RequestStep(r)
      BY <2>1, RequestAsks DEF Asks
    <2>2. CASE Crash
      BY <2>2, CrashAsks
    <2>3. QED
      BY <2>1, <2>2, ExecLeaves DEF Next, RetryStep, RetryRead, RetryWrite
  <1>2. ASSUME NEW t \in TaskId, t < nextId, info'[t].type \in SyncTypes
        PROVE  \E r \in Requests :
                  /\ Kind[r] = info'[t].type
                  /\ req'[r].pc \in {"save", "done"}
                  /\ info'[t].payload = {r} /\ req'[r].node = info'[t].node
    BY <1>0, <1>1, <1>2 DEF RowsOfRequests, InfoKept
  <1>3. ASSUME nextId' = nextId PROVE RowsOfRequests'
    BY <1>2, <1>3 DEF RowsOfRequests
  <1>4. ASSUME NEW n, NEW k, NEW p, InsertPending(n, k, p),
               k \in SyncTypes =>
                  \E r \in Requests : /\ Kind[r] = k /\ p = {r}
                                      /\ req'[r].pc \in {"save", "done"}
                                      /\ req'[r].node = n
        PROVE  RowsOfRequests'
    <2>1. /\ nextId \in TaskId /\ nextId' = nextId + 1
          /\ info'[nextId] = [type |-> k, node |-> n, payload |-> p]
      BY <1>4, UsedIds DEF InsertPending, TaskId, QueueInv, TypeOK
    <2>2. \A t \in TaskId : t < nextId' => t < nextId \/ t = nextId
      BY <2>1, UsedIds
    <2>3. QED
      BY <1>2, <1>4, <2>1, <2>2 DEF RowsOfRequests
  <1>5. ASSUME NEW r \in Requests, EnqueueInsert(r)
        PROVE  RowsOfRequests'
    <2>1. /\ InsertPending(req[r].node, Kind[r],
                           IF Kind[r] \in DbTypes THEN {} ELSE {r})
          /\ req[r].pc = "insert" /\ req'[r].pc = AfterInsert(r)
          /\ req'[r].node = req[r].node
      BY <1>5 DEF EnqueueInsert, QueueInv, TypeOK, ReqState
    <2>2. Kind[r] \in SyncTypes => req'[r].pc = "save"
      BY <2>1 DEF AfterInsert, SavedLast
    <2>3. QED
      BY <1>4, <2>1, <2>2, TypesDiffer
  <1>6. ASSUME NEW e \in Executors, RestartInsert(e)
        PROVE  RowsOfRequests'
    BY <1>4, <1>6, TypesDiffer DEF RestartInsert
  <1>7. ASSUME NEW r \in Requests, RequestStep(r) PROVE RowsOfRequests'
    BY <1>3, <1>5, <1>7 DEF RequestStep, Commit, Begin, EnqueueDelete,
       EnqueueInsertFails, SaveSettings, CancelRequest, DeletePending, taskVars
  <1>8. ASSUME NEW e \in Executors,
               StartSync(e) \/ ExecStep(e) \/ CancelSync(e)
        PROVE  RowsOfRequests'
    BY <1>3, <1>6, <1>8 DEF StartSync, CancelSync, ExecStep, PollOnline,
       PollFails, EndSync, SelectOldest, SelectNone, Claim, ClaimMisses,
       ReadContent, ReadFails, CallSucceeds, CallFails, RestartDelete,
       RestartInsertFails, Complete, CompleteFails, DeletePending, taskVars
  <1>9. ASSUME NEW q \in Retries, RetryStep(q) PROVE RowsOfRequests'
    BY <1>3, <1>9 DEF RetryStep, RetryRead, RetryWrite, taskVars
  <1>10. CASE Crash
    BY <1>3, <1>10 DEF Crash, taskVars
  <1>11. QED
    BY <1>7, <1>8, <1>9, <1>10 DEF Next

\* A step after which the rows of content k of node n are the same ones, and
\* none is completed whose executor was still to deploy the target.
RowsStay(n, k) ==
  \A t \in TaskId :
     /\ t < nextId => info'[t] = info[t]
     /\ t \in Rows(n, k)' <=> t \in Rows(n, k)
     /\ nextId <= t /\ IsOf(t, n, k)' => nextId' <= t
     /\ t \in Rows(n, k) /\ status'[t] = "completed" =>
           \/ status[t] = "completed"
           \/ \E e \in Executors : Running(e, t) /\ ~InTime(e, n, k)

\* Executors of such rows are in time after it, or were not before it.
ExecsStay(n, k) ==
  \A e \in Executors :
     exec'[e].pc \in RunningPc /\ IsOf(exec[e].id, n, k)' =>
        \/ InTime(e, n, k)'
        \/ /\ exec[e].pc \in RunningPc /\ exec'[e].id = exec[e].id
           /\ ~InTime(e, n, k)
           /\ exec'[e].pc = "write" => exec[e].pc = "write"

LEMMA DeployFrame ==
  ASSUME QueueInv, NEW n \in Nodes, NEW k, Deploys(n, k), RowsStay(n, k),
         ExecsStay(n, k), Awaited(n, k) => Awaited(n, k)',
         Target(n, k)' = Target(n, k), remote'[n][k] = remote[n][k]
  PROVE  Deploys(n, k)'
  <1>0. \A e \in Executors :
           exec[e].pc \in RunningPc =>
              exec[e].id \in TaskId /\ exec[e].id < nextId
    BY DEF QueueInv, IdsInOrder
  <1>1. CASE Awaited(n, k)
    BY <1>1 DEF Deploys
  <1>2. CASE \A t \in TaskId : IsOf(t, n, k) => nextId <= t
    <2>1. ASSUME NEW t \in TaskId, IsOf(t, n, k)'
          PROVE  nextId' <= t
      <3>1. CASE t < nextId
        <4>1. IsOf(t, n, k)
          BY <2>1, <3>1 DEF RowsStay, IsOf
        <4>2. QED
          BY <1>2, <3>1, <4>1, UsedIds
      <3>2. CASE nextId <= t
        BY <2>1, <3>2 DEF RowsStay
      <3>3. QED
        BY <3>1, <3>2, UsedIds
    <2>2. QED
      BY <2>1 DEF Deploys
  <1>3. CASE \E t \in TaskId :
                /\ Newest(n, k, t) /\ status[t] # "completed"
                /\ \A e \in Executors : Running(e, t) => InTime(e, n, k)
    <2>1. PICK t \in TaskId :
                /\ Newest(n, k, t) /\ status[t] # "completed"
                /\ \A e \in Executors : Running(e, t) => InTime(e, n, k)
      BY <1>3
    <2>2. t \in Rows(n, k) /\ t \in Rows(n, k)'
      BY <2>1 DEF Newest, RowsStay
    <2>3. IsOf(t, n, k)' /\ status'[t] # "completed"
      BY <2>1, <2>2 DEF IsOf, Rows, RowsStay
    <2>4. Newest(n, k, t)'
      <3>1. \A u \in Rows(n, k)' : u \in TaskId
        BY DEF Rows
      <3>2. QED
        BY <2>1, <2>2, <3>1 DEF Newest, RowsStay
    <2>5. ASSUME NEW e \in Executors, Running(e, t)'
          PROVE  InTime(e, n, k)'
      <3>1. exec'[e].pc \in RunningPc /\ exec'[e].id = t
        BY <2>5 DEF Running
      <3>2. IsOf(exec[e].id, n, k)'
        BY <2>3, <3>1 DEF IsOf
      <3>3. ASSUME exec[e].pc \in RunningPc, exec[e].id = t
            PROVE  InTime(e, n, k)
        BY <2>1, <3>3 DEF Running
      <3>4. QED
        BY <3>1, <3>2, <3>3 DEF ExecsStay
    <2>6. QED
      BY <2>3, <2>4, <2>5 DEF Deploys
  <1>4. CASE /\ remote[n][k] = Target(n, k)
             /\ \A e \in Executors :
                   exec[e].pc = "write" /\ IsOf(exec[e].id, n, k) =>
                      InTime(e, n, k)
    <2>1. ASSUME NEW e \in Executors, exec'[e].pc = "write",
                 IsOf(exec[e].id, n, k)'
          PROVE  InTime(e, n, k)'
      <3>1. ASSUME exec[e].pc = "write", exec'[e].id = exec[e].id
            PROVE  InTime(e, n, k)
        <4>1. exec[e].id \in TaskId /\ exec[e].id < nextId
          BY <1>0, <3>1 DEF RunningPc
        <4>2. IsOf(exec[e].id, n, k)
          BY <2>1, <3>1, <4>1 DEF RowsStay, IsOf
        <4>3. QED
          BY <1>4, <3>1, <4>2
      <3>2. QED
        BY <2>1, <3>1 DEF ExecsStay, RunningPc
    <2>2. QED
      BY <1>4, <2>1 DEF Deploys
  <1>5. QED
    BY <1>1, <1>2, <1>3, <1>4 DEF Deploys

\* The statements that leave the rows of other content and other nodes alone.
LEMMA StayUnchanged ==
  ASSUME QueueInv, UNCHANGED taskVars, NEW n, NEW k
  PROVE  RowsStay(n, k)
  BY DEF taskVars, RowsStay, Rows

LEMMA StayDelete ==
  ASSUME QueueInv, NEW n, NEW k, NEW m, NEW j, DeletePending(m, j),
         m # n \/ j # k
  PROVE  RowsStay(n, k)
  <1>1. \A t \in TaskId :
           \/ status'[t] = status[t]
           \/ /\ status[t] = "pending" /\ status'[t] = "deleted"
              /\ info[t].node = m /\ info[t].type = j
    BY DEF DeletePending, Pending
  <1>2. UNCHANGED <<info, nextId>>
    BY DEF DeletePending
  <1>3. QED
    BY <1>1, <1>2 DEF RowsStay, Rows

LEMMA StayInsert ==
  ASSUME QueueInv, NEW n, NEW k, NEW m, NEW j, NEW p, InsertPending(m, j, p),
         m # n \/ j # k
  PROVE  RowsStay(n, k)
  <1>1. /\ nextId \in TaskId /\ status[nextId] = "free"
        /\ status \in [TaskId -> Status] /\ info \in [TaskId -> TaskInfo]
        /\ nextId' = nextId + 1
    BY UsedIds DEF QueueInv, TypeOK, IdsInOrder, InsertPending, TaskId
  <1>2. /\ \A t \in TaskId : t # nextId => /\ status'[t] = status[t]
                                           /\ info'[t] = info[t]
        /\ status'[nextId] = "pending"
        /\ info'[nextId] = [type |-> j, node |-> m, payload |-> p]
    BY <1>1 DEF InsertPending
  <1>3. ASSUME NEW t \in TaskId
        PROVE  /\ t < nextId => info'[t] = info[t]
               /\ t \in Rows(n, k)' <=> t \in Rows(n, k)
               /\ nextId <= t /\ IsOf(t, n, k)' => nextId' <= t
               /\ t \in Rows(n, k) /\ status'[t] = "completed" =>
                     status[t] = "completed"
    <2>1. CASE t = nextId
      BY <1>1, <1>2, <2>1, UsedIds DEF Rows, IsOf
    <2>2. CASE t # nextId
      <3>1. status'[t] = status[t] /\ info'[t] = info[t]
        BY <1>2, <2>2
      <3>2. nextId <= t => nextId' <= t
        BY <1>1, <2>2, UsedIds
      <3>3. QED
        BY <3>1, <3>2 DEF Rows
    <2>3. QED
      BY <2>1, <2>2
  <1>4. QED
    BY <1>3 DEF RowsStay

\* Executors that do not move stay as they are, while the target is the same.
LEMMA SameExecs ==
  ASSUME QueueInv, NEW n, NEW k, UNCHANGED exec,
         Target(n, k)' = Target(n, k)
  PROVE  ExecsStay(n, k)
  BY DEF ExecsStay, InTime

\* A step of a request about some other content.
LEMMA OtherRequest ==
  ASSUME QueueInv, SavedLast, NEW n \in Nodes,
         NEW k \in DbTypes \cup SyncTypes,
         Deploys(n, k), NEW r \in Requests, RequestStep(r), Kind[r] # k
  PROVE  Deploys(n, k)'
  <1>0. Asks(r)
    BY RequestAsks
  <1>1. UNCHANGED exec /\ UNCHANGED remote
    BY DEF RequestStep, Commit, Begin, EnqueueDelete, EnqueueInsert,
       EnqueueInsertFails, SaveSettings, CancelRequest, nodeVars
  <1>2. Target(n, k)' = Target(n, k)
    <2>1. saved'[n][k] = saved[n][k]
      BY SavedBy
    <2>2. Begun(k)' = Begun(k)
      BY <1>0 DEF Asks, Begun
    <2>3. QED
      BY <2>1, <2>2 DEF Target
  <1>3. Awaited(n, k) => Awaited(n, k)'
    BY <1>0 DEF Asks, Awaited
  <1>4. RowsStay(n, k)
    BY StayUnchanged, StayDelete, StayInsert
    DEF RequestStep, Commit, Begin, EnqueueDelete, EnqueueInsert,
        EnqueueInsertFails, SaveSettings, CancelRequest
  <1>5. QED
    BY <1>1, <1>2, <1>3, <1>4, SameExecs, DeployFrame

\* A step of a request about this content: it begins before any row is there,
\* has a row to insert, has just inserted the newest, or was cut short.
LEMMA OwnRequest ==
  ASSUME QueueInv, SavedLast, RowsOfRequests, NEW n \in Nodes,
         NEW k \in DbTypes \cup SyncTypes,
         Deploys(n, k), OneChange(k)', NEW r \in Requests, RequestStep(r),
         Kind[r] = k
  PROVE  Deploys(n, k)'
  <1>0. Asks(r) /\ req \in [Requests -> ReqState]
    BY RequestAsks DEF QueueInv, TypeOK
  <1>1. UNCHANGED exec /\ UNCHANGED remote
    BY DEF RequestStep, Commit, Begin, EnqueueDelete, EnqueueInsert,
       EnqueueInsertFails, SaveSettings, CancelRequest, nodeVars
  <1>2. ASSUME req[r].pc # "new" PROVE Target(n, k)' = Target(n, k)
    <2>1. k \in SyncTypes \/ saved'[n][k] = saved[n][k]
      BY <1>2, SavedBy DEF Commit, SaveSettings, SavedLast
    <2>2. Begun(k)' = Begun(k)
      BY <1>0, <1>2 DEF Asks, Begun
    <2>3. QED
      BY <2>1, <2>2, TypesDiffer DEF Target
  <1>3. ASSUME \A s \in Requests : s # r => req'[s] = req[s],
               req'[r].lost = req[r].lost,
               req[r].pc \in {"delete", "insert"} /\ n \in req[r].todo =>
                  req'[r].pc \in {"delete", "insert"} /\ n \in req'[r].todo,
               ~(req[r].pc = "insert" /\ req[r].node = n)
        PROVE  Awaited(n, k) => Awaited(n, k)'
    BY <1>3 DEF Awaited
  <1>4. CASE Commit(r)
    <2>1. req'[r].pc = "delete" /\ req'[r].todo = Nodes
      BY <1>0, <1>4 DEF Commit, ReqState
    <2>2. Awaited(n, k)'
      BY <2>1 DEF Awaited
    <2>3. QED
      BY <2>2 DEF Deploys
  <1>5. CASE \E m \in Nodes : Begin(r, m)
    <2>1. /\ req[r].pc = "new" /\ k \in SyncTypes
          /\ UNCHANGED <<info, nextId>>
      BY <1>5 DEF Begin, taskVars
    <2>2. r \in Begun(k)' /\ Begun(k) \subseteq Begun(k)' /\ r \notin Begun(k)
      BY <1>0, <2>1 DEF Begun, Asks
    <2>3. Begun(k) = {}
      BY <2>1, <2>2, TypesDiffer DEF OneChange
    <2>4. ASSUME NEW t \in TaskId, IsOf(t, n, k)' PROVE nextId' <= t
      <3>1. info[t].type = k
        BY <2>1, <2>4 DEF IsOf
      <3>2. ~(t < nextId)
        BY <2>1, <2>3, <3>1 DEF RowsOfRequests, Begun
      <3>3. QED
        BY <2>1, <3>2, UsedIds
    <2>5. QED
      BY <2>4 DEF Deploys
  <1>6. ASSUME NEW m \in Nodes, EnqueueDelete(r, m)
        PROVE  Deploys(n, k)'
    <2>1. /\ req[r].pc = "delete" /\ req'[r].pc = "insert"
          /\ req'[r].node = m /\ req'[r].todo = req[r].todo \ {m}
          /\ req'[r].lost = req[r].lost
          /\ DeletePending(m, k)
      BY <1>0, <1>6 DEF EnqueueDelete, ReqState
    <2>2. CASE m = n
      <3>1. Awaited(n, k)'
        BY <2>1, <2>2 DEF Awaited
      <3>2. QED
        BY <3>1 DEF Deploys
    <2>3. CASE m # n
      <3>1. Awaited(n, k) => Awaited(n, k)'
        BY <1>0, <1>3, <2>1, <2>3 DEF Asks
      <3>2. RowsStay(n, k)
        BY <2>1, <2>3, StayDelete
      <3>3. QED
        BY <1>1, <1>2, <2>1, <3>1, <3>2, SameExecs, DeployFrame
    <2>4. QED
      BY <2>2, <2>3
  <1>7. CASE EnqueueInsert(r)
    <2>1. PICK m, p : /\ m = req[r].node
                      /\ InsertPending(m, k, p)
      BY <1>7 DEF EnqueueInsert
    <2>2. /\ req[r].pc = "insert" /\ req'[r].pc = AfterInsert(r)
          /\ req'[r].todo = req[r].todo /\ req'[r].lost = req[r].lost
      BY <1>0, <1>7 DEF EnqueueInsert, ReqState
    <2>3. CASE m # n
      <3>1. Awaited(n, k) => Awaited(n, k)'
        BY <1>0, <1>3, <2>1, <2>2, <2>3 DEF Asks, AfterInsert
      <3>2. RowsStay(n, k)
        BY <2>1, <2>3, StayInsert
      <3>3. QED
        BY <1>1, <1>2, <2>2, <3>1, <3>2, SameExecs, DeployFrame
    <2>4. CASE m = n
      <3>1. PICK i : i = nextId
        OBVIOUS
      <3>2. i \in TaskId /\ status'[i] = "pending" /\ IsOf(i, n, k)'
        BY <2>1, <2>4, <3>1, UsedIds
        DEF InsertPending, TaskId, QueueInv, TypeOK, IsOf
      <3>3. \A u \in TaskId : u # i => status'[u] = status[u]
        BY <2>1, <3>1 DEF InsertPending, QueueInv, TypeOK
      <3>4. i \in Rows(n, k)' /\ \A u \in Rows(n, k)' : u <= i
        BY <3>1, <3>2, <3>3, UsedIds DEF Rows, IsOf
      <3>5. \A e \in Executors : ~Running(e, i)'
        BY <1>1, <3>1, UsedIds DEF Running, QueueInv, IdsInOrder
      <3>6. Newest(n, k, i)'
        BY <3>4 DEF Newest
      <3>7. QED
        BY <3>2, <3>5, <3>6 DEF Deploys
    <2>5. QED
      BY <2>3, <2>4
  <1>8. CASE EnqueueInsertFails(r) \/ CancelRequest(r)
    <2>1. req'[r].lost
      BY <1>0, <1>8 DEF EnqueueInsertFails, CancelRequest, ReqState
    <2>2. Awaited(n, k)'
      BY <2>1 DEF Awaited
    <2>3. QED
      BY <2>2 DEF Deploys
  <1>9. CASE SaveSettings(r)
    <2>1. req[r].pc = "save" /\ req'[r].lost = req[r].lost /\ UNCHANGED taskVars
      BY <1>0, <1>9 DEF SaveSettings, ReqState
    <2>2. Awaited(n, k) => Awaited(n, k)'
      BY <1>0, <1>3, <2>1 DEF Asks
    <2>3. QED
      BY <1>1, <1>2, <2>1, <2>2, StayUnchanged, SameExecs, DeployFrame
  <1>10. QED
    BY <1>4, <1>5, <1>6, <1>7, <1>8, <1>9 DEF RequestStep

\* A Retry makes a row pending again, which it is still there to be.
LEMMA RetryDeploys ==
  ASSUME QueueInv, NEW n \in Nodes, NEW k \in DbTypes \cup SyncTypes,
         Deploys(n, k), NEW q \in Retries, RetryStep(q)
  PROVE  Deploys(n, k)'
  <1>1. UNCHANGED <<info, nextId, exec, req, saved>> /\ UNCHANGED remote
    BY DEF RetryStep, RetryRead, RetryWrite, taskVars, nodeVars
  <1>2. Target(n, k)' = Target(n, k) /\ (Awaited(n, k) => Awaited(n, k)')
    BY <1>1 DEF Target, Begun, Awaited
  <1>3. RowsStay(n, k)
    <2>1. CASE RetryWrite(q)
      <3> DEFINE t == retry[q].id
      <3>1. t \in TaskId /\ t < nextId
        BY <2>1 DEF RetryWrite, QueueInv, IdsInOrder
      <3>2. status[t] # "free"
        BY <3>1, UsedIds
      <3>3. \A u \in TaskId :
               \/ status'[u] = status[u]
               \/ status[u] \notin {"free", "deleted"} /\ status'[u] = "pending"
        BY <2>1, <3>1, <3>2 DEF RetryWrite, QueueInv, TypeOK
      <3>4. QED
        BY <1>1, <3>3 DEF RowsStay, Rows
    <2>2. CASE \E t \in TaskId : RetryRead(q, t)
      BY <2>2, StayUnchanged DEF RetryRead
    <2>3. QED
      BY <2>1, <2>2 DEF RetryStep
  <1>4. QED
    BY <1>1, <1>2, <1>3, SameExecs, DeployFrame

\* A crash cuts requests short and stops the executors.
LEMMA CrashDeploys ==
  ASSUME QueueInv, NEW n \in Nodes, NEW k \in DbTypes \cup SyncTypes,
         Deploys(n, k), Crash
  PROVE  Deploys(n, k)'
  <1>1. /\ UNCHANGED taskVars /\ UNCHANGED <<saved, remote>>
        /\ \A e \in Executors : exec'[e].pc = "idle"
    BY DEF Crash, nodeVars, IdleExec
  <1>2. Target(n, k)' = Target(n, k)
    <2>1. \A r \in Requests : req'[r].pc = "new" <=> req[r].pc = "new"
      BY CrashAsks
    <2>2. Begun(k)' = Begun(k)
      BY <2>1 DEF Begun
    <2>3. QED
      BY <1>1, <2>2 DEF Target
  <1>3. Awaited(n, k) => Awaited(n, k)'
    BY CrashAsks DEF Awaited
  <1>4. ExecsStay(n, k)
    BY <1>1 DEF ExecsStay, RunningPc
  <1>5. QED
    BY <1>1, <1>2, <1>3, <1>4, StayUnchanged, DeployFrame

\* A task about to read its content reads the target.
LEMMA PayloadIsTarget ==
  ASSUME QueueInv, RowsOfRequests, NEW n, NEW k \in SyncTypes, OneChange(k),
         NEW t \in TaskId, t < nextId, IsOf(t, n, k)
  PROVE  info[t].payload = Target(n, k)
  <1>1. PICK r \in Requests : /\ Kind[r] = k /\ req[r].pc \in {"save", "done"}
                              /\ info[t].payload = {r}
    BY DEF RowsOfRequests, IsOf
  <1>2. r \in Begun(k) /\ \A s \in Begun(k) : s = r
    BY <1>1, TypesDiffer DEF Begun, OneChange
  <1>3. Begun(k) = {r}
    BY <1>2
  <1>4. QED
    BY <1>1, <1>3, TypesDiffer DEF Target

\* An executor that does not end a call about content k of node n.
LEMMA MovedExecs ==
  ASSUME QueueInv, RunsOwnRow, RowsOfRequests, NEW n \in Nodes,
         NEW k \in DbTypes \cup SyncTypes, OneChange(k),
         NEW e \in Executors, Moved(e), InfoKept,
         ~(Writes(e) /\ IsOf(exec[e].id, n, k)),
         UNCHANGED <<req, saved>>
  PROVE  ExecsStay(n, k)
  <1>0. \A f \in Executors :
           exec[f].pc \in RunningPc \cup {"claim"} =>
              /\ exec[f].id \in TaskId /\ exec[f].id < nextId
              /\ info'[exec[f].id] = info[exec[f].id]
              /\ info[exec[f].id].node = exec[f].node
    BY DEF QueueInv, IdsInOrder, InfoKept, RunsOwnRow
  <1>1. Target(n, k)' = Target(n, k)
    BY DEF Target, Begun
  <1> SUFFICES ASSUME NEW f \in Executors, exec'[f].pc \in RunningPc,
                      IsOf(exec[f].id, n, k)'
               PROVE  \/ InTime(f, n, k)'
                      \/ /\ exec[f].pc \in RunningPc
                         /\ exec'[f].id = exec[f].id
                         /\ ~InTime(f, n, k)
                         /\ exec'[f].pc = "write" => exec[f].pc = "write"
    BY DEF ExecsStay
  <1>2. CASE f # e
    <2>1. exec'[f] = exec[f]
      BY <1>2 DEF Moved
    <2>2. QED
      BY <1>1, <2>1 DEF InTime
  <1>3. CASE f = e
    <2>1. /\ exec[e].pc \in RunningPc \cup {"claim"}
          /\ exec'[e].id = exec[e].id
          /\ \/ Claims(e) \/ Reads(e) \/ Writes(e) \/ Enqueues(e) \/ Fails(e)
      BY <1>3 DEF Moved, Chooses, Claims, Reads, Writes, Enqueues, Fails,
                  SameTask, RunningPc
    <2>2. IsOf(exec[e].id, n, k)
      BY <1>0, <1>3, <2>1 DEF IsOf
    <2>3. CASE Claims(e)
      <3>1. exec'[e].pc = "read"
        BY <2>2, <2>3, TypesDiffer DEF Claims, IsOf
      <3>2. QED
        BY <1>3, <3>1 DEF InTime
    <2>4. CASE Reads(e)
      <3>1. exec'[e].val = Target(n, k)
        <4>1. CASE k \in DbTypes
          BY <1>0, <2>1, <2>2, <2>4, <4>1 DEF Reads, IsOf, Target
        <4>2. CASE k \in SyncTypes
          BY <1>0, <2>1, <2>2, <2>4, <4>2, PayloadIsTarget, TypesDiffer
          DEF Reads, IsOf
        <4>3. QED
          BY <4>1, <4>2
      <3>2. QED
        BY <1>1, <1>3, <2>4, <3>1 DEF InTime, Reads
    <2>5. CASE Enqueues(e)
      BY <1>3, <2>1, <2>5 DEF Enqueues, InTime, RunningPc
    <2>6. CASE Fails(e)
      BY <1>3, <2>6 DEF Fails, InTime
    <2>7. QED
      BY <2>1, <2>2, <2>3, <2>4, <2>5, <2>6
  <1>4. QED
    BY <1>2, <1>3

\* A call of the only executor about this content: with the target, or while
\* the newest row is still to be run.
LEMMA OwnCall ==
  ASSUME QueueInv, OneExecutor, NEW n \in Nodes,
         NEW k \in DbTypes \cup SyncTypes, Deploys(n, k),
         NEW e \in Executors, CallSucceeds(e) \/ CallFails(e),
         IsOf(exec[e].id, n, k), exec[e].node = n
  PROVE  Deploys(n, k)'
  <1>a. PICK t : t = exec[e].id
    OBVIOUS
  <1>0. /\ exec[e].pc = "write" /\ t \in TaskId /\ t < nextId
        /\ UNCHANGED <<status, info, epoch, nextId>> /\ UNCHANGED <<req, saved>>
    BY <1>a DEF CallSucceeds, CallFails, QueueInv, IdsInOrder, RunningPc,
                taskVars
  <1>1. \A f \in Executors : f = e
    BY DEF OneExecutor
  <1>2. /\ exec'[e].id = t /\ exec'[e].pc \in {"rdelete", "complete"}
        /\ CallFails(e) => exec'[e].pc = "complete" /\ exec'[e].err = "error"
    BY <1>a DEF CallSucceeds, CallFails, QueueInv, TypeOK, ExecState
  <1>3. \/ remote'[n][k] = exec[e].val
        \/ CallFails(e) /\ remote'[n][k] = remote[n][k]
    <2>1. CASE UNCHANGED nodeVars /\ CallFails(e)
      BY <2>1 DEF nodeVars
    <2>2. CASE AgentApplies(e)
      <3>1. remote' = [remote EXCEPT ![n][k] = exec[e].val]
        BY <2>2, TypesDiffer DEF AgentApplies, IsOf
      <3>2. /\ remote \in [Nodes -> [ContentTypes -> Content]]
            /\ k \in ContentTypes
        BY TypesDiffer DEF QueueInv, TypeOK
      <3>3. remote'[n] = [remote[n] EXCEPT ![k] = exec[e].val]
        BY <3>1, <3>2
      <3>4. remote[n] \in [ContentTypes -> Content]
        BY <3>2
      <3>5. QED
        BY <3>2, <3>3, <3>4
    <2>3. QED
      BY <2>1, <2>2 DEF CallSucceeds, CallFails
  <1>4. Target(n, k)' = Target(n, k)
    BY <1>0 DEF Target, Begun
  <1>5. CASE Awaited(n, k)
    <2>1. Awaited(n, k)'
      BY <1>0, <1>5 DEF Awaited
    <2>2. QED
      BY <2>1 DEF Deploys
  <1>6. ASSUME exec[e].val = Target(n, k), remote'[n][k] = exec[e].val
        PROVE  Deploys(n, k)'
    <2>1. \A f \in Executors : exec'[f].pc # "write"
      BY <1>1, <1>2
    <2>2. QED
      BY <1>4, <1>6, <2>1 DEF Deploys
  <1>7. CASE \A u \in TaskId : IsOf(u, n, k) => nextId <= u
    BY <1>a, <1>0, <1>7, UsedIds
  <1>8. CASE \E u \in TaskId :
                /\ Newest(n, k, u) /\ status[u] # "completed"
                /\ \A f \in Executors : Running(f, u) => InTime(f, n, k)
    <2>1. PICK u \in TaskId :
                /\ Newest(n, k, u) /\ status[u] # "completed"
                /\ \A f \in Executors : Running(f, u) => InTime(f, n, k)
      BY <1>8
    <2>2. Newest(n, k, u)' /\ status'[u] # "completed"
      BY <1>0, <2>1 DEF Newest, Rows
    <2>3. CASE u = t /\ remote'[n][k] = exec[e].val
      <3>1. InTime(e, n, k)
        BY <1>a, <1>0, <2>1, <2>3 DEF Running, RunningPc
      <3>2. exec[e].val = Target(n, k)
        BY <1>0, <3>1 DEF InTime
      <3>3. QED
        BY <1>6, <2>3, <3>2
    <2>4. CASE u # t \/ CallFails(e)
      <3>1. \A f \in Executors : Running(f, u)' => InTime(f, n, k)'
        BY <1>1, <1>2, <2>4 DEF Running, InTime
      <3>2. QED
        BY <2>2, <3>1 DEF Deploys
    <2>5. QED
      BY <1>3, <2>3, <2>4
  <1>9. CASE /\ remote[n][k] = Target(n, k)
             /\ \A f \in Executors :
                   exec[f].pc = "write" /\ IsOf(exec[f].id, n, k) =>
                      InTime(f, n, k)
    <2>1. exec[e].val = Target(n, k)
      BY <1>0, <1>9 DEF InTime
    <2>2. QED
      BY <1>3, <1>6, <1>9, <2>1
  <1>10. QED
    BY <1>5, <1>7, <1>8, <1>9 DEF Deploys

\* A step of an executor.
LEMMA ExecDeploys ==
  ASSUME QueueInv, RunsOwnRow, RowsOfRequests, OneExecutor, NEW n \in Nodes,
         NEW k \in DbTypes \cup SyncTypes, OneChange(k), Deploys(n, k),
         NEW e \in Executors, StartSync(e) \/ ExecStep(e) \/ CancelSync(e)
  PROVE  Deploys(n, k)'
  <1> DEFINE t == exec[e].id
  <1>0. Moved(e) /\ UNCHANGED <<req, saved>> /\ InfoKept
    BY ExecMoves, ExecLeaves, InfoIsKept DEF Next
  <1>1. Target(n, k)' = Target(n, k) /\ (Awaited(n, k) => Awaited(n, k)')
    BY <1>0 DEF Target, Begun, Awaited
  <1>2. ASSUME RowsStay(n, k), remote'[n][k] = remote[n][k],
               ~(Writes(e) /\ IsOf(exec[e].id, n, k))
        PROVE  Deploys(n, k)'
    BY <1>0, <1>1, <1>2, MovedExecs, DeployFrame
  <1>3. ASSUME exec[e].pc # "write" PROVE ~Writes(e)
    BY <1>3 DEF Writes
  <1>4. CASE QuietStep(e)
    <2>1. /\ UNCHANGED taskVars /\ UNCHANGED remote
          /\ exec[e].pc # "write" \/ CancelSync(e)
      BY <1>4 DEF QuietStep, StartSync, EndSync, SelectOldest, SelectNone,
         PollOnline, PollFails, ClaimMisses, ReadContent, ReadFails,
         RestartInsertFails, CompleteFails, CancelSync, nodeVars
    <2>2. CancelSync(e) => exec'[e].pc = "idle"
      BY DEF CancelSync, QueueInv, TypeOK, IdleExec
    <2>3. ~Writes(e)
      BY <2>1, <2>2 DEF Writes
    <2>4. QED
      BY <1>2, <2>1, <2>3, StayUnchanged
  <1>5. CASE Claim(e)
    <2>1. /\ exec[e].pc = "claim" /\ t \in TaskId /\ status[t] = "pending"
          /\ status \in [TaskId -> Status]
          /\ status' = [status EXCEPT ![t] = "processing"]
          /\ UNCHANGED <<info, nextId>> /\ UNCHANGED remote
      BY <1>5 DEF Claim, QueueInv, IdsInOrder, TypeOK, nodeVars
    <2>2. RowsStay(n, k)
      BY <2>1 DEF RowsStay, Rows
    <2>3. QED
      BY <1>2, <1>3, <2>1, <2>2
  <1>6. CASE Complete(e)
    <2>1. /\ exec[e].pc = "complete" /\ exec[e].pc \in RunningPc
          /\ exec[e].err \in {"none", "error"}
          /\ status \in [TaskId -> Status]
          /\ UNCHANGED <<info, nextId>> /\ UNCHANGED remote
      BY <1>6 DEF Complete, QueueInv, TypeOK, ExecState, nodeVars, RunningPc
    <2>2. t \in TaskId /\ status[t] # "free"
      BY <2>1, UsedIds DEF QueueInv, IdsInOrder
    <2>3. \A u \in TaskId :
             \/ status'[u] = status[u]
             \/ /\ u = t /\ status[u] \notin {"free", "deleted"}
                /\ \/ status'[u] = "failed"
                   \/ status'[u] = "completed" /\ exec[e].err = "none"
      BY <1>6, <2>1, <2>2 DEF Complete
    <2>4. exec[e].err = "none" => ~InTime(e, n, k)
      BY <2>1 DEF InTime
    <2>5. RowsStay(n, k)
      BY <2>1, <2>3, <2>4 DEF RowsStay, Rows, Running
    <2>6. QED
      BY <1>2, <1>3, <2>1, <2>5
  <1>7. CASE RestartDelete(e) \/ RestartInsert(e)
    <2>1. /\ exec[e].pc # "write" /\ UNCHANGED remote
          /\ \/ DeletePending(exec[e].node, Restart)
             \/ InsertPending(exec[e].node, Restart, {})
      BY <1>7 DEF RestartDelete, RestartInsert, nodeVars
    <2>2. RowsStay(n, k)
      BY <2>1, StayDelete, StayInsert, TypesDiffer
    <2>3. QED
      BY <1>2, <1>3, <2>1, <2>2
  <1>8. CASE CallSucceeds(e) \/ CallFails(e)
    <2>1. exec[e].pc = "write" /\ UNCHANGED taskVars
      BY <1>8 DEF CallSucceeds, CallFails
    <2>2. t \in TaskId /\ info[t].node = exec[e].node /\ exec[e].node \in Nodes
      BY <2>1 DEF QueueInv, IdsInOrder, RunsOwnRow, RunningPc
    <2>3. CASE IsOf(t, n, k)
      BY <1>8, <2>2, <2>3, OwnCall DEF IsOf
    <2>4. CASE ~IsOf(t, n, k)
      <3>1. remote'[n][k] = remote[n][k]
        <4> DEFINE m == exec[e].node
                   j == info[t].type
        <4>1. /\ remote \in [Nodes -> [ContentTypes -> Content]]
              /\ k \in ContentTypes
          BY TypesDiffer DEF QueueInv, TypeOK
        <4>2. CASE UNCHANGED remote
          BY <4>2
        <4>3. CASE remote' = [remote EXCEPT ![m][j] = exec[e].val]
          <5>1. remote' = [remote EXCEPT ![m] =
                             [remote[m] EXCEPT ![j] = exec[e].val]]
            BY <4>3
          <5>2. CASE m # n
            BY <4>1, <5>1, <5>2
          <5>3. CASE m = n
            <6>1. j # k
              BY <2>2, <2>4, <5>3 DEF IsOf
            <6>2. remote'[n] = [remote[n] EXCEPT ![j] = exec[e].val]
              BY <4>1, <5>1, <5>3
            <6>3. remote[n] \in [ContentTypes -> Content]
              BY <4>1
            <6>4. QED
              BY <4>1, <6>1, <6>2, <6>3
          <5>4. QED
            BY <5>2, <5>3
        <4>4. QED
          BY <1>8, <4>2, <4>3 DEF CallSucceeds, CallFails, AgentApplies,
                                  nodeVars
      <3>2. QED
        BY <1>2, <2>1, <2>4, <3>1, StayUnchanged
    <2>5. QED
      BY <2>3, <2>4
  <1>9. QED
    BY <1>4, <1>5, <1>6, <1>7, <1>8 DEF ExecStep, QuietStep

\* DeployInv is preserved by every step.
LEMMA NextDeployInv ==
  ASSUME DeployInv, Next, QueueInv'
  PROVE  DeployInv'
  <1>0. QueueInv /\ RunsOwnRow /\ SavedLast /\ RowsOfRequests
    BY DEF DeployInv
  <1>1. RunsOwnRow' /\ SavedLast' /\ RowsOfRequests'
    BY <1>0, RunsOwnRowInv, SavedLastInv, RowsOfRequestsInv
  <1>2. ASSUME OneExecutor, NEW n \in Nodes, NEW k \in DbTypes \cup SyncTypes,
               OneChange(k)'
        PROVE  Deploys(n, k)'
    <2>1. OneChange(k) /\ Deploys(n, k)
      BY <1>0, <1>2, BegunGrows DEF DeployInv
    <2>2. ASSUME NEW r \in Requests, RequestStep(r) PROVE Deploys(n, k)'
      BY <1>0, <1>2, <2>1, <2>2, OtherRequest, OwnRequest
    <2>3. ASSUME NEW e \in Executors,
                 StartSync(e) \/ ExecStep(e) \/ CancelSync(e)
          PROVE  Deploys(n, k)'
      BY <1>0, <1>2, <2>1, <2>3, ExecDeploys
    <2>4. ASSUME NEW q \in Retries, RetryStep(q) PROVE Deploys(n, k)'
      BY <1>0, <2>1, <2>4, RetryDeploys
    <2>5. CASE Crash
      BY <1>0, <2>1, <2>5, CrashDeploys
    <2>6. QED
      BY <2>2, <2>3, <2>4, <2>5 DEF Next
  <1>3. QED
    BY <1>1, <1>2 DEF DeployInv, OneExecutor

\* The inductive invariant about contents holds in every behaviour: with one
\* executor, the newest task of a content will still deploy what the database
\* says, or the node has it.
THEOREM DeployInvariant == Spec => []DeployInv
  <1>1. Init => DeployInv
    <2> SUFFICES ASSUME Init PROVE DeployInv
      OBVIOUS
    <2>1. QueueInv
      BY InitQueueInv
    <2>2. RunsOwnRow /\ SavedLast
      BY DEF Init, IdleExec, RunsOwnRow, SavedLast, RunningPc
    <2>3. \A t \in TaskId : nextId <= t
      BY DEF Init, TaskId
    <2>4. RowsOfRequests /\ \A n, k : Deploys(n, k)
      BY <2>1, <2>3, UsedIds DEF RowsOfRequests, Deploys
    <2>5. QED
      BY <2>1, <2>2, <2>4 DEF DeployInv
  <1>2. DeployInv /\ QueueInv' /\ [Next]_vars => DeployInv'
    <2> SUFFICES ASSUME DeployInv, QueueInv', [Next]_vars PROVE DeployInv'
      OBVIOUS
    <2>1. CASE Next
      BY <2>1, NextDeployInv
    <2>2. CASE UNCHANGED vars
      <3>1. \A k : Begun(k)' = Begun(k)
        BY <2>2 DEF vars, Begun
      <3>2. \A k : OneChange(k)' <=> OneChange(k)
        BY <3>1 DEF OneChange
      <3>3. \A n, k : Deploys(n, k) => Deploys(n, k)'
        BY <2>2, <3>1 DEF vars, Deploys, Awaited, IsOf, Newest, Rows, Running,
           InTime, Target
      <3>4. RunsOwnRow' /\ SavedLast' /\ RowsOfRequests'
        BY <2>2, <3>2 DEF vars, DeployInv, RunsOwnRow, SavedLast,
                          RowsOfRequests
      <3>5. QED
        BY <3>2, <3>3, <3>4 DEF DeployInv, OneExecutor
    <2>3. QED
      BY <2>1, <2>2
  <1>3. QED
    BY <1>1, <1>2, QueueInvariant, PTL DEF Spec

\* With one executor, any number of nodes, requests, retries and crashes: when
\* the requests over some content are over and its newest task on a node says
\* 'completed', the node has what the database says.
THEOREM CompletedIsDeployed == Spec => []CompletedMeansDeployed
  <1>1. DeployInv => CompletedMeansDeployed
    <2> SUFFICES ASSUME DeployInv, OneExecutor, NEW n \in Nodes,
                        NEW k \in DbTypes \cup SyncTypes, OneChange(k),
                        Settled(k), NEW t \in TaskId, Newest(n, k, t),
                        status[t] = "completed"
                 PROVE  remote[n][k] = saved[n][k]
      BY DEF CompletedMeansDeployed
    <2>0. QueueInv /\ SavedLast /\ RowsOfRequests /\ Deploys(n, k)
      BY DEF DeployInv
    <2>1. IsOf(t, n, k) /\ t < nextId
      BY <2>0, UsedIds DEF Newest, Rows, IsOf
    <2>2. ~Awaited(n, k)
      BY DEF Awaited, Settled
    <2>3. \A u \in TaskId : Newest(n, k, u) => u = t
      BY <2>0, UsedIds DEF Newest, Rows
    <2>4. remote[n][k] = Target(n, k)
      BY <2>0, <2>1, <2>2, <2>3, UsedIds DEF Deploys
    <2>5. CASE k \in DbTypes
      BY <2>4, <2>5 DEF Target
    <2>6. CASE k \in SyncTypes
      <3>1. PICK r \in Requests :
               /\ Kind[r] = k /\ req[r].pc \in {"save", "done"}
               /\ info[t].payload = {r} /\ req[r].node = n
        BY <2>0, <2>1, <2>6 DEF RowsOfRequests, IsOf
      <3>2. req[r].pc = "done" /\ ~req[r].lost
        BY <3>1 DEF Settled
      <3>3. saved[n][k] = {r}
        BY <2>0, <2>6, <3>1, <3>2 DEF SavedLast
      <3>4. Target(n, k) = {r}
        BY <2>0, <2>1, <2>6, <3>1, PayloadIsTarget
      <3>5. QED
        BY <2>4, <3>3, <3>4
    <2>7. QED
      BY <2>5, <2>6
  <1>2. QED
    BY <1>1, DeployInvariant, PTL
=============================================================================
