----------------------------- MODULE PanelTasks -----------------------------
(***************************************************************************)
(* The panel's queue of background tasks (table PanelAsyncTask) with       *)
(* everybody who touches it: HTTP requests that change panel data and      *)
(* enqueue its deployment, the executors that poll the agents and run the  *)
(* pending tasks of a node (the background worker, and POST /agent/sync,   *)
(* which runs the same code under the request's context), and the retry    *)
(* endpoint.  Every SQL statement and every agent call is one step, as     *)
(* none of these operations holds a lock or a transaction across them,     *)
(* except the claim, whose conditional UPDATE is what makes it safe.       *)
(*                                                                         *)
(* Content is abstracted to the set of requests it reflects: the CRL of a  *)
(* node is the set of revocations it lists, a CA file is the request that  *)
(* chose it.                                                               *)
(***************************************************************************)
EXTENDS Naturals, FiniteSets

CONSTANTS
    Nodes,        \* agent nodes
    NoNode,       \* no node chosen
    Executors,    \* goroutines that run SyncAllNodes
    HttpSyncs,    \* the executors that serve POST /agent/sync
    Requests,     \* requests that change panel data, each is made once
    Kind,         \* the task type each request enqueues
    Retries,      \* requests to POST /tasks/{id}/retry, each is made once
    MaxTasks,     \* bound: rows ever inserted in PanelAsyncTask
    MaxPerPoll,   \* tasks run per poll of a node (20 in the code)
    MaxCrashes    \* bound: panel process crashes or restarts

\* Task types whose content is read from the database when the task runs.
DbTypes == {"crl_deploy", "panel_agent_snapshot"}
\* Task types whose payload names the content (CA, server certificate, DH
\* and TLS-auth files): they write a file and then enqueue a restart.
SyncTypes == {"openvpn_ca_sync", "openvpn_server_cert_sync",
              "openvpn_dh_sync", "openvpn_tls_auth_sync"}
Restart == "openvpn_service_restart"
ContentTypes == DbTypes \cup SyncTypes \cup {"dnsmasq_apply"}
Types == ContentTypes \cup {Restart}

ASSUME ConstantsAssumption ==
    /\ NoNode \notin Nodes
    /\ HttpSyncs \subseteq Executors
    /\ Kind \in [Requests -> ContentTypes]
    /\ MaxTasks \in Nat
    /\ MaxPerPoll \in Nat \ {0}
    /\ MaxCrashes \in Nat

TaskId == 1 .. MaxTasks
\* "free": id not used yet; "deleted": the row was removed.
Status == {"free", "pending", "processing", "completed", "failed", "deleted"}
Content == SUBSET Requests
TaskInfo == [type: Types, node: Nodes \cup {NoNode}, payload: Content]

VARIABLES
    status,   \* [TaskId -> Status]
    info,     \* [TaskId -> type, node and payload of the row]
    epoch,    \* history: how often the row was made pending
    nextId,   \* the id the next INSERT gets; ids are in createdAt order
    exec,     \* state of every executor
    req,      \* progress of every request; lost: part of it was not done
    retry,    \* progress of every retry request
    saved,    \* what the panel's database says, per node and content type
    remote,   \* what the node's files say, per content type
    loaded,   \* what the running OpenVPN service has read at its last restart
    faults    \* crashes so far; history: the rows whose completion was lost

taskVars == <<status, info, epoch, nextId>>
nodeVars == <<remote, loaded>>
vars == <<status, info, epoch, nextId, exec, req, retry, saved, remote,
          loaded, faults>>

ExecPc == {"idle", "poll", "select", "claim", "read", "write", "rdelete",
           "rinsert", "complete"}
ExecState == [pc: ExecPc, node: Nodes \cup {NoNode}, todo: SUBSET Nodes,
              left: 0 .. MaxPerPoll, id: Nat, ep: Nat, val: Content,
              err: {"none", "error"}]
IdleExec == [pc |-> "idle", node |-> NoNode, todo |-> {}, left |-> 0,
             id |-> 1, ep |-> 0, val |-> {}, err |-> "none"]

ReqState == [pc: {"new", "delete", "insert", "save", "done"},
             node: Nodes \cup {NoNode}, todo: SUBSET Nodes, lost: BOOLEAN]

TypeOK ==
    /\ status \in [TaskId -> Status]
    /\ info \in [TaskId -> TaskInfo]
    /\ epoch \in [TaskId -> Nat]
    /\ nextId \in 1 .. (MaxTasks + 1)
    /\ exec \in [Executors -> ExecState]
    /\ req \in [Requests -> ReqState]
    /\ retry \in [Retries -> [pc: {"new", "write", "done"}, id: Nat]]
    /\ saved \in [Nodes -> [ContentTypes -> Content]]
    /\ remote \in [Nodes -> [ContentTypes -> Content]]
    /\ loaded \in [Nodes -> [ContentTypes -> Content]]
    /\ faults \in [crashes: 0 .. MaxCrashes, stranded: SUBSET Nat]

Init ==
    /\ status = [t \in TaskId |-> "free"]
    /\ info = [t \in TaskId |-> [type |-> Restart, node |-> NoNode,
                                 payload |-> {}]]
    /\ epoch = [t \in TaskId |-> 0]
    /\ nextId = 1
    /\ exec = [e \in Executors |-> IdleExec]
    /\ req = [r \in Requests |-> [pc |-> "new", node |-> NoNode,
                                  todo |-> {}, lost |-> FALSE]]
    /\ retry = [q \in Retries |-> [pc |-> "new", id |-> 1]]
    /\ saved = [n \in Nodes |-> [k \in ContentTypes |-> {}]]
    /\ remote = [n \in Nodes |-> [k \in ContentTypes |-> {}]]
    /\ loaded = [n \in Nodes |-> [k \in ContentTypes |-> {}]]
    /\ faults = [crashes |-> 0, stranded |-> {}]

-----------------------------------------------------------------------------
(* Rows of the table *)

Pending(n) == {t \in TaskId : status[t] = "pending" /\ info[t].node = n}

Rows(n, k) == {t \in TaskId : /\ status[t] \notin {"free", "deleted"}
                              /\ info[t].node = n
                              /\ info[t].type = k}

\* DELETE ... WHERE agentNodeId AND type AND status = 'pending'
DeletePending(n, k) ==
    /\ status' = [t \in TaskId |->
                    IF t \in Pending(n) /\ info[t].type = k
                      THEN "deleted" ELSE status[t]]
    /\ UNCHANGED <<info, epoch, nextId>>

\* INSERT ... VALUES (id, type, 'pending', node, payload, NOW(), NOW())
InsertPending(n, k, payload) ==
    /\ nextId <= MaxTasks
    /\ status' = [status EXCEPT ![nextId] = "pending"]
    /\ info' = [info EXCEPT ![nextId] = [type |-> k, node |-> n,
                                         payload |-> payload]]
    /\ epoch' = [epoch EXCEPT ![nextId] = 1]
    /\ nextId' = nextId + 1

-----------------------------------------------------------------------------
(* Requests that change panel data *)

\* A request over data the task reads when it runs (a revocation, a user
\* change) first commits its change, which concerns every node ...
Commit(r) ==
    /\ req[r].pc = "new"
    /\ Kind[r] \in DbTypes
    /\ saved' = [n \in Nodes |->
                   [saved[n] EXCEPT ![Kind[r]] = @ \cup {r}]]
    /\ req' = [req EXCEPT ![r].pc = "delete", ![r].todo = Nodes]
    /\ UNCHANGED <<taskVars, exec, retry, nodeVars, faults>>

\* ... while a request over the settings of a node enqueues first and saves
\* last; the configuration of dnsmasq is kept in its task only.
Begin(r, n) ==
    /\ req[r].pc = "new"
    /\ Kind[r] \notin DbTypes
    /\ req' = [req EXCEPT ![r].pc = "delete", ![r].todo = {n}]
    /\ UNCHANGED <<taskVars, exec, retry, saved, nodeVars, faults>>

\* The loop over the nodes concerned: the two statements of an enqueue.
EnqueueDelete(r, n) ==
    /\ req[r].pc = "delete"
    /\ n \in req[r].todo
    /\ DeletePending(n, Kind[r])
    /\ req' = [req EXCEPT ![r].pc = "insert", ![r].node = n,
                          ![r].todo = @ \ {n}]
    /\ UNCHANGED <<exec, retry, saved, nodeVars, faults>>

\* Where the request goes after the rows of one node.
AfterInsert(r) ==
    IF req[r].todo # {} THEN "delete"
    ELSE IF Kind[r] \in SyncTypes THEN "save" ELSE "done"

EnqueueInsert(r) ==
    /\ req[r].pc = "insert"
    /\ InsertPending(req[r].node, Kind[r],
                     IF Kind[r] \in DbTypes THEN {} ELSE {r})
    /\ req' = [req EXCEPT ![r].pc = AfterInsert(r)]
    /\ UNCHANGED <<exec, retry, saved, nodeVars, faults>>

\* An INSERT that fails: the loop over the nodes ignores it and goes on, a
\* settings request reports the error and stops.
EnqueueInsertFails(r) ==
    /\ req[r].pc = "insert"
    /\ req' = [req EXCEPT ![r].pc = IF Kind[r] \in DbTypes
                                      THEN AfterInsert(r) ELSE "done",
                          ![r].lost = TRUE]
    /\ UNCHANGED <<taskVars, exec, retry, saved, nodeVars, faults>>

\* upsertSettings.  The snapshot that the handler enqueues afterwards, in a
\* goroutine of its own and with a context of its own, is another member of
\* Requests, of kind panel_agent_snapshot, whose Commit is this upsert.
SaveSettings(r) ==
    /\ req[r].pc = "save"
    /\ saved' = [saved EXCEPT ![req[r].node][Kind[r]] = {r}]
    /\ req' = [req EXCEPT ![r].pc = "done"]
    /\ UNCHANGED <<taskVars, exec, retry, nodeVars, faults>>

\* The client goes away and its context is cancelled: the rest is not done.
CancelRequest(r) ==
    /\ req[r].pc \in {"delete", "insert", "save"}
    /\ req' = [req EXCEPT ![r].pc = "done", ![r].lost = TRUE]
    /\ UNCHANGED <<taskVars, exec, retry, saved, nodeVars, faults>>

-----------------------------------------------------------------------------
(* Executors: SyncAllNodes, ProcessPendingForNode, executeTask *)

\* An executor that is done with a task, or with a node: what it held for it
\* is gone.
TaskOver(x) == [x EXCEPT !.pc = "select", !.id = 1, !.ep = 0, !.val = {},
                         !.err = "none"]
NodeOver(x) == [IdleExec EXCEPT !.pc = "poll", !.todo = x.todo]

StartSync(e) ==
    /\ exec[e].pc = "idle"
    /\ exec' = [exec EXCEPT ![e].pc = "poll", ![e].todo = Nodes]
    /\ UNCHANGED <<taskVars, req, retry, saved, nodeVars, faults>>

\* The agent answers /metrics with status ONLINE.
PollOnline(e, n) ==
    /\ exec[e].pc = "poll"
    /\ n \in exec[e].todo
    /\ exec' = [exec EXCEPT ![e].pc = "select", ![e].node = n,
                            ![e].todo = @ \ {n}, ![e].left = MaxPerPoll]
    /\ UNCHANGED <<taskVars, req, retry, saved, nodeVars, faults>>

PollFails(e, n) ==
    /\ exec[e].pc = "poll"
    /\ n \in exec[e].todo
    /\ exec' = [exec EXCEPT ![e].todo = @ \ {n}]
    /\ UNCHANGED <<taskVars, req, retry, saved, nodeVars, faults>>

EndSync(e) ==
    /\ exec[e].pc = "poll"
    /\ exec[e].todo = {}
    /\ exec' = [exec EXCEPT ![e] = IdleExec]
    /\ UNCHANGED <<taskVars, req, retry, saved, nodeVars, faults>>

\* Mutant: the loop over maxTasks is not counted.
SelectOldestUncounted(e) ==
    /\ exec[e].pc = "select"
    /\ \E t \in Pending(exec[e].node) :
          /\ \A u \in Pending(exec[e].node) : t <= u
          /\ exec' = [exec EXCEPT ![e].pc = "claim", ![e].id = t]
    /\ UNCHANGED <<taskVars, req, retry, saved, nodeVars, faults>>

\* SELECT ... ORDER BY createdAt LIMIT 1
SelectOldest(e) ==
    /\ exec[e].pc = "select"
    /\ exec[e].left > 0
    /\ \E t \in Pending(exec[e].node) :
          /\ \A u \in Pending(exec[e].node) : t <= u
          /\ exec' = [exec EXCEPT ![e].pc = "claim", ![e].id = t]
    /\ UNCHANGED <<taskVars, req, retry, saved, nodeVars, faults>>

SelectNone(e) ==
    /\ exec[e].pc = "select"
    /\ exec[e].left = 0 \/ Pending(exec[e].node) = {}
    /\ exec' = [exec EXCEPT ![e] = NodeOver(exec[e])]
    /\ UNCHANGED <<taskVars, req, retry, saved, nodeVars, faults>>

\* Mutant: UPDATE ... WHERE id, without the status.
ClaimUnconditional(e) ==
    /\ exec[e].pc = "claim"
    /\ status' = [status EXCEPT ![exec[e].id] = "processing"]
    /\ exec' = [exec EXCEPT ![e].pc = IF info[exec[e].id].type = Restart
                                        THEN "write" ELSE "read",
                            ![e].ep = epoch[exec[e].id],
                            ![e].left = @ - 1,
                            ![e].val = {}, ![e].err = "none"]
    /\ UNCHANGED <<info, epoch, nextId, req, retry, saved, nodeVars, faults>>

\* UPDATE ... SET status = 'processing' WHERE id AND status = 'pending'
Claim(e) ==
    /\ exec[e].pc = "claim"
    /\ status[exec[e].id] = "pending"
    /\ status' = [status EXCEPT ![exec[e].id] = "processing"]
    /\ exec' = [exec EXCEPT ![e].pc = IF info[exec[e].id].type = Restart
                                        THEN "write" ELSE "read",
                            ![e].ep = epoch[exec[e].id],
                            ![e].left = @ - 1,
                            ![e].val = {}, ![e].err = "none"]
    /\ UNCHANGED <<info, epoch, nextId, req, retry, saved, nodeVars, faults>>

\* No row updated: somebody else has it, the node is left until the next poll.
ClaimMisses(e) ==
    /\ exec[e].pc = "claim"
    /\ status[exec[e].id] # "pending"
    /\ exec' = [exec EXCEPT ![e] = NodeOver(exec[e])]
    /\ UNCHANGED <<taskVars, req, retry, saved, nodeVars, faults>>

\* The queries of the exec* functions.
ReadContent(e) ==
    LET n == exec[e].node
        row == info[exec[e].id]
    IN
    /\ exec[e].pc = "read"
    /\ exec' = [exec EXCEPT
                  ![e].pc = "write",
                  ![e].val = IF row.type \in DbTypes THEN saved[n][row.type]
                             ELSE row.payload]
    /\ UNCHANGED <<taskVars, req, retry, saved, nodeVars, faults>>

\* The source row is gone or cannot be used.
ReadFails(e) ==
    /\ exec[e].pc = "read"
    /\ exec' = [exec EXCEPT ![e].pc = "complete", ![e].err = "error"]
    /\ UNCHANGED <<taskVars, req, retry, saved, nodeVars, faults>>

\* What the agent does with the call: a restart makes the service read its
\* files again, any other task replaces the content on the node.
AgentApplies(e) ==
    LET n == exec[e].node
        k == info[exec[e].id].type
    IN  IF k = Restart
          THEN /\ loaded' = [loaded EXCEPT ![n] = remote[n]]
               /\ UNCHANGED remote
          ELSE /\ remote' = [remote EXCEPT ![n][k] = exec[e].val]
               /\ UNCHANGED loaded

\* Mutant: the sync task does not enqueue the restart.
CallSucceedsNoRestart(e) ==
    /\ exec[e].pc = "write"
    /\ AgentApplies(e)
    /\ exec' = [exec EXCEPT ![e].pc = "complete"]
    /\ UNCHANGED <<taskVars, req, retry, saved, faults>>

CallSucceeds(e) ==
    /\ exec[e].pc = "write"
    /\ AgentApplies(e)
    /\ exec' = [exec EXCEPT ![e].pc = IF info[exec[e].id].type \in SyncTypes
                                        THEN "rdelete" ELSE "complete"]
    /\ UNCHANGED <<taskVars, req, retry, saved, faults>>

\* An error: the agent did nothing, or did it and the answer was lost.
CallFails(e) ==
    /\ exec[e].pc = "write"
    /\ AgentApplies(e) \/ UNCHANGED nodeVars
    /\ exec' = [exec EXCEPT ![e].pc = "complete", ![e].err = "error"]
    /\ UNCHANGED <<taskVars, req, retry, saved, faults>>

RestartDelete(e) ==
    /\ exec[e].pc = "rdelete"
    /\ DeletePending(exec[e].node, Restart)
    /\ exec' = [exec EXCEPT ![e].pc = "rinsert"]
    /\ UNCHANGED <<req, retry, saved, nodeVars, faults>>

RestartInsert(e) ==
    /\ exec[e].pc = "rinsert"
    /\ InsertPending(exec[e].node, Restart, {})
    /\ exec' = [exec EXCEPT ![e].pc = "complete"]
    /\ UNCHANGED <<req, retry, saved, nodeVars, faults>>

RestartInsertFails(e) ==
    /\ exec[e].pc = "rinsert"
    /\ exec' = [exec EXCEPT ![e].pc = "complete", ![e].err = "error"]
    /\ UNCHANGED <<taskVars, req, retry, saved, nodeVars, faults>>

\* Mutant: the error of the execution is not looked at.
CompleteIgnoringError(e) ==
    /\ exec[e].pc = "complete"
    /\ status' = [status EXCEPT ![exec[e].id] = IF @ = "deleted" THEN @
                                                ELSE "completed"]
    /\ exec' = [exec EXCEPT ![e] = TaskOver(exec[e])]
    /\ UNCHANGED <<info, epoch, nextId, req, retry, saved, nodeVars, faults>>

\* Mutant: only a success is written back.
CompleteOnlySuccess(e) ==
    /\ exec[e].pc = "complete"
    /\ status' = [status EXCEPT
                    ![exec[e].id] = IF exec[e].err = "none" THEN "completed"
                                    ELSE @]
    /\ exec' = [exec EXCEPT ![e] = TaskOver(exec[e])]
    /\ UNCHANGED <<info, epoch, nextId, req, retry, saved, nodeVars, faults>>

\* UPDATE ... SET status WHERE id, whatever the status is by now.
Complete(e) ==
    LET t == exec[e].id IN
    /\ exec[e].pc = "complete"
    /\ status' = [status EXCEPT
                    ![t] = IF @ = "deleted" THEN @
                           ELSE IF exec[e].err = "error" THEN "failed"
                           ELSE "completed"]
    /\ exec' = [exec EXCEPT ![e] = TaskOver(exec[e])]
    /\ UNCHANGED <<info, epoch, nextId, req, retry, saved, nodeVars, faults>>

\* The same UPDATE fails: completeTask drops the error and the executor goes
\* on, with the row as it is.
CompleteFails(e) ==
    /\ exec[e].pc = "complete"
    /\ exec' = [exec EXCEPT ![e] = TaskOver(exec[e])]
    /\ faults' = [faults EXCEPT !.stranded = @ \cup {exec[e].id}]
    /\ UNCHANGED <<taskVars, req, retry, saved, nodeVars>>

RunningPc == {"read", "write", "rdelete", "rinsert", "complete"}

\* The rows that these executors would have completed.
RunBy(E) == {exec[e].id : e \in {f \in E : exec[f].pc \in RunningPc}}

\* The client of POST /agent/sync goes away: its context is cancelled and
\* every later statement and call of this executor fails, completeTask's too.
CancelSync(e) ==
    /\ e \in HttpSyncs
    /\ exec[e].pc # "idle"
    /\ exec' = [exec EXCEPT ![e] = IdleExec]
    /\ faults' = [faults EXCEPT !.stranded = @ \cup RunBy({e})]
    /\ UNCHANGED <<taskVars, req, retry, saved, nodeVars>>

-----------------------------------------------------------------------------
(* Retry: a read of the status, then an unconditional update *)

RetryRead(q, t) ==
    /\ retry[q].pc = "new"
    /\ status[t] \notin {"free", "deleted"}
    /\ retry' = [retry EXCEPT ![q] =
                    [pc |-> IF status[t] = "processing" THEN "done"
                            ELSE "write",
                     id |-> t]]
    /\ UNCHANGED <<taskVars, exec, req, saved, nodeVars, faults>>

RetryWrite(q) ==
    LET t == retry[q].id IN
    /\ retry[q].pc = "write"
    /\ IF status[t] = "deleted"
         THEN UNCHANGED <<status, epoch>>
         ELSE /\ status' = [status EXCEPT ![t] = "pending"]
              /\ epoch' = [epoch EXCEPT ![t] = @ + 1]
    /\ retry' = [retry EXCEPT ![q].pc = "done"]
    /\ UNCHANGED <<info, nextId, exec, req, saved, nodeVars, faults>>

\* The panel process stops (SIGTERM cancels every context) and starts again:
\* the rows stay as they are, nothing looks at 'processing' ones.
Crash ==
    /\ faults.crashes < MaxCrashes
    /\ faults' = [crashes |-> faults.crashes + 1,
                  stranded |-> faults.stranded \cup RunBy(Executors)]
    /\ exec' = [e \in Executors |-> IdleExec]
    /\ req' = [r \in Requests |->
                 IF req[r].pc \in {"new", "done"} THEN req[r]
                 ELSE [req[r] EXCEPT !.pc = "done", !.lost = TRUE]]
    /\ retry' = [q \in Retries |->
                   IF retry[q].pc = "new" THEN retry[q]
                   ELSE [retry[q] EXCEPT !.pc = "done"]]
    /\ UNCHANGED <<taskVars, saved, nodeVars>>

-----------------------------------------------------------------------------
RequestStep(r) ==
    \/ Commit(r)
    \/ \E n \in Nodes : Begin(r, n) \/ EnqueueDelete(r, n)
    \/ EnqueueInsert(r)
    \/ EnqueueInsertFails(r)
    \/ SaveSettings(r)
    \/ CancelRequest(r)

\* A step of an executor inside SyncAllNodes.
ExecStep(e) ==
    \/ \E n \in Nodes : PollOnline(e, n) \/ PollFails(e, n)
    \/ EndSync(e)
    \/ SelectOldest(e) \/ SelectNone(e)
    \/ Claim(e) \/ ClaimMisses(e)
    \/ ReadContent(e) \/ ReadFails(e)
    \/ CallSucceeds(e) \/ CallFails(e)
    \/ RestartDelete(e) \/ RestartInsert(e) \/ RestartInsertFails(e)
    \/ Complete(e) \/ CompleteFails(e)

RetryStep(q) == RetryWrite(q) \/ \E t \in TaskId : RetryRead(q, t)

Next ==
    \/ \E r \in Requests : RequestStep(r)
    \/ \E e \in Executors : StartSync(e) \/ ExecStep(e) \/ CancelSync(e)
    \/ \E q \in Retries : RetryStep(q)
    \/ Crash

Spec == Init /\ [][Next]_vars

\* The worker's ticker starts a sync again and again, goroutines keep
\* running, and an agent that is polled again and again answers some time.
Fairness ==
    /\ \A e \in Executors : WF_vars(ExecStep(e))
    /\ \A e \in Executors \ HttpSyncs :
          /\ WF_vars(StartSync(e))
          /\ \A n \in Nodes : SF_vars(PollOnline(e, n))

FairSpec == Spec /\ Fairness

-----------------------------------------------------------------------------
(* Properties *)

Running(e, t) == exec[e].id = t /\ exec[e].pc \in RunningPc

\* A task that was made pending once (by an insert or by a retry) is run by
\* at most one executor for it, however many executors poll the same node:
\* what the conditional UPDATE of claimPendingTask is for.
ActivationRunsOnce ==
    \A e, f \in Executors, t \in TaskId :
        Running(e, t) /\ Running(f, t) /\ exec[e].ep = exec[f].ep => e = f

\* What makes it inductive: ids are handed out in order, an executor or a
\* retry past its SELECT refers to a row that was inserted, and an executor
\* claims within its budget ...
IdsInOrder ==
    /\ \A t \in TaskId : status[t] = "free" <=> nextId <= t
    /\ \A e \in Executors :
          /\ exec[e].pc \notin {"idle", "poll"} => exec[e].node \in Nodes
          /\ exec[e].pc \in RunningPc \cup {"claim"} =>
                exec[e].id \in TaskId /\ exec[e].id < nextId
          /\ exec[e].pc = "claim" => exec[e].left > 0
    /\ \A q \in Retries :
          retry[q].pc = "write" => retry[q].id \in TaskId
                                   /\ retry[q].id < nextId

\* ... and an executor runs an activation that exists, and one from before
\* the last if the row is pending.
RunsPastActivation ==
    \A e \in Executors, t \in TaskId :
        Running(e, t) => /\ exec[e].ep <= epoch[t]
                         /\ status[t] = "pending" => exec[e].ep < epoch[t]

\* The inductive invariant of the queue.
QueueInv == TypeOK /\ IdsInOrder /\ RunsPastActivation /\ ActivationRunsOnce

\* An executor is at a row of the node it polls, and enqueues a restart for a
\* file that it wrote.
RunsOwnRow ==
    \A e \in Executors :
        /\ exec[e].pc \in RunningPc \cup {"claim"} =>
              info[exec[e].id].node = exec[e].node
        /\ exec[e].pc \in {"rdelete", "rinsert"} =>
              info[exec[e].id].type \in SyncTypes

-----------------------------------------------------------------------------
(* "Completed" and what is on the node *)

\* Requests that change content k are all over, and none was cut short.
Settled(k) ==
    \A r \in Requests :
        Kind[r] = k => req[r].pc \in {"new", "done"} /\ ~req[r].lost

Newest(n, k, t) == t \in Rows(n, k) /\ \A u \in Rows(n, k) : u <= t

\* The worker alone.
OneExecutor == \A e, f \in Executors : e = f

\* Content that a task takes from its payload is changed once: of two changes
\* the one saved last need not be the one enqueued last, and a Retry brings
\* the payload of an old task back.
Begun(k) == {r \in Requests : Kind[r] = k /\ req[r].pc # "new"}
OneChange(k) == k \in DbTypes \/ \A r, s \in Begun(k) : r = s

\* Once the requests that change some content are over and the newest task
\* that deploys it to a node says 'completed', the node has what the panel's
\* database says, although older tasks may be run again and requests go on
\* while the newest is run.
CompletedMeansDeployed ==
    OneExecutor => \A n \in Nodes, k \in DbTypes \cup SyncTypes :
        (/\ OneChange(k) /\ Settled(k)
         /\ \E t \in TaskId : Newest(n, k, t) /\ status[t] = "completed")
        => remote[n][k] = saved[n][k]

\* For the proof: what a task of this type deploys by now; a request that was
\* cut short or has still to insert its row for a node; a row that was ever
\* inserted for a node.
Target(n, k) == IF k \in DbTypes THEN saved[n][k] ELSE Begun(k)
Awaited(n, k) ==
    \E r \in Requests :
        /\ Kind[r] = k
        /\ \/ req[r].lost
           \/ req[r].pc \in {"delete", "insert"} /\ n \in req[r].todo
           \/ req[r].pc = "insert" /\ req[r].node = n
IsOf(t, n, k) == info[t].node = n /\ info[t].type = k

\* A settings request is about one node and saves after its row is there.
SavedLast ==
    \A r \in Requests :
        /\ req[r].pc \in {"insert", "save"} => req[r].node \in Nodes
        /\ req[r].pc = "save" => Kind[r] \in SyncTypes
        /\ Kind[r] \in SyncTypes =>
              /\ req[r].pc = "delete" => \E n \in Nodes : req[r].todo = {n}
              /\ req[r].pc = "insert" => req[r].todo = {}
              /\ req[r].pc = "done" /\ ~req[r].lost =>
                    /\ req[r].node \in Nodes
                    /\ OneChange(Kind[r]) => saved[req[r].node][Kind[r]] = {r}
RowsOfRequests ==
    \A t \in TaskId : t < nextId /\ info[t].type \in SyncTypes =>
        \E r \in Requests :
            /\ Kind[r] = info[t].type /\ req[r].pc \in {"save", "done"}
            /\ info[t].payload = {r} /\ req[r].node = info[t].node

\* The executor will read what is to be deployed, has read just that, or has
\* failed.
InTime(e, n, k) ==
    \/ exec[e].pc = "read"
    \/ exec[e].pc = "write" /\ exec[e].val = Target(n, k)
    \/ exec[e].pc = "complete" /\ exec[e].err = "error"

\* The newest row will still deploy the target, or the node has it and the
\* executor is not about to replace it by anything else.
Deploys(n, k) ==
    \/ Awaited(n, k)
    \/ \A t \in TaskId : IsOf(t, n, k) => nextId <= t
    \/ \E t \in TaskId :
          /\ Newest(n, k, t) /\ status[t] # "completed"
          /\ \A e \in Executors : Running(e, t) => InTime(e, n, k)
    \/ /\ remote[n][k] = Target(n, k)
       /\ \A e \in Executors :
             exec[e].pc = "write" /\ IsOf(exec[e].id, n, k) => InTime(e, n, k)

DeployInv ==
    /\ QueueInv /\ RunsOwnRow /\ SavedLast /\ RowsOfRequests
    /\ OneExecutor => \A n \in Nodes, k \in DbTypes \cup SyncTypes :
                         OneChange(k) => Deploys(n, k)

-----------------------------------------------------------------------------
(* Files and the service that reads them *)

NoRetry == \A q \in Retries : retry[q].pc = "new"

\* The service never goes on with an old file unnoticed, whatever is cancelled
\* or crashes: when it has not read a file that a sync task wrote, the newest
\* restart of the node has not completed, or the list of tasks still shows a
\* sync task of the node as unfinished.  (Between the DELETE and the INSERT of
\* an enqueued restart the sync task is the only trace; a Retry that races
\* with the execution can remove it, so this is stated until one begins.)
RestartFollowsWrite ==
    NoRetry => \A n \in Nodes :
        \/ \A k \in SyncTypes : loaded[n][k] = remote[n][k]
        \/ \E t \in TaskId : Newest(n, Restart, t) /\ status[t] # "completed"
        \/ \E k \in SyncTypes : \E t \in Rows(n, k) : status[t] # "completed"

\* For the proof: a task whose work is done, with only the UPDATE missing, is
\* no trace any more, and a pending sync task never is the only one, as another
\* request may replace it.
Ends(t) ==
    \E e \in Executors :
        exec[e].id = t /\ exec[e].pc = "complete" /\ exec[e].err = "none"
RunsProcessing ==
    \A e \in Executors :
        exec[e].pc \in RunningPc => /\ status[exec[e].id] = "processing"
                                    /\ exec[e].ep = epoch[exec[e].id]
Traced(n) ==
    \/ \A k \in SyncTypes : loaded[n][k] = remote[n][k]
    \/ \E t \in TaskId :
          Newest(n, Restart, t) /\ status[t] # "completed" /\ ~Ends(t)
    \/ \E t \in TaskId : /\ info[t].node = n /\ info[t].type \in SyncTypes
                         /\ status[t] \in {"processing", "failed"} /\ ~Ends(t)

RestartInv ==
    /\ QueueInv /\ RunsOwnRow
    /\ NoRetry => RunsProcessing /\ \A n \in Nodes : Traced(n)

-----------------------------------------------------------------------------
\* A pending task is run to its end or replaced by a newer one of its type,
\* although the worker runs MaxPerPoll tasks at most of a node per poll and
\* agents may not answer.  It is left in 'processing', with nobody running it,
\* only when its own execution was cut short or its own completing UPDATE
\* failed: what befalls other tasks never holds it up.
EveryTaskEnds ==
    \A t \in TaskId :
        status[t] = "pending"
        ~> \/ status[t] \in {"completed", "failed", "deleted"}
           \/ /\ t \in faults.stranded
              /\ status[t] = "processing"
              /\ ~\E e \in Executors : Running(e, t)

\* Retry answers "the task is already being executed" for a row in
\* 'processing': such a row has an executor.
ProcessingMeansRunning ==
    \A t \in TaskId :
        status[t] = "processing" => \E e \in Executors : Running(e, t)

=============================================================================
