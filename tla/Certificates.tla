---------------------------- MODULE Certificates ----------------------------
(***************************************************************************)
(* The table Certificate with the requests that write it (issuing,         *)
(* importing, patching and revoking certificates, the server certificate   *)
(* of a node, the import of an index.txt) and the way of a revocation to   *)
(* the nodes: the revoked rows of a root CA become its CRL, which the      *)
(* worker, and POST /agent/sync beside it, write to every node that uses   *)
(* the root.                                                               *)
(*                                                                         *)
(* Every SQL statement whose answer is used by a later one is a step of    *)
(* its own; nothing but the unique index on serialNumber ties them         *)
(* together.  PanelTasks has the details of the queue: here the tasks      *)
(* crl_deploy of a node are a flag, the running ones and the last result.  *)
(***************************************************************************)
EXTENDS Naturals

CONSTANTS
    Requests,   \* requests, each is made once; also the ids of their rows
    Ops,        \* what a request may do
    CNs,        \* subject common names
    Roots,      \* root CAs
    Nodes,      \* agent nodes, all with crl-verify in their settings
    NoNode,     \* agentNodeId IS NULL
    NodeRoot,   \* panelRootCaId in the settings of every node
    Executors,  \* goroutines that run the tasks of nodes, one at a time each
    HttpSyncs   \* the executors that serve POST /agent/sync

ClientOps == {"create", "import", "patch", "revoke"}
ServerOps == {"issue", "importServer", "deleteServer"}
OtherOps == {"index", "retry"}

ASSUME CertificatesAssumption ==
    /\ Ops \subseteq ClientOps \cup ServerOps \cup OtherOps
    /\ Ops # {}
    /\ CNs # {} /\ Roots # {}
    /\ NoNode \notin Nodes
    /\ NodeRoot \in [Nodes -> Roots]
    /\ HttpSyncs \subseteq Executors

\* A serial number as it is stored: who brought it in, and its form.  "hex":
\* an even number of hex digits, "odd": an odd number (NormalizeSerialHex
\* strips leading zeros), "token": a ksuid, for want of a number.
Serial == Requests \X {"hex", "odd", "token"}
\* The serial in the certificate file that request r issues or uploads.
FileSerial(r) == {<<r, "hex">>, <<r, "odd">>}

\* user: vpnUserId is set.  No row: status "absent".
Row == [status: {"absent", "active", "revoked"}, cn: CNs, serial: Serial,
        root: Roots, node: Nodes \cup {NoNode}, user: BOOLEAN]

\* "reserial", "reactivate" and "reindex" are the UPDATEs of the imports.
Pc == {"new", "insert", "update", "bycn", "srvcheck", "reserial",
       "reactivate", "reindex", "revoke", "enqueue", "done"}

VARIABLES
    rows,     \* [Requests -> Row]
    req,      \* every request: where it is and what it has read or was sent
    pend,     \* nodes with a pending crl_deploy
    run,      \* executor -> the CRL it deploys; alone: no other one beside it
    last,     \* the status that the last crl_deploy of the node was left in
    ended,    \* nodes with a crl_deploy that ended
    beside,   \* history: the last crl_deploy of the node was not alone
    crl,      \* serials in the CRL file of the node
    online,   \* nodes whose agents answer
    made,     \* history: what the requests so far did
    overlap,  \* history: two requests were served at the same time
    lost      \* history: a client went away before its request was over

vars == <<rows, req, pend, run, last, ended, beside, crl, online, made,
          overlap, lost>>
deployVars == <<run, last, ended, beside, crl, online>>

\* id: the row a request has found, row: what it is going to write.
ReqState == [pc: Pc, id: Requests, row: Row, todo: SUBSET Nodes]

Deployment == [node: Nodes \cup {NoNode}, serials: SUBSET Serial,
               alone: BOOLEAN]

TypeOK ==
    /\ rows \in [Requests -> Row]
    /\ req \in [Requests -> ReqState]
    /\ pend \subseteq Nodes
    /\ run \in [Executors -> Deployment]
    /\ last \in [Nodes -> {"none", "completed", "failed", "processing"}]
    /\ ended \subseteq Nodes
    /\ beside \subseteq Nodes
    /\ crl \in [Nodes -> SUBSET Serial]
    /\ online \subseteq Nodes
    /\ made \subseteq Ops
    /\ overlap \in BOOLEAN
    /\ lost \in BOOLEAN

NoRow(i) == [status |-> "absent", cn |-> CHOOSE c \in CNs : TRUE,
             serial |-> <<i, "hex">>, root |-> CHOOSE a \in Roots : TRUE,
             node |-> NoNode, user |-> FALSE]

Idle == [node |-> NoNode, serials |-> {}, alone |-> TRUE]

Init ==
    /\ rows = [i \in Requests |-> NoRow(i)]
    /\ req = [r \in Requests |-> [pc |-> "new", id |-> r, row |-> NoRow(r),
                                  todo |-> {}]]
    /\ pend = {}
    /\ run = [e \in Executors |-> Idle]
    /\ last = [n \in Nodes |-> "none"]
    /\ ended = {}
    /\ beside = {}
    /\ crl = [n \in Nodes |-> {}]
    /\ online = Nodes
    /\ made = {}
    /\ overlap = FALSE
    /\ lost = FALSE

-----------------------------------------------------------------------------
(* Rows of the table, and the progress of a request *)

Exists(i) == rows[i].status # "absent"
Active(i) == rows[i].status = "active"

\* SELECT ... WHERE commonName AND agentNodeId AND revokedAt IS NULL
activeSameCN(cn, n, except) ==
    \E i \in Requests \ except :
        Active(i) /\ rows[i].cn = cn /\ rows[i].node = n

\* SELECT ... WHERE serialNumber, and its unique index
SerialTaken(s, except) ==
    \E i \in Requests \ except : Exists(i) /\ rows[i].serial = s

\* The server certificate of a node: a row of its root without a user.
ServerRow(i, n, root) ==
    Exists(i) /\ rows[i].node = n /\ rows[i].root = root /\ ~rows[i].user

\* The rows a request can send; a file may hold a certificate the panel has.
NewRow(cns, serials, nodes, users) ==
    [status: {"active"}, cn: cns, serial: serials, root: Roots, node: nodes,
     user: users]
PanelSerials == {rows[i].serial : i \in {j \in Requests : Exists(j)}}

Open == {r \in Requests : req[r].pc \notin {"new", "done"}}

\* Request r goes on at pc, with what it remembers.
GoOn(r, pc, id, row, todo) ==
    /\ req' = [req EXCEPT ![r] =
                 IF pc = "done"
                   THEN [pc |-> "done", id |-> r, row |-> NoRow(r),
                         todo |-> {}]
                   ELSE [pc |-> pc, id |-> id, row |-> row, todo |-> todo]]
    /\ overlap' = (overlap \/ Open \ {r} # {})
    /\ lost' = lost

End(r) == GoOn(r, "done", r, NoRow(r), {})

Begins(r, op) ==
    /\ req[r].pc = "new"
    /\ op \in Ops
    /\ made' = made \cup {op}

At(r, pc) == req[r].pc = pc /\ made' = made

-----------------------------------------------------------------------------
(* Create, Import, Patch, Revoke *)

\* activeSameCN answers 409, or the certificate is issued ...
CreateCheck(r, row) ==
    /\ Begins(r, "create")
    /\ IF activeSameCN(row.cn, row.node, {}) THEN End(r)
       ELSE GoOn(r, "insert", r, row, {})
    /\ UNCHANGED <<rows, pend, deployVars>>

ImportCheck(r, row) ==
    /\ Begins(r, "import")
    /\ IF activeSameCN(row.cn, row.node, {}) \/ SerialTaken(row.serial, {})
         THEN End(r)
         ELSE GoOn(r, "insert", r, row, {})
    /\ UNCHANGED <<rows, pend, deployVars>>

\* ... and inserted, unless the unique index refuses the serial.
Insert(r) ==
    /\ At(r, "insert")
    /\ rows' = IF SerialTaken(req[r].row.serial, {}) THEN rows
               ELSE [rows EXCEPT ![r] = req[r].row]
    /\ End(r)
    /\ UNCHANGED <<pend, deployVars>>

\* Mutant: the new node is not checked.
PatchCheckMissing(r, i, n) ==
    /\ Begins(r, "patch")
    /\ Exists(i)
    /\ GoOn(r, "update", i, [rows[i] EXCEPT !.node = n], {})
    /\ UNCHANGED <<rows, pend, deployVars>>

\* A patch of agentNodeId is checked, one of vpnUserId is not.
PatchCheck(r, i, n) ==
    /\ Begins(r, "patch")
    /\ Exists(i)
    /\ IF activeSameCN(rows[i].cn, n, {i}) THEN End(r)
       ELSE GoOn(r, "update", i, [rows[i] EXCEPT !.node = n], {})
    /\ UNCHANGED <<rows, pend, deployVars>>

\* The same UPDATE may set vpnUserId.
PatchUpdate(r) ==
    /\ At(r, "update")
    /\ IF Exists(req[r].id)
         THEN \E u \in BOOLEAN :
                 rows' = [rows EXCEPT ![req[r].id].node = req[r].row.node,
                                      ![req[r].id].user = u]
         ELSE rows' = rows
    /\ End(r)
    /\ UNCHANGED <<pend, deployVars>>

PatchUser(r, i) ==
    /\ Begins(r, "patch")
    /\ Exists(i)
    /\ rows' = [rows EXCEPT ![i].user = ~@]
    /\ End(r)
    /\ UNCHANGED <<pend, deployVars>>

\* Nodes whose settings name the root.
NodesOf(root) == {n \in Nodes : NodeRoot[n] = root}

RevokeRead(r, i) ==
    /\ Begins(r, "revoke")
    /\ Exists(i)
    /\ GoOn(r, "revoke", i, rows[i], {})
    /\ UNCHANGED <<rows, pend, deployVars>>

\* Mutant: the CRL goes to the node of the certificate.
RevokeUpdateOwnNode(r) ==
    /\ At(r, "revoke")
    /\ IF ~Exists(req[r].id) THEN UNCHANGED rows /\ End(r)
       ELSE /\ rows' = [rows EXCEPT ![req[r].id].status = "revoked"]
            /\ GoOn(r, "enqueue", req[r].id, req[r].row, {req[r].row.node})
    /\ UNCHANGED <<pend, deployVars>>

\* Mutant: nothing is enqueued.
RevokeUpdateSilent(r) ==
    /\ At(r, "revoke")
    /\ IF ~Exists(req[r].id) THEN UNCHANGED rows /\ End(r)
       ELSE /\ rows' = [rows EXCEPT ![req[r].id].status = "revoked"]
            /\ End(r)
    /\ UNCHANGED <<pend, deployVars>>

\* Whatever the status was, the row is revoked and the CRL of the root it had
\* when it was read is enqueued; 404 if it is gone.
RevokeUpdate(r) ==
    LET i == req[r].id
        nodes == NodesOf(req[r].row.root)
    IN  /\ At(r, "revoke")
        /\ IF ~Exists(i) THEN UNCHANGED rows /\ End(r)
           ELSE /\ rows' = [rows EXCEPT ![i].status = "revoked"]
                /\ IF nodes = {} THEN End(r)
                   ELSE GoOn(r, "enqueue", i, req[r].row, nodes)
        /\ UNCHANGED <<pend, deployVars>>

\* EnqueueCrlDeployForRootCa, one node of its loop.
Enqueue(r, n) ==
    /\ At(r, "enqueue")
    /\ n \in req[r].todo
    /\ pend' = pend \cup {n}
    /\ IF req[r].todo = {n} THEN End(r)
       ELSE GoOn(r, "enqueue", req[r].id, req[r].row, req[r].todo \ {n})
    /\ UNCHANGED <<rows, deployVars>>

-----------------------------------------------------------------------------
(* The server certificate of a node *)

\* One active server certificate per node and root, also for an import.
ServerCheck(r, row) ==
    /\ IF \E i \in Requests : Active(i) /\ ServerRow(i, row.node, row.root)
         THEN End(r)
         ELSE GoOn(r, "insert", r, row, {})
    /\ UNCHANGED <<rows, pend, deployVars>>

IssueCheck(r, row) == Begins(r, "issue") /\ ServerCheck(r, row)
ImportServerCheck(r) == At(r, "srvcheck") /\ ServerCheck(r, req[r].row)

\* tryImportBySerial: a known certificate is refused (its PEM or node
\* differs, or it is a user's) or made active again.
BySerial(r, row) ==
    /\ Begins(r, "importServer")
    /\ \/ /\ ~SerialTaken(row.serial, {})
          /\ GoOn(r, "bycn", r, row, {})
       \/ /\ SerialTaken(row.serial, {})
          /\ End(r)
       \/ \E i \in Requests :
             /\ Exists(i) /\ rows[i].serial = row.serial
             /\ rows[i].node = row.node /\ ~rows[i].user
             /\ GoOn(r, "reactivate", i, row, {})
    /\ UNCHANGED <<rows, pend, deployVars>>

Reactivate(r) ==
    /\ At(r, "reactivate")
    /\ rows' = IF Exists(req[r].id)
                 THEN [rows EXCEPT ![req[r].id].status = "active",
                                   ![req[r].id].cn = req[r].row.cn,
                                   ![req[r].id].root = req[r].row.root]
                 ELSE rows
    /\ End(r)
    /\ UNCHANGED <<pend, deployVars>>

\* tryImportByCN: an active certificate is kept unless it is the same file, a
\* revoked one is replaced, one without its file (certPem NULL, from an index)
\* is an error; QueryRow takes any of several rows.
ByCN(r) ==
    LET row == req[r].row
        found == {i \in Requests : /\ Exists(i) /\ rows[i].cn = row.cn
                                   /\ rows[i].node = row.node
                                   /\ ~rows[i].user}
    IN  /\ At(r, "bycn")
        /\ \/ found = {} /\ GoOn(r, "srvcheck", r, row, {})
           \/ found # {} /\ End(r)
           \/ \E i \in found : GoOn(r, "reserial", i, row, {})
        /\ UNCHANGED <<rows, pend, deployVars>>

Reserial(r) ==
    LET i == req[r].id
        row == req[r].row
    IN  /\ At(r, "reserial")
        /\ rows' = IF Exists(i) /\ ~SerialTaken(row.serial, {i})
                     THEN [rows EXCEPT ![i].serial = row.serial,
                                       ![i].status = "active",
                                       ![i].root = row.root,
                                       ![i].user = FALSE]
                     ELSE rows
        /\ End(r)
        /\ UNCHANGED <<pend, deployVars>>

\* The rows go in a transaction, whatever their status; then the tasks of the
\* node are enqueued, crl_deploy among them.
DeleteServer(r, n) ==
    /\ Begins(r, "deleteServer")
    /\ rows' = [i \in Requests |-> IF ServerRow(i, n, NodeRoot[n])
                                     THEN NoRow(i) ELSE rows[i]]
    /\ GoOn(r, "enqueue", r, NoRow(r), {n})
    /\ UNCHANGED <<pend, deployVars>>

-----------------------------------------------------------------------------
(* RootCAImportIndex: a line of the index; nothing is enqueued *)

\* findCertByCNAndNode takes any of several rows (LIMIT 1); a row of another
\* root is skipped.
IndexFind(r, row) ==
    LET found == {i \in Requests : /\ Exists(i) /\ rows[i].cn = row.cn
                                   /\ rows[i].node = row.node}
    IN  /\ Begins(r, "index")
        /\ \/ found = {} /\ GoOn(r, "insert", r, row, {})
           \/ \E i \in found :
                 IF \/ rows[i].root # row.root
                    \/ Active(i) /\ rows[i].serial = row.serial
                   THEN End(r)
                   ELSE GoOn(r, "reindex", i,
                             [row EXCEPT !.status = rows[i].status], {})
        /\ UNCHANGED <<rows, pend, deployVars>>

\* revokedAt is set to NULL if it was not NULL when the row was read.
Reindex(r) ==
    LET i == req[r].id
        row == req[r].row
    IN  /\ At(r, "reindex")
        /\ rows' = IF Exists(i) /\ ~SerialTaken(row.serial, {i})
                     THEN [rows EXCEPT ![i].serial = row.serial,
                                       ![i].status =
                                          IF row.status = "revoked"
                                            THEN "active" ELSE @]
                     ELSE rows
        /\ End(r)
        /\ UNCHANGED <<pend, deployVars>>

-----------------------------------------------------------------------------
(* Executors: execCrlDeploy, and a retry of its task *)

\* The revoked certificates of a root.
RevokedRows(root) == {i \in Requests : /\ rows[i].status = "revoked"
                                       /\ rows[i].root = root}

\* openssl ca -gencrl refuses an index with a serial that is not an even
\* number of hex digits.
GeneratePEM(serials) == \A s \in serials : s[2] = "hex"

\* The executors that deploy to node n now.
RunsAt(n) == {e \in Executors : run[e].node = n}

\* The agent answers the poll, the task is claimed and the rows are read,
\* whatever another executor does at the node.
DeployRead(e, n) ==
    /\ n \in pend
    /\ n \in online
    /\ run[e].node = NoNode
    /\ pend' = pend \ {n}
    /\ run' = [f \in Executors |->
                 IF f = e
                   THEN [node |-> n, alone |-> RunsAt(n) = {},
                         serials |-> {rows[i].serial :
                                        i \in RevokedRows(NodeRoot[n])}]
                   ELSE [run[f] EXCEPT !.alone = @ /\ run[f].node # n]]
    /\ UNCHANGED <<rows, req, last, ended, beside, crl, online, made, overlap,
                   lost>>

\* The task that executor e runs is left in this status.
Leaves(e, status) ==
    LET n == run[e].node
    IN  /\ last' = [last EXCEPT ![n] = status]
        /\ ended' = IF status = "processing" THEN ended ELSE ended \cup {n}
        /\ beside' = IF run[e].alone THEN beside \ {n} ELSE beside \cup {n}
        /\ run' = [run EXCEPT ![e] = Idle]
        /\ UNCHANGED <<rows, req, online, made, overlap, lost>>

\* The agent writes the file.
Written(e) ==
    /\ GeneratePEM(run[e].serials)
    /\ crl' = [crl EXCEPT ![run[e].node] = run[e].serials]

\* Mutant: a task that ends takes the pending one with it.
DeployWriteAll(e) ==
    /\ run[e].node # NoNode
    /\ Written(e)
    /\ Leaves(e, "completed")
    /\ pend' = pend \ {run[e].node}

DeployWrite(e) ==
    /\ run[e].node # NoNode
    /\ Written(e)
    /\ Leaves(e, "completed")
    /\ pend' = pend

\* There is no CRL to write, or the call to the agent fails, before or after
\* the file was written.
DeployFails(e) ==
    /\ run[e].node # NoNode
    /\ crl' = crl \/ Written(e)
    /\ Leaves(e, "failed")
    /\ pend' = pend

\* The process stops, the client of POST /agent/sync goes away or the UPDATE
\* of completeTask fails: the row stays in 'processing'.
DeployStranded(e) ==
    /\ run[e].node # NoNode
    /\ crl' = crl \/ Written(e)
    /\ Leaves(e, "processing")
    /\ pend' = pend

\* A task that ended is made pending again; one in 'processing' is refused.
Retry(r, n) ==
    /\ Begins(r, "retry")
    /\ n \in ended
    /\ pend' = pend \cup {n}
    /\ End(r)
    /\ UNCHANGED <<rows, deployVars>>

\* An agent stops or starts to answer.  (Looked at while a task waits for it.)
AgentTurns(n) ==
    /\ n \in pend
    /\ online' = IF n \in online THEN online \ {n} ELSE online \cup {n}
    /\ UNCHANGED <<rows, req, pend, run, last, ended, beside, crl, made,
                   overlap, lost>>

\* The client goes away: the statements that are left fail.
ClientGone(r) ==
    /\ r \in Open
    /\ req' = [req EXCEPT ![r] = [pc |-> "done", id |-> r, row |-> NoRow(r),
                                  todo |-> {}]]
    /\ lost' = TRUE
    /\ UNCHANGED <<rows, pend, deployVars, made, overlap>>

-----------------------------------------------------------------------------
Start(r) ==
    \/ \E row \in NewRow(CNs, FileSerial(r), Nodes \cup {NoNode}, BOOLEAN) :
          CreateCheck(r, row)
    \/ \E row \in NewRow(CNs, FileSerial(r) \cup PanelSerials, Nodes,
                         BOOLEAN) :
          ImportCheck(r, row)
    \/ \E i \in Requests :
          \/ \E n \in Nodes \cup {NoNode} : PatchCheck(r, i, n)
          \/ PatchUser(r, i)
          \/ RevokeRead(r, i)
    \/ \E row \in NewRow(CNs, FileSerial(r), Nodes, {FALSE}) :
          IssueCheck(r, row)
    \/ \E row \in NewRow(CNs, FileSerial(r) \cup PanelSerials, Nodes,
                         {FALSE}) :
          BySerial(r, row)
    \/ \E n \in Nodes : DeleteServer(r, n) \/ Retry(r, n)
    \/ \E row \in NewRow(CNs, FileSerial(r) \cup {<<r, "token">>}
                                \cup PanelSerials,
                         Nodes \cup {NoNode}, {FALSE}) :
          IndexFind(r, row)

Continue(r) ==
    \/ Insert(r)
    \/ PatchUpdate(r)
    \/ RevokeUpdate(r)
    \/ \E n \in Nodes : Enqueue(r, n)
    \/ ImportServerCheck(r)
    \/ Reactivate(r)
    \/ ByCN(r)
    \/ Reserial(r)
    \/ Reindex(r)

DeployEnds(e) == DeployWrite(e) \/ DeployFails(e) \/ DeployStranded(e)

Next ==
    \/ \E r \in Requests : Start(r) \/ Continue(r) \/ ClientGone(r)
    \/ \E e \in Executors : DeployEnds(e) \/ \E n \in Nodes : DeployRead(e, n)
    \/ \E n \in Nodes : AgentTurns(n)

Spec == Init /\ [][Next]_vars

\* Goroutines that serve requests or run a task go on, and the worker polls
\* every node at every tick: it meets an agent that answers again and again.
Fairness ==
    /\ \A r \in Requests : WF_vars(Continue(r))
    /\ \A e \in Executors : WF_vars(DeployEnds(e))
    /\ \A e \in Executors \ HttpSyncs, n \in Nodes : SF_vars(DeployRead(e, n))

FairSpec == Spec /\ Fairness

-----------------------------------------------------------------------------
(* Properties *)

\* The imports write what they have read before: served together with other
\* requests an index import may give a revoked row a serial that no CRL lists,
\* and the import of a server certificate may move a row to another root after
\* a revocation has read whose nodes get the CRL.
OneRoot == \A a, b \in Roots : a = b
ImportsAlone ==
    overlap => "index" \notin made /\ ("importServer" \in made => OneRoot)

\* The serials of a node's root that must be refused by the node.
MustRefuse(n) == {rows[i].serial : i \in RevokedRows(NodeRoot[n])}

DeployIdle(n) == n \notin pend /\ RunsAt(n) = {}

\* Once no request is under way, none was cut short, and the last crl_deploy
\* of a node has completed, its CRL lists every revoked certificate of its
\* root: no revocation slips between the query, the file and the status of a
\* deployment, however revocations, imports, deletions and retries interleave.
\* The worker and POST /agent/sync may have deployed to the node at the same
\* time, in any order, before that last one (of two at the same time the one
\* with the older rows may write last: beside).
RevokedListed ==
    Open = {} /\ ~lost /\ ImportsAlone =>
        \A n \in Nodes \ beside : DeployIdle(n) /\ last[n] = "completed"
                                    => MustRefuse(n) \subseteq crl[n]

\* As long as only client certificates are created, imported, patched and
\* revoked, one request after the other, a node has one active certificate per
\* common name: what the 409 of Create, Import and Patch is for.
OneActivePerCN ==
    ~overlap /\ made \subseteq ClientOps
    => \A i, j \in Requests :
          Active(i) /\ Active(j) /\ rows[i].cn = rows[j].cn
          /\ rows[i].node = rows[j].node => i = j

-----------------------------------------------------------------------------
(* The inductive invariant of the two *)

\* Without overlap there is one request at a time.
Solo == ~overlap => \A r, q \in Open : r = q

\* What the progress of a request says about the past.
Progress(r) ==
    /\ req[r].pc = "reindex" => "index" \in made
    /\ req[r].pc \in {"bycn", "srvcheck", "reactivate", "reserial"}
         => "importServer" \in made
    /\ req[r].pc \in {"insert", "bycn", "srvcheck"}
         => req[r].row.status = "active"
    /\ req[r].pc \in {"update", "revoke", "reactivate", "reserial", "reindex"}
         => req[req[r].id].pc = "done"
    /\ Exists(r) => req[r].pc = "done"

\* What a request has read and relies on is still so: the root of a row that
\* is to be revoked, the status of one an index names, the answer of
\* activeSameCN.
RootIsCurrent(r) ==
    ImportsAlone /\ req[r].pc = "revoke" /\ Exists(req[r].id)
    => req[r].row.root = rows[req[r].id].root
StatusIsCurrent(r) ==
    ~overlap /\ req[r].pc = "reindex"
    => req[r].row.status = rows[req[r].id].status
CheckIsCurrent(r) ==
    ~overlap /\ made \subseteq ClientOps
    => /\ req[r].pc = "insert"
            => ~activeSameCN(req[r].row.cn, req[r].row.node, {})
       /\ req[r].pc = "update"
            => ~activeSameCN(rows[req[r].id].cn, req[r].row.node, {req[r].id})

\* The revocation of row i is on its way to node n, there, or shown as failed.
Covered(n, i) ==
    \/ n \in pend
    \/ \E r \in Requests : req[r].pc = "enqueue" /\ n \in req[r].todo
    \/ \E e \in RunsAt(n) : run[e].alone => rows[i].serial \in run[e].serials
    \/ /\ RunsAt(n) = {}
       /\ \/ n \in beside \/ last[n] # "completed"
          \/ rows[i].serial \in crl[n]

\* Two deployments to one node both know that they are not alone.
AloneIsAlone ==
    \A e, f \in Executors :
        run[e].node # NoNode /\ run[e].node = run[f].node /\ run[e].alone
        => e = f

EveryRevokedCovered ==
    ~lost /\ ImportsAlone =>
        \A n \in Nodes : \A i \in RevokedRows(NodeRoot[n]) : Covered(n, i)

\* Types; one request at a time as long as none overlapped; what a request
\* relies on still holds when it writes; and every revocation is pending, being
\* deployed, deployed or shown as failed at every node of its root, unless two
\* deployments ran there at the same time.  (Revoke, certificates.go:585-633;
\* execCrlDeploy, executor.go.)
CertInv ==
    /\ TypeOK
    /\ Solo
    /\ \A r \in Requests : /\ Progress(r)
                            /\ RootIsCurrent(r)
                            /\ StatusIsCurrent(r)
                            /\ CheckIsCurrent(r)
    /\ AloneIsAlone
    /\ EveryRevokedCovered
    /\ OneActivePerCN

-----------------------------------------------------------------------------
\* In the end every revocation has reached the nodes that use its root, or the
\* task is still pending for an agent that does not answer, or the last
\* crl_deploy of the node is shown as failed, was left in 'processing' or ran
\* beside another one.
RevocationReaches ==
    <>[](~lost /\ ImportsAlone =>
           \A n \in Nodes :
              \/ MustRefuse(n) \subseteq crl[n]
              \/ n \in pend \ online
              \/ /\ DeployIdle(n)
                 /\ last[n] \in {"failed", "processing"} \/ n \in beside)

\* The export of a CRL reports a failure as a root certificate that does not
\* match its key, and the documentation says that a revoked certificate cannot
\* be used: the CRL of the revoked certificates can be made.
CrlBuilds == \A n \in Nodes : GeneratePEM(MustRefuse(n))
=============================================================================
