------------------------- MODULE CertificatesProofs -------------------------
(***************************************************************************)
(* Theorems about Certificates, for any requests, names, roots and nodes:  *)
(* revocations reach the CRL of every node of their root, and the check    *)
(* for a common name in use keeps client certificates apart.               *)
(***************************************************************************)
EXTENDS Certificates, TLAPS

\* A row and a request as they are made.
LEMMA NoRowType == ASSUME NEW i \in Requests
                   PROVE  NoRow(i) \in Row /\ NoRow(i).status = "absent"
  <1>1. (CHOOSE c \in CNs : TRUE) \in CNs /\ (CHOOSE a \in Roots : TRUE) \in Roots
    BY CertificatesAssumption
  <1>2. <<i, "hex">> \in Serial
    BY DEF Serial
  <1>3. QED
    BY <1>1, <1>2 DEF NoRow, Row

-----------------------------------------------------------------------------
(* A step of one request *)

\* Request r goes to a state of its own; the others stay; r has not ended
\* before; and if there is no overlap then r is alone.
Moves(r) ==
  /\ req' \in [Requests -> ReqState]
  /\ req[r].pc # "done"
  /\ \A q \in Requests : q # r => req'[q] = req[q]
  /\ overlap' \in BOOLEAN
  /\ ~overlap' => ~overlap /\ \A q \in Requests : q # r => req[q].pc \in {"new", "done"}

LEMMA GoOnMoves ==
  ASSUME TypeOK, NEW r \in Requests, NEW pc \in Pc, NEW id \in Requests, NEW row \in Row,
         NEW todo \in SUBSET Nodes, GoOn(r, pc, id, row, todo), req[r].pc # "done"
  PROVE  /\ Moves(r)
         /\ lost' = lost
         /\ req'[r].pc = pc
         /\ pc # "done" => req'[r].id = id /\ req'[r].row = row /\ req'[r].todo = todo
  <1> DEFINE st == IF pc = "done" THEN [pc |-> "done", id |-> r, row |-> NoRow(r), todo |-> {}]
                   ELSE [pc |-> pc, id |-> id, row |-> row, todo |-> todo]
  <1>1. st \in ReqState
    <2>1. CASE pc = "done"
      BY <2>1, NoRowType DEF ReqState, Pc
    <2>2. CASE pc # "done"
      BY <2>2 DEF ReqState
    <2>3. QED
      BY <2>1, <2>2
  <1>2. req' = [req EXCEPT ![r] = st] /\ lost' = lost
    BY DEF GoOn
  <1>3. req'[r] = st /\ req' \in [Requests -> ReqState]
        /\ \A q \in Requests : q # r => req'[q] = req[q]
    BY <1>1, <1>2 DEF TypeOK
  <1>4. overlap' \in BOOLEAN
    BY DEF GoOn
  <1>5. ~overlap' => ~overlap /\ Open \ {r} = {}
    BY DEF GoOn
  <1>6. Open \ {r} = {} => \A q \in Requests : q # r => req[q].pc \in {"new", "done"}
    BY DEF Open
  <1>7. st.pc = pc /\ (pc # "done" => st.id = id /\ st.row = row /\ st.todo = todo)
    OBVIOUS
  <1>8. QED
    BY <1>2, <1>3, <1>4, <1>5, <1>6, <1>7 DEF Moves

LEMMA EndMoves ==
  ASSUME TypeOK, NEW r \in Requests, End(r), req[r].pc # "done"
  PROVE  Moves(r) /\ lost' = lost /\ req'[r].pc = "done"
  BY GoOnMoves, NoRowType DEF End, Pc

\* What is at most once so stays so.
LEMMA ImportsAloneMonotone ==
  ASSUME NEW r \in Requests, Moves(r), made \subseteq made', ImportsAlone'
  PROVE  ImportsAlone
  BY DEF Moves, ImportsAlone

\* The parts of the invariant that are about a single request.
Own(r) == Progress(r) /\ RootIsCurrent(r) /\ StatusIsCurrent(r) /\ CheckIsCurrent(r)

\* The row i was revoked before, with the same serial and root, or request r is
\* going to enqueue the CRL for the nodes of its root.
RevokedBefore(r, i) ==
  \/ /\ rows[i].status = "revoked"
     /\ rows[i]'.root = rows[i].root
     /\ rows[i]'.serial = rows[i].serial
  \/ \A n \in NodesOf(rows[i]'.root) : req[r]'.pc = "enqueue" /\ n \in req[r]'.todo

\* A step of request r keeps the invariant if it keeps what other requests
\* rely on, and its own part holds after it.
LEMMA RequestStep ==
  ASSUME CertInv, NEW r \in Requests, Moves(r), lost' \in BOOLEAN, lost => lost',
         made \subseteq made', made' \subseteq Ops,
         rows' \in [Requests -> Row], pend' \subseteq Nodes, pend \subseteq pend',
         UNCHANGED deployVars,
         \A i \in Requests : i # r /\ Exists(i)' =>
             Exists(i) /\ (rows'[i].root = rows[i].root \/ "importServer" \in made'),
         req'[r].pc # "done" => Own(r)',
         ImportsAlone' => \A i \in Requests : rows'[i].status = "revoked" => RevokedBefore(r, i),
         ~lost' /\ req[r].pc = "enqueue" => \A n \in req[r].todo :
             n \in pend' \/ (req'[r].pc = "enqueue" /\ n \in req'[r].todo),
         OneActivePerCN'
  PROVE  CertInv'
  <1>1. TypeOK /\ TypeOK'
    BY DEF CertInv, TypeOK, Moves, deployVars
  <1>0. AloneIsAlone'
    BY DEF CertInv, AloneIsAlone, deployVars
  <1>2. Solo'
    BY DEF Solo, Open, Moves
  <1>3. req'[r].pc = "done" => Own(r)'
    BY DEF Own, Progress, RootIsCurrent, StatusIsCurrent, CheckIsCurrent
  <1>4. ASSUME NEW q \in Requests, q # r PROVE Own(q)'
    <2>1. Own(q)
      BY DEF CertInv, Own
    <2>2. req'[q] = req[q] /\ \A p \in Requests : req[p].pc = "done" => req'[p].pc = "done"
      BY <1>4 DEF Moves
    <2>3. req[q].id \in Requests
      BY <1>1 DEF TypeOK, ReqState
    <2>4. Progress(q)'
      BY <2>1, <2>2, <2>3, <1>4 DEF Own, Progress
    <2>5. ~overlap' => req'[q].pc \in {"new", "done"}
      BY <1>4, <2>2 DEF Moves
    <2>6. StatusIsCurrent(q)' /\ CheckIsCurrent(q)'
      BY <2>5 DEF StatusIsCurrent, CheckIsCurrent
    <2>7. RootIsCurrent(q)'
      <3> SUFFICES ASSUME ImportsAlone', req'[q].pc = "revoke",
                          rows'[req[q].id].status # "absent"
                   PROVE  req'[q].row.root = rows'[req[q].id].root
        BY <2>2 DEF RootIsCurrent, Exists
      <3>1. req[q].id # r
        BY <2>1, <2>2 DEF Own, Progress, Moves
      <3>2. overlap'
        BY <2>5
      <3>3. Exists(req[q].id) /\ ImportsAlone
        BY <2>3, <3>1, ImportsAloneMonotone DEF Exists
      <3>4. req[q].row.root = rows[req[q].id].root
        BY <2>1, <2>2, <3>3 DEF Own, RootIsCurrent
      <3>5. CASE rows'[req[q].id].root = rows[req[q].id].root
        BY <2>2, <3>4, <3>5
      <3>6. CASE "importServer" \in made'
        <4>1. OneRoot
          BY <3>2, <3>6 DEF ImportsAlone, OneRoot
        <4>2. req[q].row.root \in Roots /\ rows'[req[q].id].root \in Roots
          BY <1>1, <2>3 DEF TypeOK, ReqState, Row
        <4>3. QED
          BY <2>2, <4>1, <4>2 DEF OneRoot
      <3>7. QED
        BY <2>3, <3>1, <3>5, <3>6 DEF Exists
    <2>8. QED
      BY <2>4, <2>6, <2>7 DEF Own
  <1>5. EveryRevokedCovered'
    <2> SUFFICES ASSUME ~lost', ImportsAlone', NEW n \in Nodes, NEW i \in Requests,
                        rows'[i].status = "revoked", rows'[i].root = NodeRoot[n]
                 PROVE  Covered(n, i)'
      BY DEF EveryRevokedCovered, RevokedRows
    <2>1. CASE /\ rows[i].status = "revoked"
               /\ rows[i]'.root = rows[i].root
               /\ rows[i]'.serial = rows[i].serial
      <3>1. Covered(n, i)
        BY <2>1, ImportsAloneMonotone DEF CertInv, EveryRevokedCovered, RevokedRows
      <3>2. ASSUME NEW q \in Requests, req[q].pc = "enqueue", n \in req[q].todo
            PROVE  Covered(n, i)'
        BY <3>2 DEF Covered, Moves
      <3>3. QED
        BY <2>1, <3>1, <3>2 DEF Covered, RunsAt, deployVars
    <2>2. CASE \A m \in NodesOf(rows[i]'.root) : req[r]'.pc = "enqueue" /\ m \in req[r]'.todo
      <3>1. n \in NodesOf(rows[i]'.root)
        BY DEF NodesOf
      <3>2. QED
        BY <2>2, <3>1 DEF Covered
    <2>3. QED
      BY <2>1, <2>2 DEF RevokedBefore
  <1>6. QED
    BY <1>0, <1>1, <1>2, <1>3, <1>4, <1>5 DEF CertInv, Own

\* A step of request r that only reads the tables.
LEMMA ReadStep ==
  ASSUME CertInv, NEW r \in Requests, Moves(r), req[r].pc # "enqueue", lost' = lost,
         made \subseteq made', made' \subseteq Ops, UNCHANGED <<rows, pend, deployVars>>,
         req'[r].pc # "done" => Own(r)'
  PROVE  CertInv'
  <1>1. OneActivePerCN'
    BY DEF CertInv, OneActivePerCN, Moves, Active
  <1>2. \A i \in Requests : Exists(i)' => Exists(i)
    BY DEF Exists
  <1>3. \A i \in Requests : rows'[i].status = "revoked" => RevokedBefore(r, i)
    BY DEF RevokedBefore
  <1>4. TypeOK
    BY DEF CertInv
  <1>5. QED
    BY <1>1, <1>2, <1>3, <1>4, RequestStep DEF TypeOK

-----------------------------------------------------------------------------
(* The actions *)

\* What a request that begins has read so far.
LEMMA BeginsFacts ==
  ASSUME CertInv, NEW r \in Requests, NEW op, Begins(r, op)
  PROVE  /\ req[r].pc = "new"
         /\ ~Exists(r)
         /\ made \subseteq made' /\ made' \subseteq Ops /\ op \in made'
  BY DEF Begins, CertInv, Progress, TypeOK

LEMMA AtFacts ==
  ASSUME CertInv, NEW r \in Requests, NEW pc, At(r, pc), pc # "done"
  PROVE  /\ req[r].pc = pc
         /\ ~Exists(r)
         /\ made \subseteq made' /\ made' \subseteq Ops
         /\ req[r].id \in Requests /\ req[r].row \in Row
  BY DEF At, CertInv, Progress, TypeOK, ReqState

\* A request that goes on to the INSERT of an active row it has checked.
LEMMA ToInsert ==
  ASSUME CertInv, NEW r \in Requests, NEW row \in Row, row.status = "active",
         req[r].pc \notin {"done", "enqueue"},
         GoOn(r, "insert", r, row, {}), UNCHANGED <<rows, pend, deployVars>>,
         made \subseteq made', made' \subseteq Ops,
         made' \subseteq ClientOps => ~activeSameCN(row.cn, row.node, {})
  PROVE  CertInv'
  <1>1. TypeOK /\ Progress(r)
    BY DEF CertInv
  <1>2. Moves(r) /\ lost' = lost /\ req'[r].pc = "insert" /\ req'[r].row = row
    BY <1>1, GoOnMoves DEF Pc
  <1>3. Progress(r)'
    BY <1>1, <1>2 DEF Progress, Exists
  <1>4. RootIsCurrent(r)' /\ StatusIsCurrent(r)'
    BY <1>2 DEF RootIsCurrent, StatusIsCurrent
  <1>5. CheckIsCurrent(r)'
    BY <1>2 DEF CheckIsCurrent, activeSameCN, Active
  <1>6. QED
    BY <1>2, <1>3, <1>4, <1>5, ReadStep DEF Own

\* A request that stops after a look at the tables.
LEMMA ToEnd ==
  ASSUME CertInv, NEW r \in Requests, End(r), req[r].pc \notin {"done", "enqueue"},
         UNCHANGED <<rows, pend, deployVars>>, made \subseteq made', made' \subseteq Ops
  PROVE  CertInv'
  BY EndMoves, ReadStep DEF CertInv

\* The rows that requests send.
LEMMA NewRowType ==
  ASSUME TypeOK, NEW r \in Requests, NEW ns \in SUBSET (Nodes \cup {NoNode}),
         NEW us \in SUBSET BOOLEAN,
         NEW row \in NewRow(CNs, FileSerial(r) \cup {<<r, "token">>} \cup PanelSerials, ns, us)
  PROVE  row \in Row /\ row.status = "active"
  <1>1. FileSerial(r) \cup {<<r, "token">>} \subseteq Serial
    BY DEF FileSerial, Serial
  <1>2. PanelSerials \subseteq Serial
    BY DEF PanelSerials, TypeOK, Row
  <1>3. row.serial \in Serial
    BY <1>1, <1>2 DEF NewRow
  <1>4. QED
    BY <1>3 DEF NewRow, Row

LEMMA CreateInv ==
  ASSUME CertInv, NEW r \in Requests, NEW row \in Row, row.status = "active",
         CreateCheck(r, row)
  PROVE  CertInv'
  <1>1. req[r].pc = "new" /\ made \subseteq made' /\ made' \subseteq Ops
    BY BeginsFacts DEF CreateCheck
  <1>2. QED
    BY <1>1, ToInsert, ToEnd DEF CreateCheck

LEMMA ImportInv ==
  ASSUME CertInv, NEW r \in Requests, NEW row \in Row, row.status = "active",
         ImportCheck(r, row)
  PROVE  CertInv'
  <1>1. req[r].pc = "new" /\ made \subseteq made' /\ made' \subseteq Ops
    BY BeginsFacts DEF ImportCheck
  <1>2. QED
    BY <1>1, ToInsert, ToEnd DEF ImportCheck

LEMMA InsertInv ==
  ASSUME CertInv, NEW r \in Requests, Insert(r)
  PROVE  CertInv'
  <1>1. TypeOK /\ Own(r) /\ OneActivePerCN
    BY DEF CertInv, Own
  <1>2. /\ req[r].pc = "insert" /\ ~Exists(r) /\ made' = made /\ made' \subseteq Ops
        /\ req[r].row \in Row /\ req[r].row.status = "active"
    BY <1>1, AtFacts DEF Insert, At, Own, Progress
  <1>3. Moves(r) /\ lost' = lost /\ req'[r].pc = "done"
    BY <1>1, <1>2, EndMoves DEF Insert
  <1>4. CASE rows' = rows
    BY <1>1, <1>2, <1>3, <1>4, ReadStep DEF Insert
  <1>5. CASE rows' = [rows EXCEPT ![r] = req[r].row]
    <2>1. /\ rows' \in [Requests -> Row]
          /\ rows'[r] = req[r].row
          /\ \A i \in Requests : i # r => rows'[i] = rows[i]
      BY <1>1, <1>2, <1>5 DEF TypeOK
    <2>2. \A i \in Requests : i # r /\ Exists(i)' => Exists(i) /\ rows'[i].root = rows[i].root
      BY <2>1 DEF Exists
    <2>3. \A i \in Requests : rows'[i].status = "revoked" => RevokedBefore(r, i)
      BY <1>2, <2>1 DEF RevokedBefore
    <2>4. OneActivePerCN'
      <3> SUFFICES ASSUME ~overlap', made' \subseteq ClientOps,
                          NEW i \in Requests, NEW j \in Requests,
                          Active(i)', Active(j)', rows'[i].cn = rows'[j].cn,
                          rows'[i].node = rows'[j].node, i # j
                   PROVE  FALSE
        BY DEF OneActivePerCN
      <3>1. ~overlap /\ made \subseteq ClientOps
        BY <1>2, <1>3 DEF Moves
      <3>2. ~activeSameCN(req[r].row.cn, req[r].row.node, {})
        BY <1>1, <1>2, <3>1 DEF Own, CheckIsCurrent
      <3>3. CASE i # r /\ j # r
        BY <1>1, <2>1, <3>1, <3>3 DEF OneActivePerCN, Active
      <3>4. CASE i = r
        BY <2>1, <3>2, <3>4 DEF activeSameCN, Active
      <3>5. CASE j = r
        BY <2>1, <3>2, <3>5 DEF activeSameCN, Active
      <3>6. QED
        BY <3>3, <3>4, <3>5
    <2>5. QED
      BY <1>1, <1>2, <1>3, <2>1, <2>2, <2>3, <2>4, RequestStep DEF Insert, TypeOK
  <1>6. QED
    BY <1>4, <1>5 DEF Insert

\* A request that goes on to the UPDATE of a row it has found.
LEMMA ToUpdate ==
  ASSUME CertInv, NEW r \in Requests, NEW i \in Requests, NEW row \in Row, Exists(i),
         NEW pc \in {"update", "revoke", "reactivate", "reserial", "reindex"},
         req[r].pc \notin {"done", "enqueue"},
         GoOn(r, pc, i, row, {}), UNCHANGED <<rows, pend, deployVars>>,
         made \subseteq made', made' \subseteq Ops,
         pc = "reindex" => "index" \in made' /\ row.status = rows[i].status,
         pc \in {"reactivate", "reserial"} => "importServer" \in made',
         pc = "revoke" => row.root = rows[i].root,
         pc = "update" => ~activeSameCN(rows[i].cn, row.node, {i})
  PROVE  CertInv'
  <1>1. TypeOK /\ Progress(r) /\ Progress(i)
    BY DEF CertInv
  <1>2. pc \in Pc /\ pc # "done"
    BY DEF Pc
  <1>3. Moves(r) /\ lost' = lost /\ req'[r].pc = pc /\ req'[r].row = row /\ req'[r].id = i
    BY <1>1, <1>2, GoOnMoves
  <1>4. req[i].pc = "done" /\ i # r /\ req'[i].pc = "done"
    BY <1>1, <1>3 DEF Progress, Moves
  <1>5. Progress(r)'
    BY <1>1, <1>3, <1>4 DEF Progress, Exists
  <1>6. RootIsCurrent(r)' /\ StatusIsCurrent(r)'
    BY <1>3 DEF RootIsCurrent, StatusIsCurrent
  <1>7. CheckIsCurrent(r)'
    BY <1>3 DEF CheckIsCurrent, activeSameCN, Active
  <1>8. QED
    BY <1>3, <1>5, <1>6, <1>7, ReadStep DEF Own

\* The last step of request r, an UPDATE of row i that revokes nothing.
LEMMA UpdateStep ==
  ASSUME CertInv, NEW r \in Requests, NEW i \in Requests, End(r),
         req[r].pc \notin {"done", "enqueue"}, Exists(i),
         NEW new \in Row, rows' = [rows EXCEPT ![i] = new],
         made \subseteq made', made' \subseteq Ops, UNCHANGED <<pend, deployVars>>,
         new.root = rows[i].root \/ "importServer" \in made',
         ImportsAlone' /\ new.status = "revoked" =>
            rows[i].status = "revoked" /\ new.root = rows[i].root /\ new.serial = rows[i].serial,
         OneActivePerCN'
  PROVE  CertInv'
  <1>1. TypeOK
    BY DEF CertInv
  <1>2. Moves(r) /\ lost' = lost /\ req'[r].pc = "done"
    BY <1>1, EndMoves
  <1>3. /\ rows' \in [Requests -> Row]
        /\ rows'[i] = new
        /\ \A j \in Requests : j # i => rows'[j] = rows[j]
    BY <1>1 DEF TypeOK
  <1>4. \A j \in Requests : j # r /\ Exists(j)' =>
             Exists(j) /\ (rows'[j].root = rows[j].root \/ "importServer" \in made')
    BY <1>3 DEF Exists
  <1>5. ImportsAlone' => \A j \in Requests : rows'[j].status = "revoked" => RevokedBefore(r, j)
    BY <1>3 DEF RevokedBefore
  <1>6. QED
    BY <1>1, <1>2, <1>3, <1>4, <1>5, RequestStep DEF TypeOK

LEMMA PatchCheckInv ==
  ASSUME CertInv, NEW r \in Requests, NEW i \in Requests, NEW n \in Nodes \cup {NoNode},
         PatchCheck(r, i, n)
  PROVE  CertInv'
  <1> DEFINE row == [rows[i] EXCEPT !.node = n]
  <1>1. req[r].pc = "new" /\ made \subseteq made' /\ made' \subseteq Ops /\ Exists(i)
    BY BeginsFacts DEF PatchCheck
  <1>2. row \in Row /\ row.node = n
    BY DEF CertInv, TypeOK, Row
  <1>3. CASE activeSameCN(rows[i].cn, n, {i})
    BY <1>1, <1>3, ToEnd DEF PatchCheck
  <1>4. CASE ~activeSameCN(rows[i].cn, n, {i})
    <2>1. GoOn(r, "update", i, row, {}) /\ UNCHANGED <<rows, pend, deployVars>>
      BY <1>4 DEF PatchCheck
    <2>2. QED
      BY <1>1, <1>2, <1>4, <2>1, ToUpdate
  <1>5. QED
    BY <1>3, <1>4

LEMMA PatchUpdateInv ==
  ASSUME CertInv, NEW r \in Requests, PatchUpdate(r)
  PROVE  CertInv'
  <1> DEFINE i == req[r].id
  <1>1. TypeOK /\ Own(r) /\ OneActivePerCN
    BY DEF CertInv, Own
  <1>2. /\ req[r].pc = "update" /\ made' = made /\ made' \subseteq Ops
        /\ i \in Requests /\ req[r].row \in Row
    BY AtFacts DEF PatchUpdate, At
  <1>3. CASE ~Exists(i)
    BY <1>2, <1>3, ToEnd DEF PatchUpdate
  <1>4. CASE Exists(i)
    <2>1. PICK u \in BOOLEAN : rows' = [rows EXCEPT ![i].node = req[r].row.node, ![i].user = u]
      BY <1>4 DEF PatchUpdate
    <2> DEFINE new == [[rows[i] EXCEPT !.node = req[r].row.node] EXCEPT !.user = u]
    <2>2. /\ new \in Row
          /\ new.status = rows[i].status /\ new.root = rows[i].root
          /\ new.serial = rows[i].serial /\ new.cn = rows[i].cn
          /\ new.node = req[r].row.node
      BY <1>1, <1>2 DEF TypeOK, Row
    <2>3. rows' = [rows EXCEPT ![i] = new]
      BY <1>1, <1>2, <2>1 DEF TypeOK
    <2>4. rows'[i] = new /\ \A j \in Requests : j # i => rows'[j] = rows[j]
      BY <1>1, <1>2, <2>3 DEF TypeOK
    <2>5. Moves(r)
      BY <1>1, <1>2, EndMoves DEF PatchUpdate
    <2> HIDE DEF new
    <2>6. OneActivePerCN'
      <3> SUFFICES ASSUME ~overlap', made' \subseteq ClientOps,
                          NEW j \in Requests, NEW k \in Requests,
                          Active(j)', Active(k)', rows'[j].cn = rows'[k].cn,
                          rows'[j].node = rows'[k].node, j # k
                   PROVE  FALSE
        BY DEF OneActivePerCN
      <3>1. ~overlap /\ made \subseteq ClientOps
        BY <1>2, <2>5 DEF Moves
      <3>2. ~activeSameCN(rows[i].cn, req[r].row.node, {i})
        BY <1>1, <1>2, <3>1 DEF Own, CheckIsCurrent
      <3>3. CASE j # i /\ k # i
        BY <1>1, <2>4, <3>1, <3>3 DEF OneActivePerCN, Active
      <3>4. CASE j = i
        BY <2>2, <2>4, <3>2, <3>4 DEF activeSameCN, Active
      <3>5. CASE k = i
        BY <2>2, <2>4, <3>2, <3>5 DEF activeSameCN, Active
      <3>6. QED
        BY <3>3, <3>4, <3>5
    <2>7. QED
      BY <1>2, <1>4, <2>2, <2>3, <2>6, UpdateStep DEF PatchUpdate
  <1>5. QED
    BY <1>3, <1>4

LEMMA PatchUserInv ==
  ASSUME CertInv, NEW r \in Requests, NEW i \in Requests, PatchUser(r, i)
  PROVE  CertInv'
  <1> DEFINE new == [rows[i] EXCEPT !.user = ~@]
  <1>1. TypeOK /\ OneActivePerCN
    BY DEF CertInv
  <1>2. req[r].pc = "new" /\ made \subseteq made' /\ made' \subseteq Ops /\ Exists(i)
    BY BeginsFacts DEF PatchUser
  <1>3. rows[i] \in Row /\ (~rows[i].user) \in BOOLEAN
    BY <1>1 DEF TypeOK
  <1>4. /\ new \in Row
        /\ new.status = rows[i].status /\ new.root = rows[i].root
        /\ new.serial = rows[i].serial /\ new.cn = rows[i].cn /\ new.node = rows[i].node
    BY <1>3 DEF Row
  <1>5. rows' = [rows EXCEPT ![i] = new]
    BY <1>1 DEF PatchUser, TypeOK
  <1>6. rows'[i] = new /\ \A j \in Requests : j # i => rows'[j] = rows[j]
    BY <1>1, <1>5 DEF TypeOK
  <1>7. End(r) /\ UNCHANGED <<pend, deployVars>>
    BY DEF PatchUser
  <1>8. Moves(r)
    BY <1>1, <1>2, <1>7, EndMoves
  <1> HIDE DEF new
  <1>9. OneActivePerCN'
    BY <1>1, <1>2, <1>4, <1>6, <1>8 DEF OneActivePerCN, Active, Moves
  <1>10. QED
    BY <1>2, <1>4, <1>5, <1>7, <1>9, UpdateStep

LEMMA RevokeReadInv ==
  ASSUME CertInv, NEW r \in Requests, NEW i \in Requests, RevokeRead(r, i)
  PROVE  CertInv'
  <1>1. req[r].pc = "new" /\ made \subseteq made' /\ made' \subseteq Ops /\ Exists(i)
    BY BeginsFacts DEF RevokeRead
  <1>2. rows[i] \in Row
    BY DEF CertInv, TypeOK
  <1>3. QED
    BY <1>1, <1>2, ToUpdate DEF RevokeRead

LEMMA RevokeUpdateInv ==
  ASSUME CertInv, NEW r \in Requests, RevokeUpdate(r)
  PROVE  CertInv'
  <1> DEFINE i == req[r].id
             nodes == NodesOf(req[r].row.root)
             new == [rows[i] EXCEPT !.status = "revoked"]
  <1>1. TypeOK /\ Own(r) /\ OneActivePerCN
    BY DEF CertInv, Own
  <1>2. /\ req[r].pc = "revoke" /\ made' = made /\ made' \subseteq Ops
        /\ i \in Requests /\ req[r].row \in Row
    BY AtFacts DEF RevokeUpdate, At
  <1>3. CASE ~Exists(i)
    BY <1>2, <1>3, ToEnd DEF RevokeUpdate
  <1>4. CASE Exists(i)
    <2>1. rows' = [rows EXCEPT ![i] = new] /\ UNCHANGED <<pend, deployVars>>
      BY <1>1, <1>2, <1>4 DEF RevokeUpdate, TypeOK
    <2>2. /\ new \in Row /\ new.status = "revoked" /\ new.root = rows[i].root
      BY <1>1, <1>2 DEF TypeOK, Row
    <2>3. /\ rows' \in [Requests -> Row]
          /\ rows'[i] = new
          /\ \A j \in Requests : j # i => rows'[j] = rows[j]
      BY <1>1, <1>2, <2>1, <2>2 DEF TypeOK
    <2>4. nodes \in SUBSET Nodes
      BY DEF NodesOf
    <2>5. /\ Moves(r) /\ lost' = lost
          /\ nodes = {} => req'[r].pc = "done"
          /\ nodes # {} => req'[r].pc = "enqueue" /\ req'[r].todo = nodes
      <3>1. CASE nodes = {}
        BY <1>1, <1>2, <1>4, <3>1, EndMoves DEF RevokeUpdate
      <3>2. CASE nodes # {}
        BY <1>1, <1>2, <1>4, <2>4, <3>2, GoOnMoves DEF RevokeUpdate, Pc
      <3>3. QED
        BY <3>1, <3>2
    <2> HIDE DEF new
    <2>6. \A j \in Requests : j # r /\ Exists(j)' => Exists(j) /\ rows'[j].root = rows[j].root
      BY <1>2, <1>4, <2>2, <2>3 DEF Exists
    <2>7. ASSUME ImportsAlone', NEW j \in Requests, rows'[j].status = "revoked"
          PROVE  RevokedBefore(r, j)
      <3>1. CASE j # i
        BY <2>3, <2>7, <3>1 DEF RevokedBefore
      <3>2. CASE j = i
        <4>1. ImportsAlone
          BY <1>2, <2>5, <2>7, ImportsAloneMonotone
        <4>2. rows'[j].root = req[r].row.root
          BY <1>1, <1>2, <1>4, <2>2, <2>3, <3>2, <4>1 DEF Own, RootIsCurrent
        <4>3. QED
          BY <2>5, <4>2 DEF RevokedBefore
      <3>3. QED
        BY <3>1, <3>2
    <2>8. req'[r].pc # "done" => Own(r)'
      <3>1. r # i
        BY <1>1, <1>2 DEF Own, Progress
      <3>2. ~Exists(r)'
        BY <1>1, <1>2, <2>3, <3>1 DEF Own, Progress, Exists
      <3>3. req'[r].pc # "done" => req'[r].pc = "enqueue"
        BY <2>5
      <3>4. QED
        BY <3>2, <3>3 DEF Own, Progress, RootIsCurrent, StatusIsCurrent, CheckIsCurrent
    <2>9. OneActivePerCN'
      BY <1>1, <1>2, <2>2, <2>3, <2>5 DEF OneActivePerCN, Active, Moves
    <2>10. QED
      BY <1>1, <1>2, <2>1, <2>3, <2>5, <2>6, <2>7, <2>8, <2>9, RequestStep DEF TypeOK
  <1>5. QED
    BY <1>3, <1>4

LEMMA EnqueueInv ==
  ASSUME CertInv, NEW r \in Requests, NEW n \in Nodes, Enqueue(r, n)
  PROVE  CertInv'
  <1>1. TypeOK /\ Own(r) /\ OneActivePerCN
    BY DEF CertInv, Own
  <1>2. /\ req[r].pc = "enqueue" /\ made' = made /\ made' \subseteq Ops
        /\ req[r].id \in Requests /\ req[r].row \in Row
        /\ req[r].todo \in SUBSET Nodes
    BY <1>1, AtFacts DEF Enqueue, At, TypeOK, ReqState
  <1>3. pend' = pend \cup {n} /\ UNCHANGED <<rows, deployVars>>
    BY DEF Enqueue
  <1>4. /\ Moves(r) /\ lost' = lost
        /\ \/ req'[r].pc = "done" /\ req[r].todo = {n}
           \/ req'[r].pc = "enqueue" /\ req'[r].todo = req[r].todo \ {n}
    <2>1. CASE req[r].todo = {n}
      BY <1>1, <1>2, <2>1, EndMoves DEF Enqueue
    <2>2. CASE req[r].todo # {n}
      <3>1. GoOn(r, "enqueue", req[r].id, req[r].row, req[r].todo \ {n})
        BY <2>2 DEF Enqueue
      <3>2. QED
        BY <1>1, <1>2, <3>1, GoOnMoves DEF Pc
    <2>3. QED
      BY <2>1, <2>2
  <1>5. \A m \in req[r].todo : m \in pend' \/ (req'[r].pc = "enqueue" /\ m \in req'[r].todo)
    BY <1>3, <1>4
  <1>6. req'[r].pc # "done" => Own(r)'
    BY <1>1, <1>2, <1>3, <1>4 DEF Own, Progress, RootIsCurrent, StatusIsCurrent,
       CheckIsCurrent, Exists
  <1>7. OneActivePerCN'
    BY <1>1, <1>2, <1>3, <1>4 DEF OneActivePerCN, Moves, Active
  <1>8. \A i \in Requests : /\ Exists(i)' => Exists(i)
                            /\ rows'[i].status = "revoked" => RevokedBefore(r, i)
    BY <1>3 DEF Exists, RevokedBefore
  <1>9. QED
    BY <1>1, <1>2, <1>3, <1>4, <1>5, <1>6, <1>7, <1>8, RequestStep DEF TypeOK

LEMMA ServerCheckInv ==
  ASSUME CertInv, NEW r \in Requests, NEW row \in Row, row.status = "active",
         ServerCheck(r, row), req[r].pc \notin {"done", "enqueue"},
         made \subseteq made', made' \subseteq Ops, ~(made' \subseteq ClientOps)
  PROVE  CertInv'
  BY ToInsert, ToEnd DEF ServerCheck

LEMMA IssueInv ==
  ASSUME CertInv, NEW r \in Requests, NEW row \in Row, row.status = "active",
         IssueCheck(r, row)
  PROVE  CertInv'
  <1>1. req[r].pc = "new" /\ made \subseteq made' /\ made' \subseteq Ops /\ "issue" \in made'
    BY BeginsFacts DEF IssueCheck
  <1>2. QED
    BY <1>1, ServerCheckInv DEF IssueCheck, ClientOps

LEMMA ImportServerInv ==
  ASSUME CertInv, NEW r \in Requests, ImportServerCheck(r)
  PROVE  CertInv'
  <1>1. req[r].pc = "srvcheck" /\ made' = made /\ made' \subseteq Ops /\ req[r].row \in Row
    BY AtFacts DEF ImportServerCheck, At
  <1>2. Progress(r)
    BY DEF CertInv
  <1>3. "importServer" \in made' /\ req[r].row.status = "active"
    BY <1>1, <1>2 DEF Progress
  <1>4. QED
    BY <1>1, <1>3, ServerCheckInv DEF ImportServerCheck, ClientOps

\* A request that goes on with its import of a server certificate.
LEMMA ToImport ==
  ASSUME CertInv, NEW r \in Requests, NEW row \in Row, row.status = "active",
         NEW pc \in {"bycn", "srvcheck"}, req[r].pc \notin {"done", "enqueue"},
         GoOn(r, pc, r, row, {}), UNCHANGED <<rows, pend, deployVars>>,
         made \subseteq made', made' \subseteq Ops, "importServer" \in made'
  PROVE  CertInv'
  <1>1. TypeOK /\ Progress(r)
    BY DEF CertInv
  <1>2. pc \in Pc /\ pc # "done"
    BY DEF Pc
  <1>3. Moves(r) /\ lost' = lost /\ req'[r].pc = pc /\ req'[r].row = row
    BY <1>1, <1>2, GoOnMoves
  <1>4. Own(r)'
    BY <1>1, <1>3 DEF Own, Progress, RootIsCurrent, StatusIsCurrent, CheckIsCurrent, Exists
  <1>5. QED
    BY <1>3, <1>4, ReadStep

LEMMA BySerialInv ==
  ASSUME CertInv, NEW r \in Requests, NEW row \in Row, row.status = "active",
         BySerial(r, row)
  PROVE  CertInv'
  <1>1. /\ req[r].pc = "new" /\ made \subseteq made' /\ made' \subseteq Ops
        /\ "importServer" \in made' /\ UNCHANGED <<rows, pend, deployVars>>
    BY BeginsFacts DEF BySerial
  <1>2. CASE GoOn(r, "bycn", r, row, {})
    BY <1>1, <1>2, ToImport
  <1>3. CASE End(r)
    BY <1>1, <1>3, ToEnd
  <1>4. ASSUME NEW i \in Requests, Exists(i), GoOn(r, "reactivate", i, row, {}) PROVE CertInv'
    BY <1>1, <1>4, ToUpdate
  <1>5. QED
    BY <1>2, <1>3, <1>4 DEF BySerial

LEMMA ByCNInv ==
  ASSUME CertInv, NEW r \in Requests, ByCN(r)
  PROVE  CertInv'
  <1>1. /\ req[r].pc = "bycn" /\ made' = made /\ made' \subseteq Ops /\ req[r].row \in Row
        /\ UNCHANGED <<rows, pend, deployVars>>
    BY AtFacts DEF ByCN, At
  <1>2. "importServer" \in made' /\ req[r].row.status = "active"
    BY <1>1 DEF CertInv, Progress
  <1>3. CASE GoOn(r, "srvcheck", r, req[r].row, {})
    BY <1>1, <1>2, <1>3, ToImport
  <1>4. CASE End(r)
    BY <1>1, <1>4, ToEnd
  <1>5. ASSUME NEW i \in Requests, Exists(i), GoOn(r, "reserial", i, req[r].row, {})
        PROVE  CertInv'
    BY <1>1, <1>2, <1>5, ToUpdate
  <1>6. QED
    BY <1>3, <1>4, <1>5 DEF ByCN

LEMMA ReactivateInv ==
  ASSUME CertInv, NEW r \in Requests, Reactivate(r)
  PROVE  CertInv'
  <1> DEFINE i == req[r].id
             new == [[[rows[i] EXCEPT !.status = "active"] EXCEPT !.cn = req[r].row.cn]
                       EXCEPT !.root = req[r].row.root]
  <1>1. TypeOK
    BY DEF CertInv
  <1>2. /\ req[r].pc = "reactivate" /\ made' = made /\ made' \subseteq Ops
        /\ i \in Requests /\ req[r].row \in Row /\ End(r) /\ UNCHANGED <<pend, deployVars>>
    BY AtFacts DEF Reactivate, At
  <1>3. "importServer" \in made'
    BY <1>2 DEF CertInv, Progress
  <1>4. CASE ~Exists(i)
    BY <1>2, <1>4, ToEnd DEF Reactivate
  <1>5. CASE Exists(i)
    <2>1. new \in Row /\ new.status = "active"
      BY <1>1, <1>2 DEF TypeOK, Row
    <2>2. rows' = [rows EXCEPT ![i] = new]
      BY <1>1, <1>2, <1>5 DEF Reactivate, TypeOK
    <2>3. OneActivePerCN'
      BY <1>3 DEF OneActivePerCN, ClientOps
    <2> HIDE DEF new
    <2>4. QED
      BY <1>2, <1>3, <1>5, <2>1, <2>2, <2>3, UpdateStep
  <1>6. QED
    BY <1>4, <1>5

LEMMA ReserialInv ==
  ASSUME CertInv, NEW r \in Requests, Reserial(r)
  PROVE  CertInv'
  <1> DEFINE i == req[r].id
             new == [[[[rows[i] EXCEPT !.serial = req[r].row.serial] EXCEPT !.status = "active"]
                       EXCEPT !.root = req[r].row.root] EXCEPT !.user = FALSE]
  <1>1. TypeOK
    BY DEF CertInv
  <1>2. /\ req[r].pc = "reserial" /\ made' = made /\ made' \subseteq Ops
        /\ i \in Requests /\ req[r].row \in Row /\ End(r) /\ UNCHANGED <<pend, deployVars>>
    BY AtFacts DEF Reserial, At
  <1>3. "importServer" \in made'
    BY <1>2 DEF CertInv, Progress
  <1>4. CASE rows' = rows
    BY <1>2, <1>4, ToEnd
  <1>5. CASE Exists(i) /\ rows' # rows
    <2>1. new \in Row /\ new.status = "active"
      BY <1>1, <1>2 DEF TypeOK, Row
    <2>2. rows' = [rows EXCEPT ![i] = new]
      BY <1>1, <1>2, <1>5 DEF Reserial, TypeOK
    <2>3. OneActivePerCN'
      BY <1>3 DEF OneActivePerCN, ClientOps
    <2> HIDE DEF new
    <2>4. QED
      BY <1>2, <1>3, <1>5, <2>1, <2>2, <2>3, UpdateStep
  <1>6. QED
    BY <1>4, <1>5 DEF Reserial

LEMMA DeleteServerInv ==
  ASSUME CertInv, NEW r \in Requests, NEW n \in Nodes, DeleteServer(r, n)
  PROVE  CertInv'
  <1>1. TypeOK /\ Own(r)
    BY DEF CertInv, Own
  <1>2. /\ req[r].pc = "new" /\ made \subseteq made' /\ made' \subseteq Ops
        /\ "deleteServer" \in made' /\ UNCHANGED <<pend, deployVars>>
    BY BeginsFacts DEF DeleteServer
  <1>3. rows' \in [Requests -> Row]
    BY <1>1, NoRowType DEF DeleteServer, TypeOK
  <1>4. \A i \in Requests : rows'[i] = rows[i] \/ rows'[i].status = "absent"
    BY NoRowType DEF DeleteServer
  <1>5. Moves(r) /\ lost' = lost /\ req'[r].pc = "enqueue"
    <2>1. GoOn(r, "enqueue", r, NoRow(r), {n}) /\ {n} \in SUBSET Nodes /\ "enqueue" \in Pc
      BY DEF DeleteServer, Pc
    <2>2. QED
      BY <1>1, <1>2, <2>1, NoRowType, GoOnMoves
  <1>6. \A i \in Requests : Exists(i)' => Exists(i) /\ rows'[i].root = rows[i].root
    BY <1>4 DEF Exists
  <1>7. \A i \in Requests : rows'[i].status = "revoked" => RevokedBefore(r, i)
    BY <1>4 DEF RevokedBefore
  <1>8. Own(r)'
    BY <1>1, <1>2, <1>5, <1>6 DEF Own, Progress, RootIsCurrent, StatusIsCurrent, CheckIsCurrent
  <1>9. OneActivePerCN'
    BY <1>2 DEF OneActivePerCN, ClientOps
  <1>10. QED
    BY <1>1, <1>2, <1>3, <1>5, <1>6, <1>7, <1>8, <1>9, RequestStep DEF TypeOK

LEMMA IndexFindInv ==
  ASSUME CertInv, NEW r \in Requests, NEW row \in Row, row.status = "active",
         IndexFind(r, row)
  PROVE  CertInv'
  <1>1. /\ req[r].pc = "new" /\ made \subseteq made' /\ made' \subseteq Ops
        /\ "index" \in made' /\ UNCHANGED <<rows, pend, deployVars>>
    BY BeginsFacts DEF IndexFind
  <1>2. CASE GoOn(r, "insert", r, row, {})
    BY <1>1, <1>2, ToInsert DEF ClientOps
  <1>3. CASE End(r)
    BY <1>1, <1>3, ToEnd
  <1>4. ASSUME NEW i \in Requests, Exists(i),
               GoOn(r, "reindex", i, [row EXCEPT !.status = rows[i].status], {})
        PROVE  CertInv'
    <2>1. /\ [row EXCEPT !.status = rows[i].status] \in Row
          /\ [row EXCEPT !.status = rows[i].status].status = rows[i].status
      BY DEF CertInv, TypeOK, Row
    <2>2. QED
      BY <1>1, <1>4, <2>1, ToUpdate
  <1>5. QED
    BY <1>2, <1>3, <1>4 DEF IndexFind

LEMMA ReindexInv ==
  ASSUME CertInv, NEW r \in Requests, Reindex(r)
  PROVE  CertInv'
  <1> DEFINE i == req[r].id
             st == IF req[r].row.status = "revoked" THEN "active" ELSE rows[i].status
             new == [[rows[i] EXCEPT !.serial = req[r].row.serial] EXCEPT !.status = st]
  <1>1. TypeOK /\ Own(r)
    BY DEF CertInv, Own
  <1>2. /\ req[r].pc = "reindex" /\ made' = made /\ made' \subseteq Ops
        /\ i \in Requests /\ req[r].row \in Row /\ End(r) /\ UNCHANGED <<pend, deployVars>>
    BY AtFacts DEF Reindex, At
  <1>3. "index" \in made'
    BY <1>1, <1>2 DEF Own, Progress
  <1>4. CASE rows' = rows
    BY <1>2, <1>4, ToEnd
  <1>5. CASE Exists(i) /\ rows' # rows
    <2>1. st \in {"absent", "active", "revoked"}
      BY <1>1, <1>2 DEF TypeOK, Row
    <2>2. new \in Row /\ new.status = st /\ new.root = rows[i].root
      BY <1>1, <1>2, <2>1 DEF TypeOK, Row
    <2>3. rows' = [rows EXCEPT ![i] = new]
      BY <1>1, <1>2, <1>5 DEF Reindex, TypeOK
    <2>4. OneActivePerCN'
      BY <1>3 DEF OneActivePerCN, ClientOps
    <2>5. Moves(r)
      BY <1>1, <1>2, EndMoves
    <2>6. ImportsAlone' => ~overlap
      BY <1>3, <2>5 DEF ImportsAlone, Moves
    <2>7. ImportsAlone' => st # "revoked"
      BY <1>1, <1>2, <2>6 DEF Own, StatusIsCurrent
    <2> HIDE DEF new
    <2>8. QED
      BY <1>2, <1>5, <2>2, <2>3, <2>4, <2>7, UpdateStep
  <1>6. QED
    BY <1>4, <1>5 DEF Reindex

LEMMA RetryInv ==
  ASSUME CertInv, NEW r \in Requests, NEW n \in Nodes, Retry(r, n)
  PROVE  CertInv'
  <1>1. TypeOK /\ OneActivePerCN
    BY DEF CertInv
  <1>2. /\ req[r].pc = "new" /\ made \subseteq made' /\ made' \subseteq Ops
        /\ pend' = pend \cup {n} /\ UNCHANGED <<rows, deployVars>>
    BY BeginsFacts DEF Retry
  <1>3. Moves(r) /\ lost' = lost /\ req'[r].pc = "done"
    BY <1>1, <1>2, EndMoves DEF Retry
  <1>4. OneActivePerCN'
    BY <1>1, <1>2, <1>3 DEF OneActivePerCN, Moves, Active
  <1>5. \A i \in Requests : /\ Exists(i)' => Exists(i)
                            /\ rows'[i].status = "revoked" => RevokedBefore(r, i)
    BY <1>2 DEF Exists, RevokedBefore
  <1>6. QED
    BY <1>1, <1>2, <1>3, <1>4, <1>5, RequestStep DEF TypeOK

LEMMA ClientGoneInv ==
  ASSUME CertInv, NEW r \in Requests, ClientGone(r)
  PROVE  CertInv'
  <1> DEFINE st == [pc |-> "done", id |-> r, row |-> NoRow(r), todo |-> {}]
  <1>1. TypeOK /\ Solo /\ OneActivePerCN
    BY DEF CertInv
  <1>2. st \in ReqState /\ st.pc = "done"
    BY NoRowType DEF ReqState, Pc
  <1>3. /\ req' = [req EXCEPT ![r] = st] /\ lost' = TRUE
        /\ UNCHANGED <<rows, pend, deployVars, made, overlap>>
    BY DEF ClientGone
  <1>4. /\ req' \in [Requests -> ReqState] /\ req'[r].pc = "done"
        /\ \A q \in Requests : q # r => req'[q] = req[q]
    BY <1>1, <1>2, <1>3 DEF TypeOK
  <1>5. ~overlap => \A q \in Requests : q # r => req[q].pc \in {"new", "done"}
    BY <1>1 DEF ClientGone, Solo, Open
  <1>6. req[r].pc # "done"
    BY DEF ClientGone, Open
  <1>7. Moves(r)
    BY <1>1, <1>3, <1>4, <1>5, <1>6 DEF Moves, TypeOK
  <1>8. OneActivePerCN'
    BY <1>1, <1>3 DEF OneActivePerCN, Active
  <1>9. \A i \in Requests : /\ Exists(i)' => Exists(i)
                            /\ rows'[i].status = "revoked" => RevokedBefore(r, i)
    BY <1>3 DEF Exists, RevokedBefore
  <1>10. QED
    BY <1>1, <1>3, <1>4, <1>7, <1>8, <1>9, RequestStep DEF TypeOK

-----------------------------------------------------------------------------
(* Executors *)

\* A step of an executor keeps the invariant if it keeps every revocation on
\* its way.
LEMMA WorkerStep ==
  ASSUME CertInv, TypeOK', UNCHANGED <<rows, req, made, overlap, lost>>, AloneIsAlone',
         EveryRevokedCovered'
  PROVE  CertInv'
  <1>1. Solo' /\ OneActivePerCN'
    BY DEF CertInv, Solo, Open, OneActivePerCN, Active
  <1>2. ASSUME NEW r \in Requests PROVE Own(r)'
    <2>1. Own(r)
      BY DEF CertInv, Own
    <2>2. Progress(r)' /\ RootIsCurrent(r)' /\ StatusIsCurrent(r)'
      BY <2>1 DEF Own, Progress, RootIsCurrent, StatusIsCurrent, ImportsAlone, Exists
    <2>3. CheckIsCurrent(r)'
      BY <2>1 DEF Own, CheckIsCurrent, activeSameCN, Active
    <2>4. QED
      BY <2>2, <2>3 DEF Own
  <1>3. QED
    BY <1>1, <1>2 DEF CertInv, Own

\* A deployment begins: it has read every revoked row, and is not alone if
\* another one runs at the node.
LEMMA DeployReadInv ==
  ASSUME CertInv, NEW e \in Executors, NEW n \in Nodes, DeployRead(e, n)
  PROVE  CertInv'
  <1> DEFINE serials == {rows[i].serial : i \in RevokedRows(NodeRoot[n])}
             new == [node |-> n, alone |-> RunsAt(n) = {}, serials |-> serials]
             old(f) == [run[f] EXCEPT !.alone = @ /\ run[f].node # n]
  <1>1. TypeOK /\ EveryRevokedCovered /\ AloneIsAlone
    BY DEF CertInv
  <1>2. serials \subseteq Serial
    BY <1>1 DEF TypeOK, RevokedRows, Row
  <1>3. /\ new \in Deployment /\ new.node = n /\ new.serials = serials
        /\ new.alone => RunsAt(n) = {}
    BY <1>2 DEF Deployment
  <1>4. ASSUME NEW f \in Executors
        PROVE  /\ old(f) \in Deployment /\ old(f).node = run[f].node
               /\ old(f).serials = run[f].serials
               /\ old(f).alone => run[f].alone /\ run[f].node # n
    <2>1. run[f] \in Deployment
      BY <1>1 DEF TypeOK
    <2>2. QED
      BY <2>1 DEF Deployment
  <1>5. /\ pend' = pend \ {n}
        /\ run' = [f \in Executors |-> IF f = e THEN new ELSE old(f)]
        /\ UNCHANGED <<rows, req, last, ended, beside, crl, online, made, overlap, lost>>
        /\ run[e].node = NoNode
    BY DEF DeployRead
  <1> HIDE DEF new, old
  <1>6. run'[e] = new /\ \A f \in Executors : f # e => run'[f] = old(f)
    BY <1>5
  <1>7. run' \in [Executors -> Deployment]
    BY <1>3, <1>4, <1>5
  <1>8. TypeOK'
    BY <1>1, <1>5, <1>7 DEF TypeOK
  <1>9. AloneIsAlone'
    <2> SUFFICES ASSUME NEW f \in Executors, NEW g \in Executors, f # g,
                        run'[f].node # NoNode, run'[f].node = run'[g].node
                 PROVE  ~run'[f].alone
      BY DEF AloneIsAlone
    <2>1. CASE f = e
      <3>1. run[g].node = n
        BY <1>3, <1>4, <1>6, <2>1
      <3>2. QED
        BY <1>3, <1>6, <2>1, <3>1 DEF RunsAt
    <2>2. CASE g = e
      BY <1>3, <1>4, <1>6, <2>2
    <2>3. CASE f # e /\ g # e
      BY <1>1, <1>4, <1>6, <2>3 DEF AloneIsAlone
    <2>4. QED
      BY <2>1, <2>2, <2>3
  <1>10. EveryRevokedCovered'
    <2> SUFFICES ASSUME ~lost, ImportsAlone, NEW m \in Nodes, NEW i \in RevokedRows(NodeRoot[m])
                 PROVE  Covered(m, i)'
      BY <1>5 DEF EveryRevokedCovered, ImportsAlone, RevokedRows
    <2>1. CASE m = n
      <3>1. e \in RunsAt(m)' /\ rows'[i].serial \in run'[e].serials
        BY <1>3, <1>5, <1>6, <2>1 DEF RunsAt
      <3>2. QED
        BY <3>1 DEF Covered
    <2>2. CASE m # n
      <3>1. Covered(m, i)
        BY <1>1 DEF EveryRevokedCovered
      <3>2. m # NoNode
        BY CertificatesAssumption
      <3>3. \A f \in Executors : run'[f].node = m <=> run[f].node = m
        BY <1>3, <1>4, <1>5, <1>6, <2>2, <3>2
      <3>4. RunsAt(m)' = RunsAt(m)
        BY <3>3 DEF RunsAt
      <3>5. ASSUME NEW f \in RunsAt(m), run[f].alone => rows[i].serial \in run[f].serials
            PROVE  run'[f].alone => rows'[i].serial \in run'[f].serials
        <4>1. f \in Executors /\ f # e
          BY <1>5, <3>2 DEF RunsAt
        <4>2. QED
          BY <1>4, <1>5, <1>6, <3>5, <4>1
      <3>6. CASE \E f \in RunsAt(m) : run[f].alone => rows[i].serial \in run[f].serials
        BY <3>4, <3>5, <3>6 DEF Covered
      <3>7. CASE m \in pend \/ \E r \in Requests : req[r].pc = "enqueue" /\ m \in req[r].todo
        BY <1>5, <2>2, <3>7 DEF Covered
      <3>8. CASE /\ RunsAt(m) = {}
                 /\ m \in beside \/ last[m] # "completed" \/ rows[i].serial \in crl[m]
        BY <1>5, <3>4, <3>8 DEF Covered
      <3>9. QED
        BY <3>1, <3>6, <3>7, <3>8 DEF Covered
    <2>3. QED
      BY <2>1, <2>2
  <1>11. QED
    BY <1>5, <1>8, <1>9, <1>10, WorkerStep

\* A deployment ends; if it has completed, the file is written.
LEMMA DeployEndInv ==
  ASSUME CertInv, NEW e \in Executors, NEW status \in {"completed", "failed", "processing"},
         run[e].node # NoNode, Leaves(e, status), pend' = pend,
         crl' = crl \/ Written(e), status = "completed" => Written(e)
  PROVE  CertInv'
  <1>1. TypeOK /\ EveryRevokedCovered /\ AloneIsAlone
    BY DEF CertInv
  <1>a. PICK n : n = run[e].node
    OBVIOUS
  <1>2. n \in Nodes /\ run[e].serials \in SUBSET Serial
    BY <1>1, <1>a DEF TypeOK, Deployment
  <1>3. /\ UNCHANGED <<rows, req, online, made, overlap, lost>>
        /\ last' = [last EXCEPT ![n] = status] /\ run' = [run EXCEPT ![e] = Idle]
        /\ ended' \subseteq Nodes /\ beside' \subseteq Nodes
        /\ ~run[e].alone => n \in beside'
        /\ \A m \in Nodes : m # n => (m \in beside' <=> m \in beside)
    BY <1>1, <1>a, <1>2 DEF Leaves, TypeOK
  <1>4. /\ crl' = crl \/ crl' = [crl EXCEPT ![n] = run[e].serials]
        /\ status = "completed" => crl' = [crl EXCEPT ![n] = run[e].serials]
    BY <1>a DEF Written
  <1>5. Idle \in Deployment /\ Idle.node = NoNode
    BY DEF Idle, Deployment
  <1>6. TypeOK'
    BY <1>1, <1>2, <1>3, <1>4, <1>5 DEF TypeOK
  <1>7. /\ run'[e] = Idle /\ \A f \in Executors : f # e => run'[f] = run[f]
        /\ last'[n] = status /\ \A m \in Nodes : m # n => last'[m] = last[m] /\ crl'[m] = crl[m]
        /\ status = "completed" => crl'[n] = run[e].serials
    BY <1>1, <1>2, <1>3, <1>4 DEF TypeOK
  <1>8. AloneIsAlone'
    BY <1>1, <1>5, <1>7 DEF AloneIsAlone
  <1>9. EveryRevokedCovered'
    <2> SUFFICES ASSUME ~lost, ImportsAlone, NEW m \in Nodes, NEW i \in RevokedRows(NodeRoot[m])
                 PROVE  Covered(m, i)'
      BY <1>3 DEF EveryRevokedCovered, ImportsAlone, RevokedRows
    <2>0. m # NoNode
      BY CertificatesAssumption
    <2>1. Covered(m, i)
      BY <1>1 DEF EveryRevokedCovered
    <2>2. CASE m \in pend \/ \E r \in Requests : req[r].pc = "enqueue" /\ m \in req[r].todo
      BY <1>3, <2>2 DEF Covered
    <2>3. CASE m # n
      <3>1. RunsAt(m)' = RunsAt(m) /\ e \notin RunsAt(m)
        BY <1>a, <1>5, <1>7, <2>0, <2>3 DEF RunsAt
      <3>2. \A f \in RunsAt(m) : run'[f] = run[f]
        BY <1>7, <3>1 DEF RunsAt
      <3>3. QED
        BY <1>3, <1>7, <2>1, <2>3, <3>1, <3>2 DEF Covered
    <2>4. CASE m = n /\ \E f \in Executors : f # e /\ run[f].node = n
      <3>1. PICK f \in Executors : f # e /\ run[f].node = n
        BY <2>4
      <3>2. ~run[f].alone
        BY <1>1, <1>a, <2>0, <2>4, <3>1 DEF AloneIsAlone
      <3>3. f \in RunsAt(m)' /\ ~run'[f].alone
        BY <1>7, <2>4, <3>1, <3>2 DEF RunsAt
      <3>4. QED
        BY <3>3 DEF Covered
    <2>5. CASE m = n /\ (\A f \in Executors : f # e => run[f].node # n)
               /\ ~(m \in pend \/ \E r \in Requests : req[r].pc = "enqueue" /\ m \in req[r].todo)
      <3>1. RunsAt(m)' = {}
        BY <1>5, <1>7, <2>0, <2>5 DEF RunsAt
      <3>2. RunsAt(m) = {e}
        BY <1>a, <2>5 DEF RunsAt
      <3>3. run[e].alone => rows[i].serial \in run[e].serials
        BY <2>1, <2>5, <3>2 DEF Covered
      <3>4. n \in beside' \/ last'[n] # "completed" \/ rows'[i].serial \in crl'[n]
        BY <1>3, <1>7, <3>3
      <3>5. QED
        BY <2>5, <3>1, <3>4 DEF Covered
    <2>6. QED
      BY <2>2, <2>3, <2>4, <2>5
  <1>10. QED
    BY <1>3, <1>6, <1>8, <1>9, WorkerStep

LEMMA DeployInv ==
  ASSUME CertInv, NEW e \in Executors, DeployEnds(e) \/ \E n \in Nodes : DeployRead(e, n)
  PROVE  CertInv'
  <1>1. CASE \E n \in Nodes : DeployRead(e, n)
    BY <1>1, DeployReadInv
  <1>2. CASE DeployWrite(e)
    BY <1>2, DeployEndInv DEF DeployWrite
  <1>3. CASE DeployFails(e)
    BY <1>3, DeployEndInv DEF DeployFails
  <1>4. CASE DeployStranded(e)
    BY <1>4, DeployEndInv DEF DeployStranded
  <1>5. QED
    BY <1>1, <1>2, <1>3, <1>4 DEF DeployEnds

-----------------------------------------------------------------------------
(* The theorems *)

LEMMA InitCertInv == ASSUME Init PROVE CertInv
  <1>1. \A i \in Requests : rows[i].status = "absent" /\ req[i].pc = "new"
    BY NoRowType DEF Init
  <1>2. rows \in [Requests -> Row]
    BY NoRowType DEF Init
  <1>3. req \in [Requests -> ReqState]
    BY NoRowType DEF Init, ReqState, Pc
  <1>4. run \in [Executors -> Deployment] /\ \A e \in Executors : run[e].node = NoNode
    BY DEF Init, Idle, Deployment
  <1>5. overlap \in BOOLEAN /\ lost \in BOOLEAN
    BY DEF Init
  <1>6. TypeOK
    BY <1>2, <1>3, <1>4, <1>5 DEF Init, TypeOK
  <1>7. Solo
    BY <1>1 DEF Solo, Open
  <1>8. \A r \in Requests : Own(r)
    BY <1>1 DEF Own, Progress, RootIsCurrent, StatusIsCurrent, CheckIsCurrent, Exists
  <1>9. EveryRevokedCovered /\ OneActivePerCN /\ AloneIsAlone
    BY <1>1, <1>4 DEF EveryRevokedCovered, RevokedRows, OneActivePerCN, Active, AloneIsAlone
  <1>10. QED
    BY <1>6, <1>7, <1>8, <1>9 DEF CertInv, Own

LEMMA StartInv ==
  ASSUME CertInv, NEW r \in Requests, Start(r)
  PROVE  CertInv'
  <1>1. TypeOK
    BY DEF CertInv
  <1>2. ASSUME NEW row \in NewRow(CNs, FileSerial(r), Nodes \cup {NoNode}, BOOLEAN),
               CreateCheck(r, row)
        PROVE  CertInv'
    <2>1. row \in NewRow(CNs, FileSerial(r) \cup {<<r, "token">>} \cup PanelSerials,
                         Nodes \cup {NoNode}, BOOLEAN)
      BY DEF NewRow
    <2>2. row \in Row /\ row.status = "active"
      BY <1>1, <2>1, NewRowType
    <2>3. QED
      BY <1>2, <2>2, CreateInv
  <1>3. ASSUME NEW row \in NewRow(CNs, FileSerial(r) \cup PanelSerials, Nodes, BOOLEAN),
               ImportCheck(r, row)
        PROVE  CertInv'
    <2>1. row \in NewRow(CNs, FileSerial(r) \cup {<<r, "token">>} \cup PanelSerials,
                         Nodes \cup {NoNode}, BOOLEAN)
      BY DEF NewRow
    <2>2. row \in Row /\ row.status = "active"
      BY <1>1, <2>1, NewRowType
    <2>3. QED
      BY <1>3, <2>2, ImportInv
  <1>4. ASSUME NEW i \in Requests,
               \/ \E n \in Nodes \cup {NoNode} : PatchCheck(r, i, n)
               \/ PatchUser(r, i)
               \/ RevokeRead(r, i)
        PROVE  CertInv'
    BY <1>4, PatchCheckInv, PatchUserInv, RevokeReadInv
  <1>5. ASSUME NEW row \in NewRow(CNs, FileSerial(r), Nodes, {FALSE}), IssueCheck(r, row)
        PROVE  CertInv'
    <2>1. row \in NewRow(CNs, FileSerial(r) \cup {<<r, "token">>} \cup PanelSerials,
                         Nodes \cup {NoNode}, BOOLEAN)
      BY DEF NewRow
    <2>2. row \in Row /\ row.status = "active"
      BY <1>1, <2>1, NewRowType
    <2>3. QED
      BY <1>5, <2>2, IssueInv
  <1>6. ASSUME NEW row \in NewRow(CNs, FileSerial(r) \cup PanelSerials, Nodes, {FALSE}),
               BySerial(r, row)
        PROVE  CertInv'
    <2>1. row \in NewRow(CNs, FileSerial(r) \cup {<<r, "token">>} \cup PanelSerials,
                         Nodes \cup {NoNode}, BOOLEAN)
      BY DEF NewRow
    <2>2. row \in Row /\ row.status = "active"
      BY <1>1, <2>1, NewRowType
    <2>3. QED
      BY <1>6, <2>2, BySerialInv
  <1>7. ASSUME NEW n \in Nodes, DeleteServer(r, n) \/ Retry(r, n) PROVE CertInv'
    BY <1>7, DeleteServerInv, RetryInv
  <1>8. ASSUME NEW row \in NewRow(CNs, FileSerial(r) \cup {<<r, "token">>} \cup PanelSerials,
                                  Nodes \cup {NoNode}, {FALSE}),
               IndexFind(r, row)
        PROVE  CertInv'
    <2>1. row \in Row /\ row.status = "active"
      BY <1>1, NewRowType
    <2>2. QED
      BY <1>8, <2>1, IndexFindInv
  <1>9. QED
    BY <1>2, <1>3, <1>4, <1>5, <1>6, <1>7, <1>8 DEF Start

LEMMA ContinueInv ==
  ASSUME CertInv, NEW r \in Requests, Continue(r)
  PROVE  CertInv'
  BY InsertInv, PatchUpdateInv, RevokeUpdateInv, EnqueueInv, ImportServerInv, ReactivateInv,
     ByCNInv, ReserialInv, ReindexInv DEF Continue

LEMMA NextCertInv == ASSUME CertInv, [Next]_vars PROVE CertInv'
  <1>1. CASE \E r \in Requests : Start(r) \/ Continue(r) \/ ClientGone(r)
    BY <1>1, StartInv, ContinueInv, ClientGoneInv
  <1>2. CASE \E e \in Executors : DeployEnds(e) \/ \E n \in Nodes : DeployRead(e, n)
    BY <1>2, DeployInv
  <1>3. CASE (\E n \in Nodes : AgentTurns(n)) \/ UNCHANGED vars
    <2>1. /\ UNCHANGED <<rows, req, pend, run, last, ended, beside, crl, made, overlap, lost>>
          /\ online' = online \/ \E n \in Nodes : online' \in {online \ {n}, online \cup {n}}
      BY <1>3 DEF vars, AgentTurns
    <2>2. TypeOK'
      BY <2>1 DEF CertInv, TypeOK
    <2>3. AloneIsAlone' /\ EveryRevokedCovered'
      BY <2>1 DEF CertInv, AloneIsAlone, EveryRevokedCovered, ImportsAlone, RevokedRows, Covered,
                  RunsAt
    <2>4. QED
      BY <2>1, <2>2, <2>3, WorkerStep
  <1>4. QED
    BY <1>1, <1>2, <1>3 DEF Next

\* In every state: types; requests one at a time as long as none overlapped;
\* what a request relies on still holds when it writes; every revocation is at
\* every node of its root pending, being deployed, in the CRL or shown as
\* failed, unless two deployments ran there at the same time.  (certificates.go:585-633, execCrlDeploy.)
THEOREM CertificateInvariant == Spec => []CertInv
  BY InitCertInv, NextCertInv, PTL DEF Spec

\* When no request is under way and none was cut short, a node whose last
\* crl_deploy has completed lists every revoked certificate of its root, for
\* any number of requests that overlap in any way, imports alone excepted, and
\* of executors; only the last deployment must have had the node for itself.
\* (EnqueueCrlDeployForRootCa after the UPDATE, certificates.go:607-633.)
THEOREM RevocationsAreListed == Spec => []RevokedListed
  <1>1. ASSUME CertInv PROVE RevokedListed
    <2> SUFFICES ASSUME Open = {}, ~lost, ImportsAlone, NEW n \in Nodes \ beside,
                        DeployIdle(n), last[n] = "completed", NEW i \in RevokedRows(NodeRoot[n])
                 PROVE  rows[i].serial \in crl[n]
      BY DEF RevokedListed, MustRefuse
    <2>1. Covered(n, i)
      BY <1>1 DEF CertInv, EveryRevokedCovered
    <2>2. \A r \in Requests : req[r].pc # "enqueue"
      BY DEF Open
    <2>3. QED
      BY <2>1, <2>2 DEF Covered, DeployIdle
  <1>2. QED
    BY <1>1, CertificateInvariant, PTL

\* Client certificates that are created, imported, patched and revoked one
\* after the other stay apart: one active certificate per node and common name.
\* (activeSameCN, certificates.go.)
THEOREM ActiveNamesAreUnique == Spec => []OneActivePerCN
  <1>1. CertInv => OneActivePerCN
    BY DEF CertInv
  <1>2. QED
    BY <1>1, CertificateInvariant, PTL
=============================================================================
