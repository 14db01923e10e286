---------------------------- MODULE PagesProofs ----------------------------
(***************************************************************************)
(* Pages, for every set of websites, pages, menus and requests.            *)
(*                                                                         *)
(* First what the four ways a verb may touch the store (a statement that   *)
(* writes, a refused statement, a commit, a rollback) do to it.  Then:     *)
(* `PagesInv` is inductive; `LineageInv` adds where the rows of open       *)
(* transactions come from; `Safe` says what each open fork and fanout      *)
(* would do to the table if it committed now, and makes them implement     *)
(* the atomic catalog.                                                     *)
(***************************************************************************)
EXTENDS PagesRefinement, TLAPS

\* The write set of one statement: versions of the right table, never NoRow.
WriteSet(w) ==
    /\ DOMAIN w \subseteq Id
    /\ \A i \in DOMAIN w :
         /\ w[i] # NoRow
         /\ i \in PageIds => w[i] \in PageRow
         /\ i \in MenuIds => w[i] \in MenuRow
         /\ i \in Sites => w[i] \in SiteRow
         /\ i \in RedirectIds => w[i] \in RedirectRow

\* A step of p that keeps what p has written.
StoreKeep(p) ==
    \/ UNCHANGED storeVars
    \/ \E w : WriteSet(w) /\ Write(p, w)
    \/ CommitTx(p)

\* What the transaction of p may do in one step.
StoreStep(p) == StoreKeep(p) \/ RollbackTx(p)

StoreInv == StoreTypeOK /\ LocksExclusive /\ IndexesSafe

\* Every row of a table state is a row of its own table.
LEMMA RowOfTable ==
    ASSUME NEW t, TableState(t), NEW i \in Id, t[i] # NoRow
    PROVE  /\ t[i] \in Row
           /\ i \in PageIds => t[i] \in PageRow
           /\ i \in MenuIds => t[i] \in MenuRow
           /\ i \in Sites => t[i] \in SiteRow
           /\ i \in RedirectIds => t[i] \in RedirectRow
  BY DEF TableState

\* The four tables make up the primary keys.
LEMMA IdSplit ==
    ASSUME NEW i \in Id
    PROVE  i \in PageIds \/ i \in MenuIds \/ i \in Sites \/ i \in RedirectIds
  BY DEF Id

\* A transaction that wrote nothing has a typed, collision-free write set.
LEMMA EmptyTable == TableState(NoWrites) /\ CollisionFree(NoWrites)
  BY DEF TableState, NoWrites, Id, CollisionFree, Collide

\* What a statement reads is typed.
LEMMA ViewTyped ==
    ASSUME StoreTypeOK, NEW p \in Procs
    PROVE  TableState(View(p))
  <1>1. TableState(db) /\ TableState(ws[p])
    BY DEF StoreTypeOK
  <1>2. View(p) \in [Id -> Row \cup {NoRow}]
    BY <1>1 DEF View, TableState
  <1>3. \A i \in Id : View(p)[i] = IF ws[p][i] # NoRow THEN ws[p][i] ELSE db[i]
    BY DEF View
  <1> QED
    BY <1>1, <1>2, <1>3 DEF TableState, Id

\* Writing a typed set over a typed state gives a typed state.
LEMMA OverlayTyped ==
    ASSUME NEW t, TableState(t), NEW w, WriteSet(w)
    PROVE  TableState(Overlay(t, w))
  <1>1. \A i \in Id : Overlay(t, w)[i] = IF i \in DOMAIN w THEN w[i] ELSE t[i]
    BY DEF Overlay
  <1>2. \A i \in DOMAIN w : w[i] \in Row
    BY IdSplit DEF WriteSet, Row
  <1>3. Overlay(t, w) \in [Id -> Row \cup {NoRow}]
    BY <1>2 DEF Overlay, TableState
  <1> QED
    BY <1>1, <1>3 DEF TableState, WriteSet, Id

\* The order of two rows does not matter to an index.
LEMMA CollideSymmetric ==
    ASSUME NEW i, NEW r, NEW j, NEW s, Collide(i, r, j, s)
    PROVE  Collide(j, s, i, r)
  BY DEF Collide, SameSpecificity, SameUrlScope, SameUrlFrom

\* An absent row collides with nothing.
LEMMA NoRowCollidesNot ==
    ASSUME NEW i, NEW r, NEW j, NEW s, r = NoRow \/ s = NoRow
    PROVE  ~Collide(i, r, j, s)
  BY DEF Collide

\* A statement that neither waits nor conflicts keeps the store safe.
LEMMA WriteSafe ==
    ASSUME StoreInv, NEW p \in Procs, NEW w, WriteSet(w), Write(p, w)
    PROVE  StoreInv'
  <1> USE DEF StoreInv
  <1>1. /\ ws' = [ws EXCEPT ![p] = Overlay(ws[p], w)]
        /\ db' = db
        /\ ~Waits(p, w) /\ ~Conflicts(p, w)
    BY DEF Write
  <1>2. /\ ws'[p] = Overlay(ws[p], w)
        /\ \A q \in Procs \ {p} : ws'[q] = ws[q]
        /\ ws' \in [Procs -> [Id -> Row \cup {NoRow}]]
    <2>1. TableState(Overlay(ws[p], w))
      BY OverlayTyped DEF StoreTypeOK
    <2> QED
      BY <1>1, <2>1 DEF StoreTypeOK, TableState
  <1>3. \A i \in Id : /\ i \in DOMAIN w => ws'[p][i] = w[i]
                      /\ i \notin DOMAIN w => ws'[p][i] = ws[p][i]
    BY <1>2 DEF Overlay
  <1>4. StoreTypeOK'
    <2>1. TableState(Overlay(ws[p], w))
      BY OverlayTyped DEF StoreTypeOK
    <2>2. TableState(db')
      BY <1>1 DEF StoreTypeOK
    <2>3. \A q \in Procs : TableState(ws'[q])
      BY <1>2, <2>1 DEF StoreTypeOK
    <2> QED
      BY <1>2, <2>2, <2>3 DEF StoreTypeOK, TableState
  <1>5. \A i \in DOMAIN w, q \in Procs \ {p} : ws[q][i] = NoRow
    BY <1>1 DEF Waits
  <1>6. LocksExclusive'
    <2> SUFFICES ASSUME NEW q \in Procs, NEW r \in Procs, q # r, NEW i \in Id
                 PROVE  ws'[q][i] = NoRow \/ ws'[r][i] = NoRow
      BY DEF LocksExclusive
    <2>1. CASE i \in DOMAIN w
      BY <2>1, <1>2, <1>5
    <2>2. CASE i \notin DOMAIN w
      <3>1. \A x \in Procs : ws'[x][i] = ws[x][i]
        BY <2>2, <1>2, <1>3
      <3> QED
        BY <3>1 DEF LocksExclusive
    <2> QED
      BY <2>1, <2>2
  <1>7. /\ \A i \in Id : View(p)'[i] = Overlay(View(p), w)[i]
        /\ \A q \in Procs \ {p} : View(q)' = View(q)
    <2>1. \A i \in Id : View(p)'[i] = IF ws'[p][i] # NoRow THEN ws'[p][i] ELSE db[i]
      BY <1>1 DEF View
    <2>2. \A i \in Id : View(p)[i] = IF ws[p][i] # NoRow THEN ws[p][i] ELSE db[i]
      BY DEF View
    <2>3. \A i \in Id : Overlay(View(p), w)[i] = IF i \in DOMAIN w THEN w[i] ELSE View(p)[i]
      BY DEF Overlay
    <2>4. \A i \in DOMAIN w : w[i] # NoRow
      BY DEF WriteSet
    <2>5. \A q \in Procs \ {p} : View(q)' = View(q)
      BY <1>1, <1>2 DEF View
    <2> QED
      BY <1>3, <2>1, <2>2, <2>3, <2>4, <2>5
  <1>8. \A i \in DOMAIN w, j \in Id : ~Collide(i, w[i], j, Overlay(View(p), w)[j])
    BY <1>1 DEF Conflicts
  <1>9. \A q \in Procs : CollisionFree(View(q)')
    <2> SUFFICES ASSUME NEW i \in Id, NEW j \in Id
                 PROVE  ~Collide(i, View(p)'[i], j, View(p)'[j])
      BY <1>7 DEF IndexesSafe, CollisionFree
    <2>1. \A k \in Id : Overlay(View(p), w)[k] = IF k \in DOMAIN w THEN w[k] ELSE View(p)[k]
      BY DEF Overlay
    <2>2. CASE i \in DOMAIN w
      BY <2>2, <2>1, <1>7, <1>8
    <2>3. CASE j \in DOMAIN w
      BY <2>3, <2>1, <1>7, <1>8, CollideSymmetric
    <2>4. CASE i \notin DOMAIN w /\ j \notin DOMAIN w
      BY <2>4, <2>1, <1>7 DEF IndexesSafe, CollisionFree
    <2> QED
      BY <2>2, <2>3, <2>4
  <1>10. \A q \in Procs \ {p} : \A i, j \in Id : ~Collide(i, ws'[p][i], j, ws[q][j])
    <2> SUFFICES ASSUME NEW q \in Procs \ {p}, NEW i \in Id, NEW j \in Id
                 PROVE  ~Collide(i, ws'[p][i], j, ws[q][j])
      OBVIOUS
    <2>1. CASE i \in DOMAIN w
      BY <2>1, <1>1, <1>3, NoRowCollidesNot DEF Waits
    <2>2. CASE i \notin DOMAIN w
      BY <2>2, <1>3 DEF IndexesSafe
    <2> QED
      BY <2>1, <2>2
  <1>11. \A q, r \in Procs : q # r => \A i, j \in Id : ~Collide(i, ws'[q][i], j, ws'[r][j])
    <2> SUFFICES ASSUME NEW q \in Procs, NEW r \in Procs, q # r, NEW i \in Id, NEW j \in Id
                 PROVE  ~Collide(i, ws'[q][i], j, ws'[r][j])
      OBVIOUS
    <2>1. CASE q = p
      BY <2>1, <1>2, <1>10
    <2>2. CASE r = p
      BY <2>2, <1>2, <1>10, CollideSymmetric
    <2>3. CASE q # p /\ r # p
      BY <2>3, <1>2 DEF IndexesSafe
    <2> QED
      BY <2>1, <2>2, <2>3
  <1>12. IndexesSafe'
    <2>1. CollisionFree(db')
      BY <1>1 DEF IndexesSafe
    <2> QED
      BY <2>1, <1>9, <1>11 DEF IndexesSafe, CollisionFree
  <1> QED
    BY <1>4, <1>6, <1>12

\* A commit publishes the view of p; the others' versions do not collide with it.
LEMMA CommitSafe ==
    ASSUME StoreInv, NEW p \in Procs, CommitTx(p)
    PROVE  StoreInv'
  <1> USE DEF StoreInv
  <1>1. /\ db' = View(p)
        /\ ws' \in [Procs -> [Id -> Row \cup {NoRow}]]
        /\ ws'[p] = NoWrites
        /\ \A q \in Procs \ {p} : ws'[q] = ws[q]
    BY EmptyTable DEF CommitTx, StoreTypeOK, TableState
  <1>2. \A i \in Id : ws'[p][i] = NoRow
    BY <1>1 DEF NoWrites
  <1>3. StoreTypeOK'
    <2>1. TableState(db') /\ \A q \in Procs : TableState(ws'[q])
      BY <1>1, ViewTyped, EmptyTable DEF StoreTypeOK
    <2> QED
      BY <1>1, <2>1 DEF StoreTypeOK, TableState
  <1>4. LocksExclusive'
    BY <1>1, <1>2 DEF LocksExclusive
  <1>5. /\ \A i \in Id : View(p)'[i] = View(p)[i]
        /\ \A q \in Procs \ {p}, i \in Id :
             View(q)'[i] = IF ws[q][i] # NoRow THEN ws[q][i] ELSE View(p)[i]
    BY <1>1, <1>2 DEF View
  <1>6. \A q \in Procs : CollisionFree(View(q)')
    <2> SUFFICES ASSUME NEW q \in Procs \ {p}, NEW i \in Id, NEW j \in Id
                 PROVE  ~Collide(i, View(q)'[i], j, View(q)'[j])
      BY <1>5 DEF IndexesSafe, CollisionFree
    <2>1. \A x \in Procs, k \in Id : View(x)[k] = IF ws[x][k] # NoRow THEN ws[x][k] ELSE db[k]
      BY DEF View
    <2>2. CASE ws[q][i] # NoRow /\ ws[q][j] # NoRow
      <3>1. ~Collide(i, View(q)[i], j, View(q)[j])
        BY DEF IndexesSafe, CollisionFree
      <3> QED
        BY <2>2, <2>1, <1>5, <3>1
    <2>3. CASE ws[q][i] # NoRow /\ ws[q][j] = NoRow
      <3>1. ~Collide(i, View(q)[i], j, View(q)[j])
        BY DEF IndexesSafe, CollisionFree
      <3>2. ~Collide(i, ws[q][i], j, ws[p][j])
        BY DEF IndexesSafe
      <3> QED
        BY <2>3, <2>1, <1>5, <3>1, <3>2
    <2>4. CASE ws[q][i] = NoRow /\ ws[q][j] # NoRow
      <3>1. ~Collide(i, View(q)[i], j, View(q)[j])
        BY DEF IndexesSafe, CollisionFree
      <3>2. ~Collide(i, ws[p][i], j, ws[q][j])
        BY DEF IndexesSafe
      <3> QED
        BY <2>4, <2>1, <1>5, <3>1, <3>2
    <2>5. CASE ws[q][i] = NoRow /\ ws[q][j] = NoRow
      <3>1. ~Collide(i, View(p)[i], j, View(p)[j])
        BY DEF IndexesSafe, CollisionFree
      <3> QED
        BY <2>5, <1>5, <3>1
    <2> QED
      BY <2>2, <2>3, <2>4, <2>5
  <1>7. CollisionFree(db')
    BY <1>1 DEF IndexesSafe
  <1>8. \A q, r \in Procs : q # r => \A i, j \in Id : ~Collide(i, ws'[q][i], j, ws'[r][j])
    BY <1>1, <1>2, NoRowCollidesNot DEF IndexesSafe
  <1>9. IndexesSafe'
    BY <1>6, <1>7, <1>8 DEF IndexesSafe, CollisionFree
  <1> QED
    BY <1>3, <1>4, <1>9

\* A rollback forgets the versions of p.
LEMMA RollbackSafe ==
    ASSUME StoreInv, NEW p \in Procs, RollbackTx(p)
    PROVE  StoreInv'
  <1> USE DEF StoreInv
  <1>1. /\ db' = db
        /\ ws' \in [Procs -> [Id -> Row \cup {NoRow}]]
        /\ ws'[p] = NoWrites
        /\ \A q \in Procs \ {p} : ws'[q] = ws[q]
    BY EmptyTable DEF RollbackTx, StoreTypeOK, TableState
  <1>2. \A i \in Id : ws'[p][i] = NoRow
    BY <1>1 DEF NoWrites
  <1>3. StoreTypeOK'
    <2>1. TableState(db') /\ \A q \in Procs : TableState(ws'[q])
      BY <1>1, EmptyTable DEF StoreTypeOK
    <2> QED
      BY <1>1, <2>1 DEF StoreTypeOK, TableState
  <1>4. LocksExclusive'
    BY <1>1, <1>2 DEF LocksExclusive
  <1>5. /\ \A i \in Id : View(p)'[i] = db[i]
        /\ \A q \in Procs \ {p} : View(q)' = View(q)
    BY <1>1, <1>2 DEF View
  <1>6. \A q \in Procs : CollisionFree(View(q)')
    BY <1>5 DEF IndexesSafe, CollisionFree
  <1>7. \A q, r \in Procs : q # r => \A i, j \in Id : ~Collide(i, ws'[q][i], j, ws'[r][j])
    BY <1>1, <1>2, NoRowCollidesNot DEF IndexesSafe
  <1>8. CollisionFree(db')
    BY <1>1 DEF IndexesSafe
  <1>9. IndexesSafe'
    BY <1>6, <1>7, <1>8 DEF IndexesSafe, CollisionFree
  <1> QED
    BY <1>3, <1>4, <1>9

\* Any statement, commit or rollback keeps the store typed, its row locks exclusive and
\* its unique indexes safe, whichever open transactions commit later.
THEOREM StoreStepSafe ==
    ASSUME StoreInv, NEW p \in Procs, StoreStep(p)
    PROVE  StoreInv'
  <1>1. CASE UNCHANGED storeVars
    BY <1>1 DEF StoreInv, storeVars, StoreTypeOK, TableState, LocksExclusive, IndexesSafe,
                CollisionFree, View
  <1>2. CASE \E w : WriteSet(w) /\ Write(p, w)
    BY <1>2, WriteSafe
  <1>3. CASE CommitTx(p)
    BY <1>3, CommitSafe
  <1>4. CASE RollbackTx(p)
    BY <1>4, RollbackSafe
  <1> QED
    BY <1>1, <1>2, <1>3, <1>4 DEF StoreStep, StoreKeep

\* A row that a transaction sees stays visible to it until it rolls back.
LEMMA RowsStay ==
    ASSUME StoreTypeOK, NEW p \in Procs, NEW q \in Procs,
           StoreKeep(p) \/ (RollbackTx(p) /\ q # p), NEW i \in Id, View(q)[i] # NoRow
    PROVE  View(q)'[i] # NoRow
  <1>1. \A x \in Procs : View(x)[i] = IF ws[x][i] # NoRow THEN ws[x][i] ELSE db[i]
    BY DEF View
  <1>2. View(q)'[i] = IF ws'[q][i] # NoRow THEN ws'[q][i] ELSE db'[i]
    BY DEF View
  <1>3. ws \in [Procs -> [Id -> Row \cup {NoRow}]]
    BY DEF StoreTypeOK
  <1>4. CASE UNCHANGED storeVars
    BY <1>1, <1>2, <1>4 DEF storeVars
  <1>5. CASE \E w : WriteSet(w) /\ Write(p, w)
    <2>1. PICK w : WriteSet(w) /\ Write(p, w)
      BY <1>5
    <2>2. db' = db /\ ws' = [ws EXCEPT ![p] = Overlay(ws[p], w)]
      BY <2>1 DEF Write
    <2>3. Overlay(ws[p], w)[i] = IF i \in DOMAIN w THEN w[i] ELSE ws[p][i]
      BY DEF Overlay
    <2>4. i \in DOMAIN w => w[i] # NoRow
      BY <2>1 DEF WriteSet
    <2> QED
      BY <1>1, <1>2, <1>3, <2>2, <2>3, <2>4
  <1>6. CASE CommitTx(p)
    <2>1. db' = View(p) /\ ws' = [ws EXCEPT ![p] = NoWrites]
      BY <1>6 DEF CommitTx
    <2>2. q # p => ws'[q][i] = ws[q][i]
      BY <1>3, <2>1
    <2>3. q = p => ws'[q][i] = NoRow
      BY <1>3, <2>1 DEF NoWrites
    <2> QED
      BY <1>1, <1>2, <2>1, <2>2, <2>3
  <1>7. CASE RollbackTx(p) /\ q # p
    BY <1>1, <1>2, <1>3, <1>7 DEF RollbackTx
  <1> QED
    BY <1>4, <1>5, <1>6, <1>7 DEF StoreKeep
-----------------------------------------------------------------------------
\* What each way to touch the store leaves in it, row by row.

\* A statement changes only the versions of its own transaction.
LEMMA WriteEffect ==
    ASSUME StoreTypeOK, NEW p \in Procs, NEW w, WriteSet(w), Write(p, w)
    PROVE  /\ db' = db
           /\ \A q \in Procs, i \in Id :
                /\ ws'[q][i] = IF q = p /\ i \in DOMAIN w THEN w[i] ELSE ws[q][i]
                /\ View(q)'[i] = IF q = p /\ i \in DOMAIN w THEN w[i] ELSE View(q)[i]
           /\ \A q \in Procs \ {p}, i \in DOMAIN w : ws[q][i] = NoRow
  <1>1. db' = db /\ ws' = [ws EXCEPT ![p] = Overlay(ws[p], w)] /\ ~Waits(p, w)
    BY DEF Write
  <1>2. \A q \in Procs, i \in Id :
          ws'[q][i] = IF q = p /\ i \in DOMAIN w THEN w[i] ELSE ws[q][i]
    BY <1>1 DEF StoreTypeOK, Overlay
  <1>3. \A i \in DOMAIN w : w[i] # NoRow
    BY DEF WriteSet
  <1>4. \A q \in Procs, i \in Id :
          View(q)'[i] = IF q = p /\ i \in DOMAIN w THEN w[i] ELSE View(q)[i]
    BY <1>1, <1>2, <1>3 DEF View
  <1>5. \A q \in Procs \ {p}, i \in DOMAIN w : ws[q][i] = NoRow
    BY <1>1 DEF Waits
  <1> QED
    BY <1>1, <1>2, <1>4, <1>5

\* A commit shows the view of its transaction to all.
LEMMA CommitEffect ==
    ASSUME StoreTypeOK, NEW p \in Procs, CommitTx(p)
    PROVE  /\ db' = View(p)
           /\ \A q \in Procs, i \in Id :
                /\ ws'[q][i] = IF q = p THEN NoRow ELSE ws[q][i]
                /\ View(q)'[i] = IF q = p \/ ws[q][i] = NoRow THEN View(p)[i] ELSE ws[q][i]
  <1>1. db' = View(p) /\ ws' = [ws EXCEPT ![p] = NoWrites]
    BY DEF CommitTx
  <1>2. \A q \in Procs, i \in Id : ws'[q][i] = IF q = p THEN NoRow ELSE ws[q][i]
    BY <1>1 DEF StoreTypeOK, NoWrites
  <1>3. \A q \in Procs, i \in Id : View(q)'[i] = IF ws'[q][i] # NoRow THEN ws'[q][i] ELSE View(p)[i]
    BY <1>1 DEF View
  <1> QED
    BY <1>1, <1>2, <1>3

\* A rollback changes what its own transaction sees.
LEMMA RollbackEffect ==
    ASSUME StoreTypeOK, NEW p \in Procs, RollbackTx(p)
    PROVE  /\ db' = db
           /\ \A q \in Procs, i \in Id :
                /\ ws'[q][i] = IF q = p THEN NoRow ELSE ws[q][i]
                /\ View(q)'[i] = IF q = p THEN db[i] ELSE View(q)[i]
  <1>1. db' = db /\ ws' = [ws EXCEPT ![p] = NoWrites]
    BY DEF RollbackTx
  <1>2. \A q \in Procs, i \in Id : ws'[q][i] = IF q = p THEN NoRow ELSE ws[q][i]
    BY <1>1 DEF StoreTypeOK, NoWrites
  <1>3. \A q \in Procs, i \in Id : View(q)'[i] = IF ws'[q][i] # NoRow THEN ws'[q][i] ELSE db[i]
    BY <1>1 DEF View
  <1> QED
    BY <1>1, <1>2, <1>3 DEF View
-----------------------------------------------------------------------------
\* Request p moves to the locals f.  Only a failure gives up what p has written.
Step(p, f) ==
    /\ f \in Frame
    /\ tx' = [tx EXCEPT ![p] = f]
    /\ Locals(f, View(p))
    /\ \/ StoreKeep(p)
       \/ RollbackTx(p) /\ f.pc = "idle"

\* Idle locals are typed and rely on nothing.
LEMMA IdleFrame ==
    ASSUME NEW a \in Answers, NEW v
    PROVE  Idle(a) \in Frame /\ Locals(Idle(a), v)
  BY DEF Idle, Frame, Labels, Locals, GenericLabels, Scopes

\* A step of one request keeps the invariant.
LEMMA StepKeepsInv ==
    ASSUME PagesInv, NEW p \in Procs, NEW f, Step(p, f), calls' \in 0 .. MaxCalls
    PROVE  PagesInv'
  <1>1. StoreInv'
    BY StoreStepSafe DEF PagesInv, TypeOK, StoreInv, Step, StoreStep
  <1>2. tx' \in [Procs -> Frame]
    BY DEF PagesInv, TypeOK, Step
  <1>3. ASSUME NEW q \in Procs
        PROVE  Locals(tx'[q], View(q)')
    <2>1. CASE q # p
      <3>1. \A i \in Id : View(q)[i] # NoRow => View(q)'[i] # NoRow
        BY <2>1, RowsStay DEF PagesInv, TypeOK, Step
      <3>2. tx'[q] = tx[q] /\ Locals(tx[q], View(q))
        BY <2>1 DEF PagesInv, TypeOK, Step
      <3> QED
        BY <3>1, <3>2 DEF Locals, Id
    <2>2. CASE q = p /\ StoreKeep(p)
      <3>1. \A i \in Id : View(q)[i] # NoRow => View(q)'[i] # NoRow
        BY <2>2, RowsStay DEF PagesInv, TypeOK
      <3>2. tx'[q] = f /\ Locals(f, View(q))
        BY <2>2 DEF PagesInv, TypeOK, Step
      <3> QED
        BY <3>1, <3>2 DEF Locals, Id
    <2>3. CASE q = p /\ f.pc = "idle"
      <3>1. tx'[q] = f
        BY <2>3 DEF PagesInv, TypeOK, Step
      <3> QED
        BY <2>3, <3>1 DEF Locals, GenericLabels
    <2> QED
      BY <2>1, <2>2, <2>3 DEF Step
  <1> QED
    BY <1>1, <1>2, <1>3 DEF PagesInv, TypeOK, StoreInv

\* A handler that returns an error.
LEMMA FailStep ==
    ASSUME NEW p \in Procs, NEW a \in Answers, Fail(p, a)
    PROVE  \E f : Step(p, f)
  <1>1. Step(p, Idle(a))
    BY IdleFrame DEF Fail, Step, Idle
  <1> QED
    BY <1>1

\* A handler that goes on to another statement.
LEMMA GotoStep ==
    ASSUME NEW p \in Procs, NEW f \in Frame, NEW label \in Labels,
           Goto(p, f, label), StoreKeep(p), Locals([f EXCEPT !.pc = label], View(p))
    PROVE  \E g : Step(p, g)
  <1>1. [f EXCEPT !.pc = label] \in Frame
    BY DEF Frame
  <1>2. Step(p, [f EXCEPT !.pc = label])
    BY <1>1 DEF Goto, Step
  <1> QED
    BY <1>2

\* A handler whose last statement ran.
LEMMA FinishStep ==
    ASSUME NEW p \in Procs, NEW f \in Frame, NEW a \in Answers,
           Finish(p, f, a), StoreKeep(p)
    PROVE  \E g : Step(p, g)
  <1> DEFINE g == [f EXCEPT !.pc = "commit", !.answer = a]
  <1>0. "commit" \in Labels
    BY DEF Labels
  <1>1. g \in Frame /\ g.pc = "commit"
    BY <1>0 DEF Frame
  <1>2. Locals(g, View(p))
    BY <1>1 DEF Locals, GenericLabels
  <1>3. Step(p, g)
    BY <1>1, <1>2 DEF Finish, Step
  <1> QED
    BY <1>3

\* The write sets of the statements.
LEMMA PageVersion ==
    ASSUME NEW i \in PageIds, NEW r \in PageRow
    PROVE  WriteSet(Version(i, r))
  BY IdsAssumption, NoRowAssumption DEF WriteSet, Version, Id, Row

\* The rule that a rename inserts is a typed write set.
LEMMA RedirectVersion ==
    ASSUME NEW i \in RedirectIds, NEW r \in RedirectRow
    PROVE  WriteSet(Version(i, r))
  BY IdsAssumption, NoRowAssumption DEF WriteSet, Version, Id, Row

\* A statement that re-points or re-labels menus writes a typed set.
LEMMA MenuVersions ==
    ASSUME NEW w, DOMAIN w \subseteq MenuIds, \A m \in DOMAIN w : w[m] \in MenuRow
    PROVE  WriteSet(w)
  BY IdsAssumption, NoRowAssumption DEF WriteSet, Id, Row

\* A statement that moves homepages writes a typed set.
LEMMA SiteVersions ==
    ASSUME NEW w, DOMAIN w \subseteq Sites, \A x \in DOMAIN w : w[x] \in SiteRow
    PROVE  WriteSet(w)
  BY IdsAssumption, NoRowAssumption DEF WriteSet, Id, Row

\* A fresh primary key belongs to its table, while one is left.
LEMMA FreshId ==
    ASSUME NEW S, Unused(S) # {}
    PROVE  NewId(S) \in S
  BY DEF NewId, Unused

\* The rows a transaction sees are rows of their table.
LEMMA SeenRows ==
    ASSUME PagesInv, NEW p \in Procs
    PROVE  /\ \A i \in PageIds : View(p)[i] # NoRow => View(p)[i] \in PageRow
           /\ \A m \in LiveMenus(View(p)) : m \in MenuIds /\ View(p)[m] \in MenuRow
           /\ \A w \in Sites : View(p)[w] # NoRow => View(p)[w] \in SiteRow
           /\ \A i \in LivePages(View(p)) :
                i \in PageIds /\ View(p)[i] # NoRow /\ View(p)[i] \in PageRow
  <1>1. TableState(View(p))
    BY ViewTyped DEF PagesInv, TypeOK
  <1> QED
    BY <1>1, RowOfTable DEF LivePages, LiveMenus, Id

\* The generic and the specific loaders answer with live pages.
LEMMA Loaders ==
    ASSUME NEW t, NEW k, NEW w
    PROVE  /\ ResolveGeneric(t, k) \subseteq LivePages(t)
           /\ ResolveSpecificEntity(t, k, w) \subseteq LivePages(t)
  BY DEF ResolveGeneric, ResolveSpecificEntity

-----------------------------------------------------------------------------
\* insert_specific_copy.

\* Reading the source row of the copy leaves a row or NoRow in the locals.
LEMMA SelectSourceStep ==
    ASSUME PagesInv, NEW p \in Procs, tx[p].pc \in {"fork.select", "fanout.select"},
           NEW label \in {"fork.insert", "fanout.insert"},
           label = "fork.insert" <=> tx[p].pc = "fork.select",
           SelectSource(p, label)
    PROVE  \E f : Step(p, f)
  <1> DEFINE v == View(p)
             g == tx[p].generic
             f == [tx[p] EXCEPT !.source = IF v[g].live THEN v[g] ELSE NoRow]
  <1>1. tx[p] \in Frame /\ Locals(tx[p], v)
    BY DEF PagesInv, TypeOK
  <1>2. g \in PageIds /\ v[g] # NoRow /\ v[g] \in PageRow
    BY <1>1, SeenRows DEF Locals, GenericLabels
  <1>3. f \in Frame /\ f.generic = g /\ f.targets = tx[p].targets
    BY <1>1, <1>2 DEF Frame
  <1>4. /\ [f EXCEPT !.pc = label].pc = label
        /\ [f EXCEPT !.pc = label].generic = g
        /\ [f EXCEPT !.pc = label].targets = tx[p].targets
    BY <1>3 DEF Frame
  <1>5. Locals([f EXCEPT !.pc = label], v)
    BY <1>1, <1>2, <1>4 DEF Locals, GenericLabels
  <1>6. Goto(p, f, label) /\ StoreKeep(p) /\ label \in Labels
    BY DEF SelectSource, StoreKeep, Labels
  <1> QED
    BY <1>3, <1>5, <1>6, GotoStep

\* The copy that lands, and the one that does nothing, keep the store typed.
LEMMA InsertCopyKeep ==
    ASSUME PagesInv, NEW p \in Procs, NEW w \in Scopes, NEW landed \in BOOLEAN,
           tx[p].generic \in PageIds, InsertSpecificCopy(p, w, landed)
    PROVE  StoreKeep(p)
  <1> DEFINE row == tx[p].source
             new == Version(NewId(PageIds), SpecificCopy(row, tx[p].generic, w))
  <1>1. tx[p] \in Frame
    BY DEF PagesInv, TypeOK
  <1>2. CASE row = NoRow
    BY <1>2 DEF InsertSpecificCopy, StoreKeep
  <1>3. CASE row # NoRow
    <2>1. row \in PageRow
      BY <1>1, <1>3 DEF Frame
    <2>2. SpecificCopy(row, tx[p].generic, w) \in PageRow
      BY <2>1 DEF SpecificCopy, PageRow
    <2>3. Unused(PageIds) # {} /\ (Refused(p, new) \/ Write(p, new))
      BY <1>3 DEF InsertSpecificCopy
    <2>4. WriteSet(new)
      BY <2>2, <2>3, FreshId, PageVersion
    <2> QED
      BY <2>3, <2>4 DEF StoreKeep, Refused
  <1> QED
    BY <1>2, <1>3

-----------------------------------------------------------------------------
\* fork_to_website.

\* fork_to_website asks the resolver and branches.
LEMMA ForkResolveStep ==
    ASSUME PagesInv, NEW p \in Procs, ForkResolve(p)
    PROVE  \E f : Step(p, f)
  <1>1. tx[p] \in Frame
    BY DEF PagesInv, TypeOK
  <1>2. StoreKeep(p)
    BY DEF ForkResolve, StoreKeep
  <1>3. Step(p, [tx[p] EXCEPT !.pc = "fork.confirm"]) \/ Step(p, [tx[p] EXCEPT !.pc = "fork.generic"])
    BY <1>1, <1>2 DEF ForkResolve, Goto, Step, Frame, Labels, Locals, GenericLabels
  <1> QED
    BY <1>3

\* fork_to_website reads the specific that answered.
LEMMA ForkConfirmStep ==
    ASSUME PagesInv, NEW p \in Procs, ForkConfirm(p)
    PROVE  \E f : Step(p, f)
  <1> DEFINE v == View(p)
             found == ResolveSpecificEntity(v, tx[p].key, tx[p].scope)
  <1>1. tx[p] \in Frame
    BY DEF PagesInv, TypeOK
  <1>2. CASE \E i \in found : Finish(p, [tx[p] EXCEPT !.page = i], "Existing") /\ UNCHANGED storeVars
    <2>1. PICK i \in found :
            Finish(p, [tx[p] EXCEPT !.page = i], "Existing") /\ UNCHANGED storeVars
      BY <1>2
    <2>2. [tx[p] EXCEPT !.page = i] \in Frame
      BY <1>1, Loaders DEF LivePages, Frame
    <2> QED
      BY <2>1, <2>2, FinishStep DEF StoreKeep, Answers
  <1>3. CASE Fail(p, "Internal")
    BY <1>3, FailStep DEF Answers
  <1> QED
    BY <1>2, <1>3 DEF ForkConfirm

\* fork_to_website loads the generic, which later statements rely on.
LEMMA ForkLoadGenericStep ==
    ASSUME PagesInv, NEW p \in Procs, ForkLoadGeneric(p)
    PROVE  \E f : Step(p, f)
  <1> DEFINE v == View(p)
             found == ResolveGeneric(v, tx[p].key)
  <1>1. tx[p] \in Frame
    BY DEF PagesInv, TypeOK
  <1>2. CASE \E g \in found : /\ Goto(p, [tx[p] EXCEPT !.generic = g], "fork.select")
                              /\ UNCHANGED storeVars
    <2>1. PICK g \in found : /\ Goto(p, [tx[p] EXCEPT !.generic = g], "fork.select")
                             /\ UNCHANGED storeVars
      BY <1>2
    <2>2. g \in PageIds /\ v[g] # NoRow
      BY Loaders DEF LivePages
    <2> DEFINE f == [tx[p] EXCEPT !.generic = g]
    <2>3. f \in Frame /\ [f EXCEPT !.pc = "fork.select"].generic = g
      BY <1>1, <2>2 DEF Frame
    <2>4. Locals([f EXCEPT !.pc = "fork.select"], v)
      BY <2>2, <2>3 DEF Locals, Frame
    <2> QED
      BY <2>1, <2>3, <2>4, GotoStep DEF StoreKeep, Labels
  <1>3. CASE Fail(p, "ForkSourceMissing")
    BY <1>3, FailStep DEF Answers
  <1> QED
    BY <1>2, <1>3 DEF ForkLoadGeneric

\* The INSERT of the fork, landed or not.
LEMMA ForkInsertStep ==
    ASSUME PagesInv, NEW p \in Procs, ForkInsert(p)
    PROVE  \E f : Step(p, f)
  <1>1. tx[p] \in Frame /\ Locals(tx[p], View(p)) /\ tx[p].pc = "fork.insert"
    BY DEF PagesInv, TypeOK, ForkInsert, At
  <1>2. PICK landed \in BOOLEAN :
          /\ InsertSpecificCopy(p, tx[p].scope, landed)
          /\ Goto(p, [tx[p] EXCEPT !.created = landed, !.source = NoRow], "fork.reselect")
    BY DEF ForkInsert
  <1>3. tx[p].generic \in PageIds /\ View(p)[tx[p].generic] # NoRow /\ tx[p].scope \in Scopes
    BY <1>1 DEF Locals, GenericLabels, Frame
  <1>4. StoreKeep(p)
    BY <1>2, <1>3, InsertCopyKeep
  <1> DEFINE f == [tx[p] EXCEPT !.created = landed, !.source = NoRow]
  <1>5. f \in Frame /\ [f EXCEPT !.pc = "fork.reselect"].generic = tx[p].generic
    BY <1>1 DEF Frame
  <1>6. Locals([f EXCEPT !.pc = "fork.reselect"], View(p))
    BY <1>3, <1>5 DEF Locals, Frame
  <1> QED
    BY <1>2, <1>4, <1>5, <1>6, GotoStep DEF Labels

\* fork_to_website re-selects the winner; the creator goes on with its page.
LEMMA ForkReselectStep ==
    ASSUME PagesInv, NEW p \in Procs, ForkReselect(p)
    PROVE  \E f : Step(p, f)
  <1> DEFINE v == View(p)
             found == ResolveSpecificEntity(v, tx[p].key, tx[p].scope)
  <1>1. tx[p] \in Frame /\ Locals(tx[p], v) /\ tx[p].pc = "fork.reselect"
    BY DEF PagesInv, TypeOK, ForkReselect, At
  <1>2. ASSUME NEW i \in found, UNCHANGED storeVars,
               Goto(p, [tx[p] EXCEPT !.page = i], "fork.menus")
        PROVE  \E f : Step(p, f)
    <2> DEFINE f == [tx[p] EXCEPT !.page = i]
    <2>1. i \in PageIds
      BY <1>2, Loaders DEF LivePages
    <2>2. /\ f \in Frame
          /\ [f EXCEPT !.pc = "fork.menus"].page = i
          /\ [f EXCEPT !.pc = "fork.menus"].generic = tx[p].generic
      BY <1>1, <2>1 DEF Frame
    <2>3. Locals([f EXCEPT !.pc = "fork.menus"], v)
      BY <1>1, <2>1, <2>2 DEF Locals, GenericLabels, Frame
    <2> QED
      BY <1>2, <2>2, <2>3, GotoStep DEF StoreKeep, Labels
  <1>3. ASSUME NEW i \in found, UNCHANGED storeVars,
               Finish(p, [tx[p] EXCEPT !.page = i], "Existing")
        PROVE  \E f : Step(p, f)
    <2>1. [tx[p] EXCEPT !.page = i] \in Frame
      BY <1>1, Loaders DEF LivePages, Frame
    <2> QED
      BY <1>3, <2>1, FinishStep DEF StoreKeep, Answers
  <1>4. CASE Fail(p, "Internal")
    BY <1>4, FailStep DEF Answers
  <1> QED
    BY <1>2, <1>3, <1>4 DEF ForkReselect

\* The fork binds the menus of its website to a page.
LEMMA ForkRepointMenusStep ==
    ASSUME PagesInv, NEW p \in Procs, ForkRepointMenus(p)
    PROVE  \E f : Step(p, f)
  <1> DEFINE v == View(p)
             bound == {m \in LiveMenus(v) : v[m].site = tx[p].scope /\ v[m].page = tx[p].generic}
             w == [m \in bound |-> [v[m] EXCEPT !.page = tx[p].page]]
  <1>1. tx[p] \in Frame /\ Locals(tx[p], v) /\ tx[p].pc = "fork.menus"
    BY DEF PagesInv, TypeOK, ForkRepointMenus, At
  <1>2. Write(p, w) /\ Finish(p, tx[p], "Created")
    BY DEF ForkRepointMenus
  <1>3. WriteSet(w)
    BY <1>1, SeenRows, MenuVersions DEF Locals, MenuRow
  <1> QED
    BY <1>1, <1>2, <1>3, FinishStep DEF StoreKeep, Answers

\* Every statement of fork_to_website is a Step.
LEMMA ForkStep ==
    ASSUME PagesInv, NEW p \in Procs, Fork(p)
    PROVE  \E f : Step(p, f)
  <1>1. CASE ForkSelect(p)
    BY <1>1, SelectSourceStep DEF ForkSelect, At
  <1> QED
    BY <1>1, ForkResolveStep, ForkConfirmStep, ForkLoadGenericStep, ForkInsertStep,
       ForkReselectStep, ForkRepointMenusStep DEF Fork

-----------------------------------------------------------------------------
\* delete_generic_with_fanout.

\* The fanout loads the generic, which later statements rely on.
LEMMA FanoutLoadGenericStep ==
    ASSUME PagesInv, NEW p \in Procs, FanoutLoadGeneric(p)
    PROVE  \E f : Step(p, f)
  <1> DEFINE v == View(p)
             found == ResolveGeneric(v, tx[p].key)
  <1>1. tx[p] \in Frame
    BY DEF PagesInv, TypeOK
  <1>2. CASE \E g \in found : /\ Goto(p, [tx[p] EXCEPT !.generic = g], "fanout.targets")
                              /\ UNCHANGED storeVars
    <2>1. PICK g \in found : /\ Goto(p, [tx[p] EXCEPT !.generic = g], "fanout.targets")
                             /\ UNCHANGED storeVars
      BY <1>2
    <2>2. g \in PageIds /\ v[g] # NoRow
      BY Loaders DEF LivePages
    <2> DEFINE f == [tx[p] EXCEPT !.generic = g]
    <2>3. f \in Frame /\ [f EXCEPT !.pc = "fanout.targets"].generic = g
      BY <1>1, <2>2 DEF Frame
    <2>4. Locals([f EXCEPT !.pc = "fanout.targets"], v)
      BY <2>2, <2>3 DEF Locals, Frame
    <2> QED
      BY <2>1, <2>3, <2>4, GotoStep DEF StoreKeep, Labels
  <1>3. CASE Fail(p, "ForkSourceMissing")
    BY <1>3, FailStep DEF Answers
  <1> QED
    BY <1>2, <1>3 DEF FanoutLoadGeneric

\* The head of the loop keeps the generic it read.
LEMMA FanoutNextStep ==
    ASSUME NEW p \in Procs, NEW f \in Frame, FanoutNext(p, f), StoreKeep(p),
           f.generic \in PageIds, View(p)[f.generic] # NoRow
    PROVE  \E g : Step(p, g)
  <1>1. CASE f.targets # {} /\ Goto(p, f, "fanout.select")
    <2>1. /\ [f EXCEPT !.pc = "fanout.select"].generic = f.generic
          /\ [f EXCEPT !.pc = "fanout.select"].targets = f.targets
      BY DEF Frame
    <2>2. Locals([f EXCEPT !.pc = "fanout.select"], View(p))
      BY <1>1, <2>1 DEF Locals, Frame
    <2> QED
      BY <1>1, <2>2, GotoStep DEF Labels
  <1>2. CASE Goto(p, f, "fanout.menus")
    <2>1. [f EXCEPT !.pc = "fanout.menus"].generic = f.generic
      BY DEF Frame
    <2>2. Locals([f EXCEPT !.pc = "fanout.menus"], View(p))
      BY <2>1 DEF Locals, Frame
    <2> QED
      BY <1>2, <2>2, GotoStep DEF Labels
  <1> QED
    BY <1>1, <1>2 DEF FanoutNext

\* The fanout reads the websites that lack a specific.
LEMMA FanoutTargetsStep ==
    ASSUME PagesInv, NEW p \in Procs, FanoutTargets(p)
    PROVE  \E f : Step(p, f)
  <1> DEFINE v == View(p)
             lacking == {w \in LiveSites(v) : ResolveSpecificEntity(v, tx[p].key, w) = {}}
             f == [tx[p] EXCEPT !.targets = lacking]
  <1>1. tx[p] \in Frame /\ Locals(tx[p], v) /\ tx[p].pc = "fanout.targets"
    BY DEF PagesInv, TypeOK, FanoutTargets, At
  <1>2. f \in Frame /\ f.generic = tx[p].generic
    BY <1>1 DEF Frame, LiveSites
  <1>3. FanoutNext(p, f) /\ StoreKeep(p)
    BY DEF FanoutTargets, StoreKeep
  <1>4. f.generic \in PageIds /\ v[f.generic] # NoRow
    BY <1>1, <1>2 DEF Locals, GenericLabels
  <1> QED
    BY <1>2, <1>3, <1>4, FanoutNextStep

\* One turn of the fanout loop: the target list has a first website.
LEMMA FanoutInsertStep ==
    ASSUME PagesInv, NEW p \in Procs, FanoutInsert(p)
    PROVE  \E f : Step(p, f)
  <1>1. tx[p] \in Frame /\ Locals(tx[p], View(p)) /\ tx[p].pc = "fanout.insert"
    BY DEF PagesInv, TypeOK, FanoutInsert, At
  <1>2. PICK w \in First(tx[p].targets), landed \in BOOLEAN :
          /\ InsertSpecificCopy(p, w, landed)
          /\ FanoutNext(p, [tx[p] EXCEPT !.targets = tx[p].targets \ {w}, !.source = NoRow])
    BY DEF FanoutInsert
  <1> DEFINE f == [tx[p] EXCEPT !.targets = tx[p].targets \ {w}, !.source = NoRow]
  <1>3. tx[p].generic \in PageIds /\ View(p)[tx[p].generic] # NoRow
    BY <1>1 DEF Locals, GenericLabels
  <1>4. w \in Scopes
    BY <1>1 DEF First, Frame, Scopes
  <1>5. StoreKeep(p)
    BY <1>2, <1>3, <1>4, InsertCopyKeep
  <1>6. f \in Frame /\ f.generic = tx[p].generic
    BY <1>1 DEF Frame
  <1> QED
    BY <1>2, <1>3, <1>5, <1>6, FanoutNextStep

\* The fanout binds each website's menus to a page.
LEMMA FanoutRepointMenusStep ==
    ASSUME PagesInv, NEW p \in Procs, FanoutRepointMenus(p)
    PROVE  \E f : Step(p, f)
  <1> DEFINE v == View(p)
             Specific(m) == ResolveSpecificEntity(v, tx[p].key, v[m].site)
             bound == {m \in LiveMenus(v) : v[m].page = tx[p].generic /\ Specific(m) # {}}
             w == [m \in bound |-> [v[m] EXCEPT !.page = CHOOSE i \in Specific(m) : TRUE]]
  <1>1. tx[p] \in Frame /\ Locals(tx[p], v) /\ tx[p].pc = "fanout.menus"
    BY DEF PagesInv, TypeOK, FanoutRepointMenus, At
  <1>2. Write(p, w) /\ Goto(p, tx[p], "fanout.delete")
    BY DEF FanoutRepointMenus
  <1>3. ASSUME NEW m \in bound
        PROVE  w[m] \in MenuRow
    <2>1. (CHOOSE i \in Specific(m) : TRUE) \in PageIds
      BY Loaders DEF LivePages
    <2>2. v[m] \in MenuRow
      BY SeenRows
    <2> QED
      BY <2>1, <2>2 DEF MenuRow
  <1>4. bound \subseteq MenuIds
    BY DEF LiveMenus
  <1>5. WriteSet(w)
    BY <1>3, <1>4, MenuVersions
  <1>6. [tx[p] EXCEPT !.pc = "fanout.delete"].generic = tx[p].generic
    BY <1>1 DEF Frame
  <1>7. Locals([tx[p] EXCEPT !.pc = "fanout.delete"], v)
    BY <1>1, <1>6 DEF Locals, GenericLabels, Frame
  <1> QED
    BY <1>1, <1>2, <1>5, <1>7, GotoStep DEF StoreKeep, Labels

\* A soft delete stamps a row that was read.
LEMMA TombstoneKeep ==
    ASSUME PagesInv, NEW p \in Procs, NEW i \in PageIds, View(p)[i] # NoRow, Tombstone(p, i)
    PROVE  StoreKeep(p)
  <1>1. [View(p)[i] EXCEPT !.live = FALSE] \in PageRow
    BY SeenRows DEF PageRow
  <1> QED
    BY <1>1, PageVersion DEF Tombstone, StoreKeep

\* The fanout deletes the generic it loaded, or is refused the stamp.
LEMMA FanoutDeleteStep ==
    ASSUME PagesInv, NEW p \in Procs, FanoutDelete(p)
    PROVE  \E f : Step(p, f)
  <1>1. tx[p] \in Frame /\ Locals(tx[p], View(p)) /\ tx[p].pc = "fanout.delete"
    BY DEF PagesInv, TypeOK, FanoutDelete, At
  <1>2. CASE Tombstone(p, tx[p].generic) /\ Finish(p, tx[p], "FannedOut")
    <2>1. StoreKeep(p)
      BY <1>1, <1>2, TombstoneKeep DEF Locals, GenericLabels
    <2> QED
      BY <1>1, <1>2, <2>1, FinishStep DEF Answers
  <1>3. CASE StampRefused(p)
    BY <1>3, FailStep DEF StampRefused, Answers
  <1> QED
    BY <1>2, <1>3 DEF FanoutDelete

\* Every statement of delete_generic_with_fanout is a Step.
LEMMA FanoutStep ==
    ASSUME PagesInv, NEW p \in Procs, Fanout(p)
    PROVE  \E f : Step(p, f)
  <1>1. CASE FanoutSelect(p)
    BY <1>1, SelectSourceStep DEF FanoutSelect, At
  <1> QED
    BY <1>1, FanoutLoadGenericStep, FanoutTargetsStep, FanoutInsertStep,
       FanoutRepointMenusStep, FanoutDeleteStep DEF Fanout

-----------------------------------------------------------------------------
\* The one-statement verbs.

\* create_page inserts a typed row, or answers a collision.
LEMMA CreateInsertStep ==
    ASSUME PagesInv, NEW p \in Procs, CreateInsert(p)
    PROVE  \E f : Step(p, f)
  <1> DEFINE f == tx[p]
             row == [key |-> f.key, scope |-> f.scope, url |-> f.url, published |-> FALSE,
                     tier |-> f.listing[1], indexed |-> f.listing[2],
                     forkedFrom |-> None, live |-> TRUE]
             new == Version(NewId(PageIds), row)
  <1>1. f \in Frame /\ Locals(f, View(p)) /\ f.pc = "create.insert" /\ Unused(PageIds) # {}
    BY DEF PagesInv, TypeOK, CreateInsert, At
  <1>2. row \in PageRow
    BY <1>1 DEF Locals, Frame, PageRow
  <1>3. WriteSet(new)
    BY <1>1, <1>2, FreshId, PageVersion
  <1>4. CASE Write(p, new) /\ Finish(p, f, "PageCreated")
    BY <1>1, <1>3, <1>4, FinishStep DEF StoreKeep, Answers
  <1>5. CASE Fail(p, "SpecificityConflict")
    BY <1>5, FailStep DEF Answers
  <1> QED
    BY <1>4, <1>5 DEF CreateInsert

\* An update of the live row the call names to a typed version.
LEMMA UpdateStep ==
    ASSUME PagesInv, NEW p \in Procs, NEW row, NEW done \in Answers, NEW missing \in Answers,
           tx[p].page \in LivePages(View(p)) => row \in PageRow,
           \/ /\ tx[p].page \in LivePages(View(p))
              /\ \/ Write(p, Version(tx[p].page, row)) /\ Finish(p, tx[p], done)
                 \/ Fail(p, "SpecificityConflict")
           \/ Fail(p, missing)
    PROVE  \E f : Step(p, f)
  <1>1. tx[p] \in Frame
    BY DEF PagesInv, TypeOK
  <1>2. CASE /\ tx[p].page \in LivePages(View(p))
             /\ Write(p, Version(tx[p].page, row)) /\ Finish(p, tx[p], done)
    <2>1. WriteSet(Version(tx[p].page, row))
      BY <1>2, PageVersion DEF LivePages
    <2> QED
      BY <1>1, <1>2, <2>1, FinishStep DEF StoreKeep
  <1>3. CASE Fail(p, "SpecificityConflict") \/ Fail(p, missing)
    BY <1>3, FailStep DEF Answers
  <1> QED
    BY <1>2, <1>3

\* patch_page writes a typed version of the row.
LEMMA PatchUpdateStep ==
    ASSUME PagesInv, NEW p \in Procs, PatchUpdate(p)
    PROVE  \E f : Step(p, f)
  <1> DEFINE f == tx[p]
             old == View(p)[f.page]
             row == [old EXCEPT !.url = IF f.url = None THEN @ ELSE f.url,
                                !.tier = IF f.listing = None THEN @ ELSE f.listing[1],
                                !.indexed = IF f.listing = None THEN @ ELSE f.listing[2]]
  <1>1. f \in Frame
    BY DEF PagesInv, TypeOK
  <1>2. ASSUME f.page \in LivePages(View(p))
        PROVE  row \in PageRow
    <2>1. old \in PageRow
      BY <1>2, SeenRows
    <2>2. f.url # None => f.url \in Urls
      BY <1>1 DEF Frame
    <2>3. f.listing # None => f.listing[1] \in Tiers /\ f.listing[2] \in BOOLEAN
      BY <1>1 DEF Frame
    <2> QED
      BY <2>1, <2>2, <2>3 DEF PageRow
  <1>3. \/ /\ f.page \in LivePages(View(p))
           /\ \/ Write(p, Version(f.page, row)) /\ Finish(p, f, "Patched")
              \/ Fail(p, "SpecificityConflict")
        \/ Fail(p, "Db")
    BY DEF PatchUpdate, UpdateLive, StampRefused
  <1> QED
    BY <1>2, <1>3, UpdateStep DEF Answers

\* publish writes a typed version of the row.
LEMMA PublishUpdateStep ==
    ASSUME PagesInv, NEW p \in Procs, PublishUpdate(p)
    PROVE  \E f : Step(p, f)
  <1> DEFINE row == [View(p)[tx[p].page] EXCEPT !.published = TRUE]
  <1>1. tx[p].page \in LivePages(View(p)) => row \in PageRow
    BY SeenRows DEF PageRow
  <1>2. \/ /\ tx[p].page \in LivePages(View(p))
           /\ \/ Write(p, Version(tx[p].page, row)) /\ Finish(p, tx[p], "Published")
              \/ Fail(p, "SpecificityConflict")
        \/ Fail(p, "NotFound")
    BY DEF PublishUpdate, UpdateLive
  <1> QED
    BY <1>1, <1>2, UpdateStep DEF Answers

\* unpublish writes a typed version of the row.
LEMMA UnpublishUpdateStep ==
    ASSUME PagesInv, NEW p \in Procs, UnpublishUpdate(p)
    PROVE  \E f : Step(p, f)
  <1> DEFINE row == [View(p)[tx[p].page] EXCEPT !.published = FALSE]
  <1>1. tx[p].page \in LivePages(View(p)) => row \in PageRow
    BY SeenRows DEF PageRow
  <1>2. \/ /\ tx[p].page \in LivePages(View(p))
           /\ \/ Write(p, Version(tx[p].page, row)) /\ Finish(p, tx[p], "Unpublished")
              \/ Fail(p, "SpecificityConflict")
        \/ Fail(p, "NotFound")
    BY DEF UnpublishUpdate, UpdateLive
  <1> QED
    BY <1>1, <1>2, UpdateStep DEF Answers

\* Every one-statement verb is a Step.
LEMMA EditStep ==
    ASSUME PagesInv, NEW p \in Procs, Edit(p)
    PROVE  \E f : Step(p, f)
  BY CreateInsertStep, PatchUpdateStep, PublishUpdateStep, UnpublishUpdateStep DEF Edit

-----------------------------------------------------------------------------
\* rename_page.

\* rename_page loads the url and the scope of a page that is there.
LEMMA RenameLoadStep ==
    ASSUME PagesInv, NEW p \in Procs, RenameLoad(p)
    PROVE  \E f : Step(p, f)
  <1> DEFINE v == View(p)
             old == v[tx[p].page]
             f == [tx[p] EXCEPT !.oldUrl = old.url, !.scope = old.scope]
  <1>1. tx[p] \in Frame /\ Locals(tx[p], v) /\ tx[p].pc = "rename.load"
    BY DEF PagesInv, TypeOK, RenameLoad, At
  <1>2. CASE tx[p].page \in LivePages(v) /\ Goto(p, f, "rename.move") /\ UNCHANGED storeVars
    <2>1. tx[p].page \in PageIds /\ old # NoRow /\ old \in PageRow
      BY <1>2, SeenRows
    <2>2. /\ f \in Frame
          /\ [f EXCEPT !.pc = "rename.move"].page = tx[p].page
          /\ [f EXCEPT !.pc = "rename.move"].url = tx[p].url
          /\ [f EXCEPT !.pc = "rename.move"].oldUrl = old.url
      BY <1>1, <2>1 DEF Frame, PageRow
    <2>3. Locals([f EXCEPT !.pc = "rename.move"], v)
      BY <1>1, <2>1, <2>2 DEF Locals, GenericLabels, Frame, PageRow
    <2> QED
      BY <1>2, <2>2, <2>3, GotoStep DEF StoreKeep, Labels
  <1>3. CASE Fail(p, "NotFound")
    BY <1>3, FailStep DEF Answers
  <1> QED
    BY <1>2, <1>3 DEF RenameLoad

\* The cascade goes on with the urls it has.
LEMMA RenameGoto ==
    ASSUME NEW p \in Procs, tx[p] \in Frame, StoreKeep(p),
           tx[p].url \in Urls, tx[p].oldUrl \in Urls,
           NEW label \in {"rename.menus", "rename.homepage", "rename.redirect"},
           label # "rename.redirect" => tx[p].scope \in Sites,
           Goto(p, tx[p], label)
    PROVE  \E f : Step(p, f)
  <1> DEFINE g == [tx[p] EXCEPT !.pc = label]
  <1>1. g.pc = label /\ g.url = tx[p].url /\ g.oldUrl = tx[p].oldUrl /\ g.scope = tx[p].scope
    BY DEF Frame
  <1>2. Locals(g, View(p))
    BY <1>1 DEF Locals, GenericLabels
  <1> QED
    BY <1>2, GotoStep DEF Labels

\* rename_page moves a row it has loaded, live or not by now.
LEMMA RenameMoveStep ==
    ASSUME PagesInv, NEW p \in Procs, RenameMove(p)
    PROVE  \E f : Step(p, f)
  <1> DEFINE row == [View(p)[tx[p].page] EXCEPT !.url = tx[p].url]
             new == Version(tx[p].page, row)
  <1>1. tx[p] \in Frame /\ Locals(tx[p], View(p)) /\ tx[p].pc = "rename.move"
    BY DEF PagesInv, TypeOK, RenameMove, At
  <1>2. /\ tx[p].page \in PageIds /\ View(p)[tx[p].page] # NoRow
        /\ tx[p].url \in Urls /\ tx[p].oldUrl \in Urls
    BY <1>1 DEF Locals
  <1>3. row \in PageRow
    BY <1>2, SeenRows DEF PageRow
  <1>4. Write(p, new) => StoreKeep(p)
    BY <1>2, <1>3, PageVersion DEF StoreKeep
  <1>5. CASE Write(p, new) /\ tx[p].scope # Generic /\ Goto(p, tx[p], "rename.menus")
    <2>1. tx[p].scope \in Sites
      BY <1>1, <1>5 DEF Frame, Scopes
    <2> QED
      BY <1>1, <1>2, <1>4, <1>5, <2>1, RenameGoto
  <1>6. CASE Write(p, new) /\ Goto(p, tx[p], "rename.redirect")
    BY <1>1, <1>2, <1>4, <1>6, RenameGoto
  <1>7. CASE Fail(p, "SpecificityConflict")
    BY <1>7, FailStep DEF Answers
  <1> QED
    BY <1>5, <1>6, <1>7 DEF RenameMove

\* rename_page re-labels the menus of the website.
LEMMA RenameMenusStep ==
    ASSUME PagesInv, NEW p \in Procs, RenameMenus(p)
    PROVE  \E f : Step(p, f)
  <1> DEFINE v == View(p)
             literal == {m \in LiveMenus(v) : v[m].site = tx[p].scope /\ v[m].url = tx[p].oldUrl}
             w == [m \in literal |-> [v[m] EXCEPT !.url = tx[p].url]]
  <1>1. tx[p] \in Frame /\ Locals(tx[p], v) /\ tx[p].pc = "rename.menus"
    BY DEF PagesInv, TypeOK, RenameMenus, At
  <1>2. tx[p].url \in Urls /\ tx[p].oldUrl \in Urls /\ tx[p].scope \in Sites
    BY <1>1 DEF Locals
  <1>3. Write(p, w) /\ Goto(p, tx[p], "rename.homepage")
    BY DEF RenameMenus
  <1>4. WriteSet(w)
    BY <1>2, SeenRows, MenuVersions DEF MenuRow
  <1> QED
    BY <1>1, <1>2, <1>3, <1>4, RenameGoto DEF StoreKeep

\* rename_page moves the homepage of the website.
LEMMA RenameHomepageStep ==
    ASSUME PagesInv, NEW p \in Procs, RenameHomepage(p)
    PROVE  \E f : Step(p, f)
  <1> DEFINE v == View(p)
             home == {x \in {tx[p].scope} : v[x] # NoRow /\ v[x].homepage = tx[p].oldUrl}
             w == [x \in home |-> [v[x] EXCEPT !.homepage = tx[p].url]]
  <1>1. tx[p] \in Frame /\ Locals(tx[p], v) /\ tx[p].pc = "rename.homepage"
    BY DEF PagesInv, TypeOK, RenameHomepage, At
  <1>2. tx[p].url \in Urls /\ tx[p].oldUrl \in Urls /\ tx[p].scope \in Sites
    BY <1>1 DEF Locals
  <1>3. Write(p, w) /\ Goto(p, tx[p], "rename.redirect")
    BY DEF RenameHomepage
  <1>4. WriteSet(w)
    BY <1>2, SeenRows, SiteVersions DEF SiteRow
  <1> QED
    BY <1>1, <1>2, <1>3, <1>4, RenameGoto DEF StoreKeep

\* rename_page leaves a redirect, or fails for want of a website.
LEMMA RenameRedirectStep ==
    ASSUME PagesInv, NEW p \in Procs, RenameRedirect(p)
    PROVE  \E f : Step(p, f)
  <1> DEFINE rule == [site |-> tx[p].scope, from |-> tx[p].oldUrl, to |-> tx[p].url, live |-> TRUE]
             new == Version(NewId(RedirectIds), rule)
  <1>1. tx[p] \in Frame /\ Locals(tx[p], View(p)) /\ tx[p].pc = "rename.redirect"
    BY DEF PagesInv, TypeOK, RenameRedirect, At
  <1>2. CASE Finish(p, tx[p], "Renamed") /\ UNCHANGED storeVars
    BY <1>1, <1>2, FinishStep DEF StoreKeep, Answers
  <1>3. CASE Fail(p, "InvalidInput") \/ Fail(p, "Db")
    BY <1>3, FailStep DEF Answers
  <1>4. CASE /\ tx[p].scope # Generic /\ Unused(RedirectIds) # {}
             /\ Write(p, new) \/ Refused(p, new)
             /\ Finish(p, tx[p], "Renamed")
    <2>1. rule \in RedirectRow
      BY <1>1, <1>4 DEF Locals, Frame, Scopes, RedirectRow
    <2>2. WriteSet(new)
      BY <1>4, <2>1, FreshId, RedirectVersion
    <2> QED
      BY <1>1, <1>4, <2>2, FinishStep DEF StoreKeep, Refused, Answers
  <1> QED
    BY <1>2, <1>3, <1>4 DEF RenameRedirect

\* Every statement of rename_page is a Step.
LEMMA RenameStep ==
    ASSUME PagesInv, NEW p \in Procs, Rename(p)
    PROVE  \E f : Step(p, f)
  BY RenameLoadStep, RenameMoveStep, RenameMenusStep, RenameHomepageStep,
     RenameRedirectStep DEF Rename

-----------------------------------------------------------------------------
\* delete_specific.

\* delete_specific loads a live specific page.
LEMMA DeleteLoadStep ==
    ASSUME PagesInv, NEW p \in Procs, DeleteLoad(p)
    PROVE  \E f : Step(p, f)
  <1> DEFINE v == View(p)
             f == [tx[p] EXCEPT !.key = v[tx[p].page].key]
  <1>1. tx[p] \in Frame
    BY DEF PagesInv, TypeOK
  <1>2. CASE tx[p].page \in LivePages(v) /\ Goto(p, f, "delete.tombstone") /\ UNCHANGED storeVars
    <2>1. /\ tx[p].page \in PageIds /\ v[tx[p].page] # NoRow
          /\ v[tx[p].page].key \in Keys
      BY <1>2, SeenRows DEF PageRow
    <2>2. /\ f \in Frame
          /\ [f EXCEPT !.pc = "delete.tombstone"].page = tx[p].page
      BY <1>1, <2>1 DEF Frame
    <2>3. Locals([f EXCEPT !.pc = "delete.tombstone"], v)
      BY <2>1, <2>2 DEF Locals, GenericLabels, Frame
    <2> QED
      BY <1>2, <2>2, <2>3, GotoStep DEF StoreKeep, Labels
  <1>3. CASE Fail(p, "NotFound") \/ Fail(p, "GenericRequiresFanoutVerb")
    BY <1>3, FailStep DEF Answers
  <1> QED
    BY <1>2, <1>3 DEF DeleteLoad

\* Labels that rely on nothing.
LEMMA FreeGoto ==
    ASSUME NEW p \in Procs, tx[p] \in Frame, StoreKeep(p),
           NEW label \in {"delete.generic", "delete.unbind"}, Goto(p, tx[p], label)
    PROVE  \E f : Step(p, f)
  <1>1. [tx[p] EXCEPT !.pc = label].pc = label
    BY DEF Frame
  <1>2. Locals([tx[p] EXCEPT !.pc = label], View(p))
    BY <1>1 DEF Locals, GenericLabels
  <1> QED
    BY <1>2, GotoStep DEF Labels

\* delete_specific stamps the page it has loaded, or is refused the stamp.
LEMMA DeleteTombstoneStep ==
    ASSUME PagesInv, NEW p \in Procs, DeleteTombstone(p)
    PROVE  \E f : Step(p, f)
  <1>1. tx[p] \in Frame /\ Locals(tx[p], View(p)) /\ tx[p].pc = "delete.tombstone"
    BY DEF PagesInv, TypeOK, DeleteTombstone, At
  <1>2. CASE Tombstone(p, tx[p].page) /\ Goto(p, tx[p], "delete.generic")
    <2>1. StoreKeep(p)
      BY <1>1, <1>2, TombstoneKeep DEF Locals
    <2> QED
      BY <1>1, <1>2, <2>1, FreeGoto
  <1>3. CASE StampRefused(p)
    BY <1>3, FailStep DEF StampRefused, Answers
  <1> QED
    BY <1>2, <1>3 DEF DeleteTombstone

\* delete_specific looks for the generic to fall back to.
LEMMA DeleteLoadGenericStep ==
    ASSUME PagesInv, NEW p \in Procs, DeleteLoadGeneric(p)
    PROVE  \E f : Step(p, f)
  <1> DEFINE v == View(p)
             found == ResolveGeneric(v, tx[p].key)
  <1>1. tx[p] \in Frame /\ StoreKeep(p)
    BY DEF PagesInv, TypeOK, DeleteLoadGeneric, StoreKeep
  <1>2. CASE \E g \in found : Goto(p, [tx[p] EXCEPT !.generic = g], "delete.repoint")
    <2>1. PICK g \in found : Goto(p, [tx[p] EXCEPT !.generic = g], "delete.repoint")
      BY <1>2
    <2>2. g \in PageIds /\ v[g] # NoRow
      BY Loaders DEF LivePages
    <2> DEFINE f == [tx[p] EXCEPT !.generic = g]
    <2>3. f \in Frame /\ [f EXCEPT !.pc = "delete.repoint"].generic = g
      BY <1>1, <2>2 DEF Frame
    <2>4. Locals([f EXCEPT !.pc = "delete.repoint"], v)
      BY <2>2, <2>3 DEF Locals, Frame
    <2> QED
      BY <1>1, <2>1, <2>3, <2>4, GotoStep DEF Labels
  <1>3. CASE Goto(p, tx[p], "delete.unbind")
    BY <1>1, <1>3, FreeGoto
  <1> QED
    BY <1>2, <1>3 DEF DeleteLoadGeneric

\* Binding the menus of the deleted page elsewhere keeps the store typed.
LEMMA RebindKeep ==
    ASSUME PagesInv, NEW p \in Procs, NEW target \in PageIds \cup {None}, Rebind(p, target)
    PROVE  StoreKeep(p)
  <1> DEFINE v == View(p)
             bound == {m \in LiveMenus(v) : v[m].page = tx[p].page}
             w == [m \in bound |-> [v[m] EXCEPT !.page = target]]
  <1>1. WriteSet(w)
    BY SeenRows, MenuVersions DEF MenuRow
  <1> QED
    BY <1>1 DEF Rebind, StoreKeep

\* delete_specific binds the menus to the generic it read.
LEMMA DeleteRepointStep ==
    ASSUME PagesInv, NEW p \in Procs, DeleteRepoint(p)
    PROVE  \E f : Step(p, f)
  <1>1. tx[p] \in Frame /\ Locals(tx[p], View(p)) /\ tx[p].pc = "delete.repoint"
    BY DEF PagesInv, TypeOK, DeleteRepoint, At
  <1>2. StoreKeep(p)
    BY <1>1, RebindKeep DEF DeleteRepoint, Locals, GenericLabels
  <1> QED
    BY <1>1, <1>2, FreeGoto DEF DeleteRepoint

\* delete_specific takes the binding from the menus that are left.
LEMMA DeleteUnbindStep ==
    ASSUME PagesInv, NEW p \in Procs, DeleteUnbind(p)
    PROVE  \E f : Step(p, f)
  <1>1. tx[p] \in Frame /\ StoreKeep(p)
    BY RebindKeep DEF PagesInv, TypeOK, DeleteUnbind
  <1> QED
    BY <1>1, FinishStep DEF DeleteUnbind, Answers

\* Every statement of delete_specific is a Step.
LEMMA DeleteStep ==
    ASSUME PagesInv, NEW p \in Procs, Delete(p)
    PROVE  \E f : Step(p, f)
  BY DeleteLoadStep, DeleteTombstoneStep, DeleteLoadGenericStep, DeleteRepointStep,
     DeleteUnbindStep DEF Delete

-----------------------------------------------------------------------------
\* Requests, commits and failures.

\* A call starts with typed locals that rely on nothing yet.
LEMMA BeginStep ==
    ASSUME NEW p \in Procs, NEW verb, NEW label, NEW frame, Begin(p, verb, label, frame),
           [frame EXCEPT !.pc = label] \in Frame,
           Locals([frame EXCEPT !.pc = label], View(p))
    PROVE  \E g : Step(p, g)
  <1>1. Step(p, [frame EXCEPT !.pc = label])
    BY DEF Begin, Goto, Step, StoreKeep
  <1> QED
    BY <1>1

\* Every verb starts with a Step.
LEMMA StartStep ==
    ASSUME PagesInv, NEW p \in Procs, Start(p)
    PROVE  \E f : Step(p, f)
  <1> DEFINE v == View(p)
             idle == Idle("none")
  <1>1. \A i \in Sites : i \in Scopes
    BY DEF Scopes
  <1>2. CASE BeginFork(p)
    <2>1. PICK k \in Keys, w \in {x \in Sites : db[x] # NoRow} :
            Begin(p, "fork", "fork.resolve", [idle EXCEPT !.key = k, !.scope = w])
      BY <1>2 DEF BeginFork
    <2> DEFINE f == [[idle EXCEPT !.key = k, !.scope = w] EXCEPT !.pc = "fork.resolve"]
    <2>2. f \in Frame /\ Locals(f, v)
      BY <1>1 DEF Idle, Frame, Labels, Locals, GenericLabels, Answers, Scopes
    <2> QED
      BY <2>1, <2>2, BeginStep
  <1>3. CASE BeginFanout(p)
    <2>1. PICK k \in Keys, a \in Actors :
            Begin(p, "fanout", "fanout.generic", [idle EXCEPT !.key = k, !.actor = a])
      BY <1>3 DEF BeginFanout
    <2> DEFINE f == [[idle EXCEPT !.key = k, !.actor = a] EXCEPT !.pc = "fanout.generic"]
    <2>2. f \in Frame /\ Locals(f, v)
      BY ActorsAssumption DEF Idle, Frame, Labels, Locals, GenericLabels, Answers, Scopes
    <2> QED
      BY <2>1, <2>2, BeginStep
  <1>4. CASE BeginCreate(p)
    <2>1. PICK k \in Keys, u \in Urls, l \in Listings, s \in Scopes :
            Begin(p, "create", "create.insert", [idle EXCEPT !.key = k, !.scope = s, !.url = u,
                                                        !.listing = l])
      BY <1>4 DEF BeginCreate
    <2> DEFINE f == [[idle EXCEPT !.key = k, !.scope = s, !.url = u,
                                  !.listing = l] EXCEPT !.pc = "create.insert"]
    <2>2. l \in Tiers \X BOOLEAN
      BY ListingsAssumption
    <2>3. f \in Frame /\ Locals(f, v)
      BY <2>2 DEF Idle, Frame, Labels, Locals, GenericLabels, Answers
    <2> QED
      BY <2>1, <2>3, BeginStep
  <1>5. CASE BeginPatch(p)
    <2>1. PICK i \in {x \in PageIds : db[x] # NoRow}, u \in Urls \cup {None},
               l \in Listings \cup {None}, a \in Actors :
            Begin(p, "patch", "patch.update", [idle EXCEPT !.page = i, !.url = u, !.listing = l,
                                                      !.actor = a])
      BY <1>5 DEF BeginPatch
    <2> DEFINE f == [[idle EXCEPT !.page = i, !.url = u, !.listing = l,
                                  !.actor = a] EXCEPT !.pc = "patch.update"]
    <2>2. l \in Tiers \X BOOLEAN \cup {None} /\ a \in {"officer", "system"}
      BY ListingsAssumption, ActorsAssumption
    <2>3. f \in Frame /\ Locals(f, v)
      BY <2>2 DEF Idle, Frame, Labels, Locals, GenericLabels, Answers, Scopes
    <2> QED
      BY <2>1, <2>3, BeginStep
  <1>6. CASE BeginPublish(p)
    <2>1. PICK i \in {x \in PageIds : db[x] # NoRow} :
            \/ Begin(p, "publish", "publish.update", [idle EXCEPT !.page = i])
            \/ Begin(p, "unpublish", "unpublish.update", [idle EXCEPT !.page = i])
      BY <1>6 DEF BeginPublish
    <2> DEFINE f == [[idle EXCEPT !.page = i] EXCEPT !.pc = "publish.update"]
               g == [[idle EXCEPT !.page = i] EXCEPT !.pc = "unpublish.update"]
    <2>2. f \in Frame /\ Locals(f, v)
      BY DEF Idle, Frame, Labels, Locals, GenericLabels, Answers, Scopes
    <2>3. g \in Frame /\ Locals(g, v)
      BY DEF Idle, Frame, Labels, Locals, GenericLabels, Answers, Scopes
    <2> QED
      BY <2>1, <2>2, <2>3, BeginStep
  <1>7. CASE BeginRename(p)
    <2>1. PICK i \in {x \in PageIds : db[x] # NoRow}, u \in Urls, r \in {"no", "moved", "bad"} :
            Begin(p, "rename", "rename.load", [idle EXCEPT !.page = i, !.url = u, !.redirect = r])
      BY <1>7 DEF BeginRename
    <2> DEFINE f == [[idle EXCEPT !.page = i, !.url = u, !.redirect = r] EXCEPT !.pc = "rename.load"]
    <2>2. f \in Frame /\ Locals(f, v)
      BY DEF Idle, Frame, Labels, Locals, GenericLabels, Answers, Scopes
    <2> QED
      BY <2>1, <2>2, BeginStep
  <1>8. CASE BeginDelete(p)
    <2>1. PICK i \in {x \in PageIds : db[x] # NoRow}, a \in Actors :
            Begin(p, "delete", "delete.load", [idle EXCEPT !.page = i, !.actor = a])
      BY <1>8 DEF BeginDelete
    <2> DEFINE f == [[idle EXCEPT !.page = i, !.actor = a] EXCEPT !.pc = "delete.load"]
    <2>2. f \in Frame /\ Locals(f, v)
      BY ActorsAssumption DEF Idle, Frame, Labels, Locals, GenericLabels, Answers, Scopes
    <2> QED
      BY <2>1, <2>2, BeginStep
  <1> QED
    BY <1>2, <1>3, <1>4, <1>5, <1>6, <1>7, <1>8 DEF Start

\* A commit is a Step: the answer is typed and the write set becomes visible.
LEMMA CommitStep ==
    ASSUME PagesInv, NEW p \in Procs, Commit(p)
    PROVE  \E f : Step(p, f)
  <1>1. tx[p].answer \in Answers
    BY DEF PagesInv, TypeOK, Frame
  <1>2. Step(p, Idle(tx[p].answer))
    BY <1>1, IdleFrame DEF Commit, Step, StoreKeep
  <1> QED
    BY <1>2

\* A lost connection is a Step: a rollback and idle locals.
LEMMA AbortStep ==
    ASSUME NEW p \in Procs, Abort(p)
    PROVE  \E f : Step(p, f)
  BY FailStep DEF Abort, Answers

\* The bound on calls is kept: only a start spends one.
LEMMA CallsTyped ==
    ASSUME calls \in 0 .. MaxCalls, NEW p \in Procs,
           Start(p) \/ Fork(p) \/ Fanout(p) \/ Edit(p) \/ Rename(p) \/ Delete(p)
             \/ Commit(p) \/ Abort(p)
    PROVE  calls' \in 0 .. MaxCalls
  <1>1. CASE Start(p)
    <2>1. calls > 0 /\ calls' = calls - 1
      <3>1. CASE BeginFork(p)
        BY <3>1 DEF Begin, BeginFork
      <3>2. CASE BeginFanout(p)
        BY <3>2 DEF Begin, BeginFanout
      <3>3. CASE BeginCreate(p)
        BY <3>3 DEF Begin, BeginCreate
      <3>4. CASE BeginPatch(p)
        BY <3>4 DEF Begin, BeginPatch
      <3>5. CASE BeginPublish(p)
        BY <3>5 DEF Begin, BeginPublish
      <3>6. CASE BeginRename(p)
        BY <3>6 DEF Begin, BeginRename
      <3>7. CASE BeginDelete(p)
        BY <3>7 DEF Begin, BeginDelete
      <3> QED
        BY <1>1, <3>1, <3>2, <3>3, <3>4, <3>5, <3>6, <3>7 DEF Start
    <2> QED
      BY <2>1, MaxCallsAssumption
  <1>2. CASE ~Start(p)
    BY <1>2 DEF Fork, ForkResolve, ForkConfirm, ForkLoadGeneric, ForkSelect, ForkInsert,
       ForkReselect, ForkRepointMenus, Fanout, FanoutLoadGeneric, FanoutTargets,
       FanoutSelect, FanoutInsert, FanoutRepointMenus, FanoutDelete, Edit, CreateInsert,
       PatchUpdate, PublishUpdate, UnpublishUpdate, Rename, RenameLoad, RenameMove,
       RenameMenus, RenameHomepage, RenameRedirect, Delete, DeleteLoad, DeleteTombstone,
       DeleteLoadGeneric, DeleteRepoint, DeleteUnbind, Commit, Abort, At
  <1> QED
    BY <1>1, <1>2

-----------------------------------------------------------------------------
\* The invariant and what it gives.

\* The invariant holds of every starting catalog.
LEMMA InitInv == Init => PagesInv
  <1> SUFFICES ASSUME Init PROVE PagesInv
    OBVIOUS
  <1>1. TableState(db) /\ CollisionFree(db)
    BY CatalogsAssumption DEF Init
  <1>2. \A p \in Procs : ws[p] = NoWrites
    BY DEF Init
  <1>3. StoreTypeOK
    <2>1. ws \in [Procs -> [Id -> Row \cup {NoRow}]]
      BY EmptyTable DEF Init, TableState
    <2> QED
      BY <1>1, <1>2, <2>1, EmptyTable DEF StoreTypeOK
  <1>4. \A p \in Procs : View(p) = [i \in Id |-> db[i]]
    BY <1>2 DEF View, NoWrites
  <1>5. IndexesSafe /\ LocksExclusive
    BY <1>1, <1>2, <1>4, NoRowCollidesNot DEF IndexesSafe, LocksExclusive, CollisionFree, NoWrites
  <1>6. "none" \in Answers
    BY DEF Answers
  <1>7. tx \in [Procs -> Frame] /\ \A p \in Procs : Locals(tx[p], View(p))
    BY <1>6, IdleFrame DEF Init
  <1>8. calls \in 0 .. MaxCalls
    BY MaxCallsAssumption DEF Init
  <1> QED
    BY <1>3, <1>5, <1>7, <1>8 DEF PagesInv, TypeOK

\* Every step of every request keeps the invariant.
LEMMA NextInv == PagesInv /\ [Next]_vars => PagesInv'
  <1> SUFFICES ASSUME PagesInv, [Next]_vars PROVE PagesInv'
    OBVIOUS
  <1>1. CASE Next
    <2>1. PICK p \in Procs : Start(p) \/ Fork(p) \/ Fanout(p) \/ Edit(p) \/ Rename(p)
                             \/ Delete(p) \/ Commit(p) \/ Abort(p)
      BY <1>1 DEF Next
    <2>2. \E f : Step(p, f)
      BY <2>1, StartStep, ForkStep, FanoutStep, EditStep, RenameStep, DeleteStep,
         CommitStep, AbortStep
    <2>3. calls' \in 0 .. MaxCalls
      BY <2>1, CallsTyped DEF PagesInv, TypeOK
    <2> QED
      BY <2>2, <2>3, StepKeepsInv
  <1>2. CASE UNCHANGED vars
    BY <1>2 DEF vars, PagesInv, TypeOK, StoreTypeOK, TableState, LocksExclusive,
                IndexesSafe, CollisionFree, View
  <1> QED
    BY <1>1, <1>2

\* The inductive invariant holds in every behaviour: typed tables and locals, exclusive
\* row locks, and no unique index of the hardening migration ever violated.
THEOREM Invariance == Spec => []PagesInv
  BY InitInv, NextInv, PTL DEF Spec

\* Every variable keeps its shape.
THEOREM TypeCorrect == Spec => []TypeOK
  <1>1. PagesInv => TypeOK
    BY DEF PagesInv
  <1> QED
    BY <1>1, Invariance, PTL

\* In a collision-free table state a key or a url has one answer on a website.
LEMMA OneAnswer ==
    ASSUME NEW t, CollisionFree(t)
    PROVE  /\ \A k \in Keys : AtMostOne(ResolveGeneric(t, k))
           /\ \A w \in Sites :
                /\ \A k \in Keys : AtMostOne(ResolveSpecific(t, k, w))
                /\ \A u \in Urls : AtMostOne(ResolvePageByUrl(t, u, w))
  <1>1. ASSUME NEW i \in LivePages(t), NEW j \in LivePages(t), t[i].scope = t[j].scope,
               t[i].key = t[j].key \/ t[i].url = t[j].url
        PROVE  i = j
    BY <1>1 DEF CollisionFree, Collide, SameSpecificity, SameUrlScope, LivePages, Id
  <1>2. \A S, w : \A i, j \in PreferSpecific(t, S, w) : i \in S /\ j \in S /\ t[i].scope = t[j].scope
    BY DEF PreferSpecific
  <1>3. ASSUME NEW k \in Keys
        PROVE  AtMostOne(ResolveGeneric(t, k))
    BY <1>1 DEF AtMostOne, ResolveGeneric
  <1>4. ASSUME NEW w \in Sites, NEW k \in Keys
        PROVE  AtMostOne(ResolveSpecific(t, k, w))
    <2> DEFINE S == {i \in LiveScope(t, w) : t[i].key = k}
    <2>1. \A i \in S : i \in LivePages(t) /\ t[i].key = k
      BY DEF LiveScope
    <2> QED
      BY <1>1, <1>2, <2>1 DEF AtMostOne, ResolveSpecific
  <1>5. ASSUME NEW w \in Sites, NEW u \in Urls
        PROVE  AtMostOne(ResolvePageByUrl(t, u, w))
    <2> DEFINE S == {i \in LiveScope(t, w) : t[i].url = u}
    <2>1. \A i \in S : i \in LivePages(t) /\ t[i].url = u
      BY DEF LiveScope
    <2> QED
      BY <1>1, <1>2, <2>1 DEF AtMostOne, ResolvePageByUrl
  <1> QED
    BY <1>3, <1>4, <1>5

\* The resolver's fold is deterministic, in the committed state and in every open
\* transaction: the LIMIT 1 of specificity.rs never picks between two rows.
THEOREM DeterministicFold == Spec => []FoldDeterministic
  <1>1. PagesInv => FoldDeterministic
    <2> SUFFICES ASSUME PagesInv PROVE FoldDeterministic
      OBVIOUS
    <2>1. \A t \in {db} \cup {View(p) : p \in Procs} : CollisionFree(t)
      BY DEF PagesInv, IndexesSafe
    <2> QED
      BY <2>1, OneAnswer DEF FoldDeterministic
  <1> QED
    BY <1>1, Invariance, PTL

-----------------------------------------------------------------------------
\* What the versions of a row have in common, through every verb.

\* A new version of a row stays in the table's place of the old one, and dead if it was.
Descends(i, old, new) ==
    /\ new.live => old.live
    /\ i \in PageIds => new.scope = old.scope /\ new.forkedFrom = old.forkedFrom
    /\ i \in MenuIds => new.site = old.site

\* A pending version descends from the committed one.
Lineage ==
    \A p \in Procs, i \in PageIds \cup MenuIds :
        db[i] # NoRow /\ ws[p][i] # NoRow => Descends(i, db[i], ws[p][i])

\* The handler with locals f is about to answer that it published page i.
Publishes(f, i) == f.pc = "commit" /\ f.answer = "Published" /\ f.page = i

\* A pending page is published because it was, because its call publishes it, or as a copy.
Fenced(p) ==
    \A i \in PageIds : ws[p][i] # NoRow /\ ws[p][i].published =>
        \/ db[i] # NoRow /\ db[i].published
        \/ Publishes(tx[p], i)
        \/ db[i] = NoRow /\ ws[p][i].forkedFrom # None

\* The page that a handler is about to bind menus to is in the scope it takes it for.
Scoped(f, v) ==
    /\ f.pc = "fork.menus" => v[f.page] # NoRow /\ v[f.page].scope = f.scope
    /\ f.pc = "delete.repoint" => v[f.generic].scope = Generic

\* The inductive invariant of what a row keeps.
LineageInv ==
    /\ PagesInv /\ Lineage
    /\ BoundLocally(db)
    /\ \A p \in Procs : BoundLocally(View(p)) /\ Fenced(p) /\ Scoped(tx[p], View(p))

\* A write of p that makes honest versions of what p sees, p going on with the locals g.
TameWrite(p, w, g) ==
    LET v == View(p) IN
    \A i \in DOMAIN w :
        /\ v[i] # NoRow => Descends(i, v[i], w[i])
        /\ i \in PageIds /\ w[i].published =>
             \/ v[i] # NoRow /\ v[i].published
             \/ Publishes(g, i)
             \/ v[i] = NoRow /\ w[i].forkedFrom # None
        /\ i \in MenuIds /\ w[i].live /\ w[i].page # None =>
             \/ v[i] # NoRow /\ w[i].page = v[i].page
             \/ v[w[i].page] # NoRow /\ v[w[i].page].scope \in {w[i].site, Generic}

\* A step of p that writes nothing else; from its last statement only the end is left.
TameStep(p) ==
    /\ Scoped(tx'[p], View(p))
    /\ tx[p].pc = "commit" => CommitTx(p) \/ RollbackTx(p)
    /\ \/ UNCHANGED storeVars
       \/ \E w : WriteSet(w) /\ Write(p, w) /\ TameWrite(p, w, tx'[p])
       \/ Commit(p)
       \/ RollbackTx(p) /\ tx'[p].pc = "idle"

\* Versions of one row that descend from one another.
LEMMA DescendsTransitive ==
    ASSUME NEW i, NEW r, NEW s, NEW t, Descends(i, r, s), Descends(i, s, t)
    PROVE  Descends(i, r, t)
  BY DEF Descends

\* A page that a transaction sees stays visible to it, in its scope, until it rolls back.
LEMMA ScopesStay ==
    ASSUME LineageInv, NEW p \in Procs, NEW q \in Procs, NEW i \in PageIds, View(q)[i] # NoRow,
           \/ UNCHANGED storeVars
           \/ \E w : WriteSet(w) /\ Write(p, w) /\ TameWrite(p, w, tx'[p])
           \/ CommitTx(p)
           \/ RollbackTx(p) /\ q # p
    PROVE  View(q)'[i] # NoRow /\ View(q)'[i].scope = View(q)[i].scope
  <1>1. StoreTypeOK /\ Lineage /\ LocksExclusive /\ i \in Id
    BY DEF LineageInv, PagesInv, TypeOK, Id
  <1>2. \A x \in Procs : View(x)[i] = IF ws[x][i] # NoRow THEN ws[x][i] ELSE db[i]
    BY <1>1 DEF View
  <1>3. CASE UNCHANGED storeVars
    BY <1>3 DEF storeVars, View
  <1>4. CASE \E w : WriteSet(w) /\ Write(p, w) /\ TameWrite(p, w, tx'[p])
    <2>1. PICK w : WriteSet(w) /\ Write(p, w) /\ TameWrite(p, w, tx'[p])
      BY <1>4
    <2>2. View(q)'[i] = IF q = p /\ i \in DOMAIN w THEN w[i] ELSE View(q)[i]
      BY <1>1, <2>1, WriteEffect
    <2>3. i \in DOMAIN w /\ q = p => w[i] # NoRow /\ Descends(i, View(q)[i], w[i])
      BY <2>1 DEF WriteSet, TameWrite
    <2> QED
      BY <2>2, <2>3 DEF Descends
  <1>5. CASE CommitTx(p)
    <2>1. View(q)'[i] = IF q = p \/ ws[q][i] = NoRow THEN View(p)[i] ELSE ws[q][i]
      BY <1>1, <1>5, CommitEffect
    <2>2. ws[q][i] = NoRow => db[i] # NoRow
      BY <1>2
    <2>3. ws[p][i] # NoRow /\ db[i] # NoRow => Descends(i, db[i], ws[p][i])
      BY <1>1 DEF Lineage
    <2> QED
      BY <1>2, <2>1, <2>2, <2>3 DEF Descends
  <1>6. CASE RollbackTx(p) /\ q # p
    BY <1>1, <1>6, RollbackEffect
  <1> QED
    BY <1>3, <1>4, <1>5, <1>6

\* A step of one request keeps the lineage of every row.
LEMMA LineageStep ==
    ASSUME LineageInv, NEW p \in Procs, TameStep(p)
    PROVE  Lineage'
  <1> SUFFICES ASSUME NEW q \in Procs, NEW i \in PageIds \cup MenuIds,
                      db'[i] # NoRow, ws'[q][i] # NoRow
               PROVE  Descends(i, db'[i], ws'[q][i])
    BY DEF Lineage
  <1>1. StoreTypeOK /\ LocksExclusive /\ i \in Id
        /\ (db[i] # NoRow /\ ws[q][i] # NoRow => Descends(i, db[i], ws[q][i]))
    BY DEF LineageInv, Lineage, PagesInv, TypeOK, Id
  <1>2. View(p)[i] = IF ws[p][i] # NoRow THEN ws[p][i] ELSE db[i]
    BY <1>1 DEF View
  <1>3. CASE UNCHANGED storeVars
    BY <1>1, <1>3 DEF storeVars
  <1>4. CASE \E w : WriteSet(w) /\ Write(p, w) /\ TameWrite(p, w, tx'[p])
    <2>1. PICK w : WriteSet(w) /\ Write(p, w) /\ TameWrite(p, w, tx'[p])
      BY <1>4
    <2>2. db' = db /\ ws'[q][i] = IF q = p /\ i \in DOMAIN w THEN w[i] ELSE ws[q][i]
      BY <1>1, <2>1, WriteEffect
    <2>3. i \in DOMAIN w /\ View(p)[i] # NoRow => Descends(i, View(p)[i], w[i])
      BY <2>1 DEF TameWrite
    <2> QED
      BY <1>1, <1>2, <2>2, <2>3, DescendsTransitive
  <1>5. CASE CommitTx(p)
    <2>1. db' = View(p) /\ ws'[q][i] = IF q = p THEN NoRow ELSE ws[q][i]
      BY <1>1, <1>5, CommitEffect
    <2>2. q # p /\ ws[q][i] # NoRow => ws[p][i] = NoRow
      BY <1>1 DEF LocksExclusive
    <2> QED
      BY <1>1, <1>2, <2>1, <2>2
  <1>6. CASE RollbackTx(p)
    BY <1>1, <1>6, RollbackEffect
  <1> QED
    BY <1>3, <1>4, <1>5, <1>6 DEF TameStep, Commit

\* Bindings stay local in a table state t2 whose menus are those of t1, or bound afresh.
LEMMA BindingsKept ==
    ASSUME NEW t1, NEW t2, BoundLocally(t1), TableState(t2),
           \A i \in PageIds : t1[i] # NoRow => t2[i] # NoRow /\ t2[i].scope = t1[i].scope,
           \A m \in LiveMenus(t2), i \in PageIds : t2[m].page = i =>
               \/ t1[m] = t2[m]
               \/ m \in LiveMenus(t1) /\ t1[m].site = t2[m].site /\ t1[m].page = i
               \/ t1[i] # NoRow /\ t1[i].scope \in {t2[m].site, Generic}
    PROVE  BoundLocally(t2)
  <1> SUFFICES ASSUME NEW m \in LiveMenus(t2), t2[m].page # None
               PROVE  t2[t2[m].page] # NoRow /\ t2[t2[m].page].scope \in {t2[m].site, Generic}
    BY DEF BoundLocally
  <1>1. m \in MenuIds /\ t2[m] \in MenuRow /\ t2[m].page \in PageIds
    BY RowOfTable DEF LiveMenus, Id, MenuRow
  <1>2. t1[t2[m].page] # NoRow /\ t1[t2[m].page].scope \in {t2[m].site, Generic}
    BY <1>1 DEF BoundLocally, LiveMenus
  <1> QED
    BY <1>1, <1>2

\* Table states that agree row by row bind their menus alike.
LEMMA BoundAlike ==
    ASSUME NEW t1, NEW t2, BoundLocally(t1), TableState(t2), \A i \in Id : t2[i] = t1[i]
    PROVE  BoundLocally(t2)
  <1>1. \A i \in PageIds \cup MenuIds : t2[i] = t1[i]
    BY DEF Id
  <1>2. \A i \in PageIds : t1[i] # NoRow => t2[i] # NoRow /\ t2[i].scope = t1[i].scope
    BY <1>1
  <1>3. \A m \in LiveMenus(t2) : t1[m] = t2[m]
    BY <1>1 DEF LiveMenus
  <1> QED
    BY <1>2, <1>3, BindingsKept

\* A step of one request keeps every binding local, for every reader.
LEMMA BoundStep ==
    ASSUME LineageInv, NEW p \in Procs, TameStep(p)
    PROVE  BoundLocally(db)' /\ \A q \in Procs : BoundLocally(View(q))'
  <1>1. StoreTypeOK /\ Lineage /\ LocksExclusive /\ BoundLocally(db)
        /\ \A q \in Procs : BoundLocally(View(q))
    BY DEF LineageInv, PagesInv, TypeOK
  <1>2. TableState(db') /\ \A q \in Procs : TableState(View(q)')
    <2>1. StoreInv'
      BY StoreStepSafe DEF LineageInv, PagesInv, TypeOK, StoreInv, TameStep, Commit, StoreStep,
                           StoreKeep
    <2>2. TableState(db') /\ \A q \in Procs : TableState(ws'[q])
      BY <2>1 DEF StoreInv, StoreTypeOK
    <2>3. ASSUME NEW q \in Procs
          PROVE  TableState(View(q)')
      <3>1. \A i \in Id : View(q)'[i] = IF ws'[q][i] # NoRow THEN ws'[q][i] ELSE db'[i]
        BY DEF View
      <3>2. View(q)' = [i \in Id |-> IF ws'[q][i] # NoRow THEN ws'[q][i] ELSE db'[i]]
        BY DEF View
      <3> QED
        BY <2>2, <3>1, <3>2 DEF TableState, Id
    <2> QED
      BY <2>2, <2>3
  <1>3. CASE UNCHANGED storeVars
    BY <1>1, <1>3 DEF storeVars, View
  <1>4. CASE \E w : WriteSet(w) /\ Write(p, w) /\ TameWrite(p, w, tx'[p])
    <2>1. PICK w : WriteSet(w) /\ Write(p, w) /\ TameWrite(p, w, tx'[p])
      BY <1>4
    <2>2. db' = db /\ \A q \in Procs, i \in Id :
            View(q)'[i] = IF q = p /\ i \in DOMAIN w THEN w[i] ELSE View(q)[i]
      BY <1>1, <2>1, WriteEffect
    <2>3. \A q \in Procs \ {p} : BoundLocally(View(q)')
      BY <1>1, <1>2, <2>2, BoundAlike
    <2>4. BoundLocally(View(p)')
      <3>1. \A i \in PageIds : View(p)[i] # NoRow =>
              View(p)'[i] # NoRow /\ View(p)'[i].scope = View(p)[i].scope
        BY <1>4, ScopesStay
      <3>2. ASSUME NEW m \in LiveMenus(View(p)'), NEW i \in PageIds, View(p)'[m].page = i
            PROVE  \/ View(p)[m] = View(p)'[m]
                   \/ m \in LiveMenus(View(p)) /\ View(p)[m].site = View(p)'[m].site /\ View(p)[m].page = i
                   \/ View(p)[i] # NoRow /\ View(p)[i].scope \in {View(p)'[m].site, Generic}
        <4>1. m \in MenuIds /\ m \in Id /\ View(p)'[m].live /\ i # None
          BY NoneAssumption DEF LiveMenus, Id
        <4>2. CASE m \notin DOMAIN w
          BY <2>2, <4>1, <4>2
        <4>3. CASE m \in DOMAIN w
          <5>1. View(p)'[m] = w[m]
            BY <2>2, <4>1, <4>3
          <5>2. /\ View(p)[m] # NoRow => Descends(m, View(p)[m], w[m])
                /\ \/ View(p)[m] # NoRow /\ w[m].page = View(p)[m].page
                   \/ View(p)[w[m].page] # NoRow /\ View(p)[w[m].page].scope \in {w[m].site, Generic}
            BY <2>1, <3>2, <4>1, <4>3, <5>1 DEF TameWrite
          <5> QED
            BY <3>2, <4>1, <5>1, <5>2 DEF Descends, LiveMenus
        <4> QED
          BY <4>2, <4>3
      <3> QED
        BY <1>1, <1>2, <3>1, <3>2, BindingsKept
    <2> QED
      BY <1>1, <2>2, <2>3, <2>4
  <1>5. CASE CommitTx(p)
    <2>1. db' = View(p) /\ \A q \in Procs, i \in Id :
            View(q)'[i] = IF q = p \/ ws[q][i] = NoRow THEN View(p)[i] ELSE ws[q][i]
      BY <1>1, <1>5, CommitEffect
    <2>2. BoundLocally(View(p)')
      BY <1>1, <1>2, <2>1, BoundAlike
    <2>3. ASSUME NEW q \in Procs \ {p}, NEW m \in LiveMenus(View(q)'), View(q)'[m].page # None
          PROVE  /\ View(q)'[View(q)'[m].page] # NoRow
                 /\ View(q)'[View(q)'[m].page].scope \in {View(q)'[m].site, Generic}
      <3> DEFINE i == View(q)'[m].page
      <3>1. m \in MenuIds /\ m \in Id /\ i \in PageIds /\ i \in Id
        BY <1>2, <2>3, RowOfTable DEF LiveMenus, Id, MenuRow
      <3>2. CASE ws[q][m] # NoRow
        <4>1. View(q)[m] = View(q)'[m]
          BY <2>1, <3>1, <3>2 DEF View
        <4>2. View(q)[i] # NoRow /\ View(q)[i].scope \in {View(q)'[m].site, Generic}
          BY <1>1, <2>3, <4>1 DEF BoundLocally, LiveMenus
        <4> QED
          BY <1>5, <3>1, <4>2, ScopesStay
      <3>3. CASE ws[q][m] = NoRow
        <4>1. View(p)[m] = View(q)'[m]
          BY <2>1, <3>1, <3>3
        <4>2. View(p)[i] # NoRow /\ View(p)[i].scope \in {View(q)'[m].site, Generic}
          BY <1>1, <2>3, <4>1 DEF BoundLocally, LiveMenus
        <4>3. CASE ws[q][i] = NoRow
          BY <2>1, <3>1, <4>2, <4>3
        <4>4. CASE ws[q][i] # NoRow
          <5>1. ws[p][i] = NoRow
            BY <1>1, <3>1, <4>4 DEF LocksExclusive
          <5>2. View(p)[i] = db[i]
            BY <3>1, <5>1 DEF View
          <5>3. Descends(i, db[i], ws[q][i])
            BY <1>1, <3>1, <4>2, <4>4, <5>2 DEF Lineage
          <5>4. View(q)'[i] = ws[q][i]
            BY <2>1, <3>1, <4>4
          <5> QED
            BY <3>1, <4>2, <4>4, <5>2, <5>3, <5>4 DEF Descends
        <4> QED
          BY <4>3, <4>4
      <3> QED
        BY <3>2, <3>3
    <2> QED
      BY <1>1, <2>1, <2>2, <2>3 DEF BoundLocally
  <1>6. CASE RollbackTx(p)
    <2>1. db' = db /\ \A q \in Procs, i \in Id :
            View(q)'[i] = IF q = p THEN db[i] ELSE View(q)[i]
      BY <1>1, <1>6, RollbackEffect
    <2> QED
      BY <1>1, <1>2, <2>1, BoundAlike
  <1> QED
    BY <1>3, <1>4, <1>5, <1>6 DEF TameStep, Commit

\* A step of one request publishes only what its call publishes.
LEMMA FencedStep ==
    ASSUME LineageInv, NEW p \in Procs, NEW f, Step(p, f), TameStep(p), NEW q \in Procs
    PROVE  Fenced(q)'
  <1> SUFFICES ASSUME NEW i \in PageIds, ws'[q][i] # NoRow, ws'[q][i].published
               PROVE  \/ db'[i] # NoRow /\ db'[i].published
                      \/ Publishes(tx'[q], i)
                      \/ db'[i] = NoRow /\ ws'[q][i].forkedFrom # None
    BY DEF Fenced
  <1>1. StoreTypeOK /\ Lineage /\ LocksExclusive /\ i \in Id
    BY DEF LineageInv, PagesInv, TypeOK, Id
  <1>2. \A x \in Procs : ws[x][i] # NoRow /\ ws[x][i].published =>
          \/ db[i] # NoRow /\ db[i].published
          \/ Publishes(tx[x], i)
          \/ db[i] = NoRow /\ ws[x][i].forkedFrom # None
    BY DEF LineageInv, Fenced
  <1>3. \A x \in Procs \ {p} : tx'[x] = tx[x]
    BY DEF Step, LineageInv, PagesInv, TypeOK
  <1>4. View(p)[i] = IF ws[p][i] # NoRow THEN ws[p][i] ELSE db[i]
    BY <1>1 DEF View
  <1>5. tx[p].pc # "commit" => ~Publishes(tx[p], i)
    BY DEF Publishes
  <1>6. CASE UNCHANGED storeVars /\ tx[p].pc # "commit"
    BY <1>2, <1>3, <1>5, <1>6 DEF storeVars
  <1>7. CASE /\ tx[p].pc # "commit"
             /\ \E w : WriteSet(w) /\ Write(p, w) /\ TameWrite(p, w, tx'[p])
    <2>1. PICK w : WriteSet(w) /\ Write(p, w) /\ TameWrite(p, w, tx'[p])
      BY <1>7
    <2>2. db' = db /\ ws'[q][i] = IF q = p /\ i \in DOMAIN w THEN w[i] ELSE ws[q][i]
      BY <1>1, <2>1, WriteEffect
    <2>3. i \in DOMAIN w /\ w[i].published =>
             /\ View(p)[i] # NoRow => Descends(i, View(p)[i], w[i])
             /\ \/ View(p)[i] # NoRow /\ View(p)[i].published
                \/ Publishes(tx'[p], i)
                \/ View(p)[i] = NoRow /\ w[i].forkedFrom # None
      BY <2>1 DEF TameWrite
    <2>4. CASE q = p /\ i \in DOMAIN w
      BY <1>2, <1>4, <1>5, <1>7, <2>2, <2>3, <2>4 DEF Descends
    <2>5. CASE ~(q = p /\ i \in DOMAIN w)
      BY <1>2, <1>3, <1>5, <1>7, <2>2, <2>5
    <2> QED
      BY <2>4, <2>5
  <1>8. CASE CommitTx(p)
    <2>1. db' = View(p) /\ ws'[q][i] = IF q = p THEN NoRow ELSE ws[q][i]
      BY <1>1, <1>8, CommitEffect
    <2>2. q # p /\ ws[p][i] = NoRow
      BY <1>1, <2>1 DEF LocksExclusive
    <2> QED
      BY <1>2, <1>3, <1>4, <2>1, <2>2
  <1>9. CASE RollbackTx(p)
    <2>1. db' = db /\ ws'[q][i] = IF q = p THEN NoRow ELSE ws[q][i]
      BY <1>1, <1>9, RollbackEffect
    <2> QED
      BY <1>2, <1>3, <2>1
  <1> QED
    BY <1>6, <1>7, <1>8, <1>9 DEF TameStep, Commit

\* A step of one request leaves every handler the scopes it counts on.
LEMMA ScopedStep ==
    ASSUME LineageInv, NEW p \in Procs, NEW f, Step(p, f), TameStep(p), NEW q \in Procs
    PROVE  Scoped(tx[q], View(q))'
  <1>1. CASE RollbackTx(p) /\ tx'[p].pc = "idle" /\ q = p
    BY <1>1 DEF Scoped
  <1>2. CASE \/ UNCHANGED storeVars
             \/ \E w : WriteSet(w) /\ Write(p, w) /\ TameWrite(p, w, tx'[p])
             \/ CommitTx(p)
             \/ RollbackTx(p) /\ q # p
    <2>1. \A i \in PageIds : View(q)[i] # NoRow =>
            View(q)'[i] # NoRow /\ View(q)'[i].scope = View(q)[i].scope
      BY <1>2, ScopesStay
    <2>2. Scoped(tx'[q], View(q)) /\ Locals(tx'[q], View(q))
      <3>1. CASE q = p
        BY <3>1 DEF TameStep, Step, LineageInv, PagesInv, TypeOK
      <3>2. CASE q # p
        BY <3>2 DEF TameStep, Step, LineageInv, PagesInv, TypeOK
      <3> QED
        BY <3>1, <3>2
    <2>3. /\ tx'[q].pc = "fork.menus" => tx'[q].page \in PageIds
          /\ tx'[q].pc = "delete.repoint" =>
               tx'[q].generic \in PageIds /\ View(q)[tx'[q].generic] # NoRow
      BY <2>2 DEF Locals, GenericLabels
    <2> QED
      BY <2>1, <2>2, <2>3 DEF Scoped
  <1> QED
    BY <1>1, <1>2 DEF TameStep, Commit

-----------------------------------------------------------------------------
\* Every statement of every verb is tame.

\* A statement that only reads, on its way to a label that binds no menus.
LEMMA ReadTame ==
    ASSUME NEW p \in Procs, UNCHANGED storeVars, tx[p].pc # "commit",
           tx'[p].pc \notin {"fork.menus", "delete.repoint"}
    PROVE  TameStep(p)
  BY DEF TameStep, Scoped

\* A failed handler rolls back.
LEMMA FailTame ==
    ASSUME PagesInv, NEW p \in Procs, NEW a, Fail(p, a)
    PROVE  TameStep(p)
  <1>1. tx'[p].pc = "idle"
    BY DEF Fail, Idle, PagesInv, TypeOK
  <1> QED
    BY <1>1 DEF Fail, TameStep, Scoped

\* A statement that writes, on its way to a label that binds no menus.
LEMMA WriteTame ==
    ASSUME NEW p \in Procs, NEW w, WriteSet(w), Write(p, w), TameWrite(p, w, tx'[p]),
           tx[p].pc # "commit", tx'[p].pc \notin {"fork.menus", "delete.repoint"}
    PROVE  TameStep(p)
  BY DEF TameStep, Scoped

\* Where Goto and Finish lead.
LEMMA Moves ==
    ASSUME PagesInv, NEW p \in Procs, NEW f \in Frame, NEW a
    PROVE  /\ Finish(p, f, a) => tx'[p].pc = "commit" /\ tx'[p].answer = a /\ tx'[p].page = f.page
           /\ \A label : Goto(p, f, label) => /\ tx'[p].pc = label /\ tx'[p].page = f.page
                                              /\ tx'[p].scope = f.scope
                                              /\ tx'[p].generic = f.generic
  <1>1. \A g : tx' = [tx EXCEPT ![p] = g] => tx'[p] = g
    BY DEF PagesInv, TypeOK
  <1>2. /\ [f EXCEPT !.pc = "commit", !.answer = a].pc = "commit"
        /\ [f EXCEPT !.pc = "commit", !.answer = a].answer = a
        /\ [f EXCEPT !.pc = "commit", !.answer = a].page = f.page
    BY DEF Frame
  <1>3. \A label : /\ [f EXCEPT !.pc = label].pc = label
                   /\ [f EXCEPT !.pc = label].page = f.page
                   /\ [f EXCEPT !.pc = label].scope = f.scope
                   /\ [f EXCEPT !.pc = label].generic = f.generic
    BY DEF Frame
  <1>4. ASSUME Finish(p, f, a)
        PROVE  tx'[p].pc = "commit" /\ tx'[p].answer = a /\ tx'[p].page = f.page
    <2>1. tx'[p] = [f EXCEPT !.pc = "commit", !.answer = a]
      BY <1>1, <1>4 DEF Finish
    <2> QED
      BY <1>2, <2>1
  <1>5. ASSUME NEW label, Goto(p, f, label)
        PROVE  /\ tx'[p].pc = label /\ tx'[p].page = f.page
               /\ tx'[p].scope = f.scope /\ tx'[p].generic = f.generic
    <2>1. tx'[p] = [f EXCEPT !.pc = label]
      BY <1>1, <1>5 DEF Goto
    <2> QED
      BY <1>3, <2>1
  <1> QED
    BY <1>4, <1>5

\* A new version of a page row that a transaction sees.
LEMMA PageWriteTame ==
    ASSUME NEW p \in Procs, NEW i \in PageIds, NEW row \in PageRow,
           View(p)[i] # NoRow, Descends(i, View(p)[i], row),
           row.published => View(p)[i].published \/ Publishes(tx'[p], i)
    PROVE  WriteSet(Version(i, row)) /\ TameWrite(p, Version(i, row), tx'[p])
  <1>1. i \notin MenuIds
    BY IdsAssumption
  <1> QED
    BY <1>1, PageVersion DEF TameWrite, Version

\* A fresh page row: a draft, or a copy.
LEMMA FreshPageTame ==
    ASSUME PagesInv, NEW p \in Procs, Unused(PageIds) # {}, NEW row \in PageRow,
           row.published => row.forkedFrom # None
    PROVE  /\ WriteSet(Version(NewId(PageIds), row))
           /\ TameWrite(p, Version(NewId(PageIds), row), tx'[p])
  <1> DEFINE i == NewId(PageIds)
  <1>1. i \in PageIds /\ i \notin MenuIds /\ i \in Id
    BY FreshId, IdsAssumption DEF Id
  <1>2. View(p)[i] = NoRow
    BY <1>1 DEF View, NewId, Unused
  <1> HIDE DEF i
  <1>3. WriteSet(Version(i, row))
    BY <1>1, PageVersion
  <1>4. TameWrite(p, Version(i, row), tx'[p])
    BY <1>1, <1>2 DEF TameWrite, Version
  <1> QED
    BY <1>3, <1>4 DEF i

\* New versions of live menus: each keeps its page, or is bound within its website's scope.
LEMMA MenuWriteTame ==
    ASSUME NEW p \in Procs, NEW w, NEW g, DOMAIN w \subseteq LiveMenus(View(p)),
           \A m \in DOMAIN w :
             /\ w[m].site = View(p)[m].site
             /\ w[m].page # None =>
                  \/ w[m].page = View(p)[m].page
                  \/ View(p)[w[m].page] # NoRow /\ View(p)[w[m].page].scope \in {w[m].site, Generic}
    PROVE  TameWrite(p, w, g)
  <1>1. \A m \in DOMAIN w : m \notin PageIds /\ View(p)[m] # NoRow /\ View(p)[m].live
    BY IdsAssumption DEF LiveMenus
  <1> QED
    BY <1>1 DEF TameWrite, Descends

\* The copy of the generic that lands, or not.
LEMMA InsertCopyTame ==
    ASSUME PagesInv, NEW p \in Procs, NEW w \in Scopes, NEW landed \in BOOLEAN,
           tx[p].generic \in PageIds, InsertSpecificCopy(p, w, landed),
           tx[p].pc # "commit", tx'[p].pc \notin {"fork.menus", "delete.repoint"}
    PROVE  TameStep(p)
  <1> DEFINE row == tx[p].source
             copy == SpecificCopy(row, tx[p].generic, w)
             new == Version(NewId(PageIds), copy)
  <1>1. UNCHANGED storeVars \/ (row # NoRow /\ Unused(PageIds) # {} /\ Write(p, new))
    BY DEF InsertSpecificCopy, Refused
  <1>2. CASE UNCHANGED storeVars
    BY <1>2, ReadTame
  <1>3. CASE row # NoRow /\ Unused(PageIds) # {} /\ Write(p, new)
    <2>1. row \in PageRow
      BY <1>3 DEF Frame, PagesInv, TypeOK
    <2>2. copy \in PageRow /\ copy.forkedFrom = tx[p].generic
      BY <2>1 DEF SpecificCopy, PageRow
    <2>3. copy.forkedFrom # None
      BY <2>2, NoneAssumption DEF Id
    <2> HIDE DEF copy
    <2>4. WriteSet(new) /\ TameWrite(p, new, tx'[p])
      BY <1>3, <2>2, <2>3, FreshPageTame
    <2> QED
      BY <1>3, <2>4, WriteTame
  <1> QED
    BY <1>1, <1>2, <1>3

\* The tombstone of a page row that was read.
LEMMA TombstoneTame ==
    ASSUME PagesInv, NEW p \in Procs, NEW i \in PageIds, View(p)[i] # NoRow, Tombstone(p, i),
           tx[p].pc # "commit", tx'[p].pc \notin {"fork.menus", "delete.repoint"}
    PROVE  TameStep(p)
  <1> DEFINE row == [View(p)[i] EXCEPT !.live = FALSE]
  <1>1. row \in PageRow /\ Descends(i, View(p)[i], row) /\ (row.published => View(p)[i].published)
    <2>1. View(p)[i] \in PageRow /\ i \notin MenuIds
      BY SeenRows, IdsAssumption
    <2>2. /\ row \in PageRow /\ row.live = FALSE /\ row.published = View(p)[i].published
          /\ row.scope = View(p)[i].scope /\ row.forkedFrom = View(p)[i].forkedFrom
      BY <2>1 DEF PageRow
    <2> HIDE DEF row
    <2> QED
      BY <2>1, <2>2 DEF Descends
  <1> HIDE DEF row
  <1>2. WriteSet(Version(i, row)) /\ TameWrite(p, Version(i, row), tx'[p])
    BY <1>1, PageWriteTame
  <1>3. Write(p, Version(i, row))
    BY DEF Tombstone, row
  <1> QED
    BY <1>2, <1>3, WriteTame

\* Reading statements of the verbs, and what they may fail with.
LEMMA ReadsTame ==
    ASSUME PagesInv, NEW p \in Procs,
           \/ ForkResolve(p) \/ ForkConfirm(p) \/ ForkLoadGeneric(p) \/ ForkSelect(p)
           \/ FanoutLoadGeneric(p) \/ FanoutTargets(p) \/ FanoutSelect(p)
           \/ RenameLoad(p) \/ DeleteLoad(p)
    PROVE  TameStep(p)
  <1>1. tx \in [Procs -> Frame] /\ tx[p] \in Frame
    BY DEF PagesInv, TypeOK
  <1>2. tx[p].pc # "commit"
    BY DEF ForkResolve, ForkConfirm, ForkLoadGeneric, ForkSelect, FanoutLoadGeneric,
           FanoutTargets, FanoutSelect, RenameLoad, DeleteLoad, At
  <1>3. CASE \E a : Fail(p, a)
    BY <1>3, FailTame
  <1>4. CASE ~\E a : Fail(p, a)
    <2>1. UNCHANGED storeVars
      BY <1>4 DEF ForkResolve, ForkConfirm, ForkLoadGeneric, ForkSelect, FanoutLoadGeneric,
                  FanoutTargets, FanoutSelect, RenameLoad, DeleteLoad, SelectSource
    <2>2. tx'[p].pc \notin {"fork.menus", "delete.repoint"}
      <3>1. CASE ForkResolve(p)
        BY <1>1, <3>1 DEF ForkResolve, Goto, Frame
      <3>2. CASE ForkConfirm(p)
        <4>1. PICK i \in ResolveSpecificEntity(View(p), tx[p].key, tx[p].scope) :
                Finish(p, [tx[p] EXCEPT !.page = i], "Existing")
          BY <1>4, <3>2 DEF ForkConfirm
        <4>2. [tx[p] EXCEPT !.page = i] \in Frame
          BY <1>1, Loaders DEF LivePages, Frame
        <4> QED
          BY <4>1, <4>2, Moves
      <3>3. CASE ForkLoadGeneric(p)
        BY <1>1, <1>4, <3>3 DEF ForkLoadGeneric, Goto, Frame
      <3>4. CASE ForkSelect(p)
        BY <1>1, <3>4 DEF ForkSelect, SelectSource, Goto, Frame
      <3>5. CASE FanoutLoadGeneric(p)
        BY <1>1, <1>4, <3>5 DEF FanoutLoadGeneric, Goto, Frame
      <3>6. CASE FanoutTargets(p)
        <4> DEFINE lacking == {w \in LiveSites(View(p)) :
                                 ResolveSpecificEntity(View(p), tx[p].key, w) = {}}
        <4>1. FanoutNext(p, [tx[p] EXCEPT !.targets = lacking])
          BY <3>6 DEF FanoutTargets
        <4>2. [tx[p] EXCEPT !.targets = lacking] \in Frame
          BY <1>1 DEF Frame, LiveSites
        <4> HIDE DEF lacking
        <4> QED
          BY <4>1, <4>2, Moves DEF FanoutNext
      <3>7. CASE FanoutSelect(p)
        BY <1>1, <3>7 DEF FanoutSelect, SelectSource, Goto, Frame
      <3>8. CASE RenameLoad(p)
        BY <1>1, <1>4, <3>8 DEF RenameLoad, Goto, Frame
      <3>9. CASE DeleteLoad(p)
        BY <1>1, <1>4, <3>9 DEF DeleteLoad, Goto, Frame
      <3> QED
        BY <3>1, <3>2, <3>3, <3>4, <3>5, <3>6, <3>7, <3>8, <3>9
    <2> QED
      BY <1>2, <2>1, <2>2, ReadTame
  <1> QED
    BY <1>3, <1>4

\* The copies of a fork and of a fanout.
LEMMA CopiesTame ==
    ASSUME PagesInv, NEW p \in Procs, ForkInsert(p) \/ FanoutInsert(p)
    PROVE  TameStep(p)
  <1>1. tx \in [Procs -> Frame] /\ tx[p] \in Frame /\ Locals(tx[p], View(p))
    BY DEF PagesInv, TypeOK
  <1>2. CASE ForkInsert(p)
    <2>1. PICK landed \in BOOLEAN :
            /\ InsertSpecificCopy(p, tx[p].scope, landed)
            /\ Goto(p, [tx[p] EXCEPT !.created = landed, !.source = NoRow], "fork.reselect")
      BY <1>2 DEF ForkInsert
    <2>2. tx[p].pc = "fork.insert" /\ tx[p].generic \in PageIds /\ tx[p].scope \in Scopes
      BY <1>1, <1>2 DEF ForkInsert, At, Locals, GenericLabels, Frame
    <2>3. tx'[p].pc = "fork.reselect"
      BY <1>1, <2>1 DEF Goto, Frame
    <2> QED
      BY <2>1, <2>2, <2>3, InsertCopyTame
  <1>3. CASE FanoutInsert(p)
    <2>1. PICK w \in First(tx[p].targets), landed \in BOOLEAN :
            /\ InsertSpecificCopy(p, w, landed)
            /\ FanoutNext(p, [tx[p] EXCEPT !.targets = tx[p].targets \ {w}, !.source = NoRow])
      BY <1>3 DEF FanoutInsert
    <2>2. tx[p].pc = "fanout.insert" /\ tx[p].generic \in PageIds /\ w \in Scopes
      BY <1>1, <1>3, <2>1 DEF FanoutInsert, At, Locals, GenericLabels, Frame, First, Scopes
    <2>3. tx'[p].pc \in {"fanout.select", "fanout.menus"}
      <3> DEFINE f == [tx[p] EXCEPT !.targets = tx[p].targets \ {w}, !.source = NoRow]
      <3>1. f \in Frame
        BY <1>1 DEF Frame
      <3> QED
        BY <2>1, <3>1, Moves DEF FanoutNext
    <2> QED
      BY <2>1, <2>2, <2>3, InsertCopyTame
  <1> QED
    BY <1>2, <1>3

\* The page that the fork re-selects is the website's own.
LEMMA ForkReselectTame ==
    ASSUME PagesInv, NEW p \in Procs, ForkReselect(p)
    PROVE  TameStep(p)
  <1> DEFINE found == ResolveSpecificEntity(View(p), tx[p].key, tx[p].scope)
  <1>1. tx \in [Procs -> Frame] /\ tx[p] \in Frame /\ tx[p].pc = "fork.reselect"
    BY DEF PagesInv, TypeOK, ForkReselect, At
  <1>2. CASE Fail(p, "Internal")
    BY <1>2, FailTame
  <1>3. ASSUME NEW i \in found, UNCHANGED storeVars,
               Goto(p, [tx[p] EXCEPT !.page = i], "fork.menus")
        PROVE  TameStep(p)
    <2>1. View(p)[i] # NoRow /\ View(p)[i].scope = tx[p].scope
      BY DEF ResolveSpecificEntity, LivePages
    <2>2. tx'[p].page = i /\ tx'[p].scope = tx[p].scope /\ tx'[p].pc = "fork.menus"
      BY <1>1, <1>3 DEF Goto, Frame
    <2> QED
      BY <1>1, <1>3, <2>1, <2>2 DEF TameStep, Scoped
  <1>4. ASSUME NEW i \in found, UNCHANGED storeVars,
               Finish(p, [tx[p] EXCEPT !.page = i], "Existing")
        PROVE  TameStep(p)
    <2>1. tx'[p].pc = "commit"
      BY <1>1, <1>4 DEF Finish, Frame
    <2> QED
      BY <1>1, <1>4, <2>1, ReadTame
  <1> QED
    BY <1>2, <1>3, <1>4 DEF ForkReselect

\* The fork binds menus of its website to that page.
LEMMA ForkRepointTame ==
    ASSUME LineageInv, NEW p \in Procs, ForkRepointMenus(p)
    PROVE  TameStep(p)
  <1> DEFINE v == View(p)
             bound == {m \in LiveMenus(v) : v[m].site = tx[p].scope /\ v[m].page = tx[p].generic}
             w == [m \in bound |-> [v[m] EXCEPT !.page = tx[p].page]]
  <1>1. /\ PagesInv /\ tx \in [Procs -> Frame] /\ tx[p] \in Frame /\ Locals(tx[p], v)
        /\ tx[p].pc = "fork.menus" /\ Scoped(tx[p], v)
    BY DEF LineageInv, PagesInv, TypeOK, ForkRepointMenus, At
  <1>2. Write(p, w) /\ tx'[p].pc = "commit"
    BY <1>1 DEF ForkRepointMenus, Finish, Frame
  <1>3. WriteSet(w)
    BY <1>1, SeenRows, MenuVersions DEF Locals, MenuRow
  <1>4. v[tx[p].page] # NoRow /\ v[tx[p].page].scope = tx[p].scope
    BY <1>1 DEF Scoped
  <1>5. ASSUME NEW m \in DOMAIN w
        PROVE  w[m].site = v[m].site /\ w[m].site = tx[p].scope /\ w[m].page = tx[p].page
    BY <1>1, SeenRows DEF MenuRow
  <1> HIDE DEF w
  <1>6. DOMAIN w \subseteq LiveMenus(v)
    BY DEF w
  <1>7. TameWrite(p, w, tx'[p])
    BY <1>4, <1>5, <1>6, MenuWriteTame
  <1> QED
    BY <1>1, <1>2, <1>3, <1>7, WriteTame

\* The fanout binds each website's menus to its own page.
LEMMA FanoutRepointTame ==
    ASSUME LineageInv, NEW p \in Procs, FanoutRepointMenus(p)
    PROVE  TameStep(p)
  <1> DEFINE v == View(p)
             Specific(m) == ResolveSpecificEntity(v, tx[p].key, v[m].site)
             bound == {m \in LiveMenus(v) : v[m].page = tx[p].generic /\ Specific(m) # {}}
             w == [m \in bound |-> [v[m] EXCEPT !.page = CHOOSE i \in Specific(m) : TRUE]]
  <1>1. /\ PagesInv /\ tx \in [Procs -> Frame] /\ tx[p] \in Frame
        /\ tx[p].pc = "fanout.menus"
    BY DEF LineageInv, PagesInv, TypeOK, FanoutRepointMenus, At
  <1>2. Write(p, w) /\ tx'[p].pc = "fanout.delete"
    BY <1>1 DEF FanoutRepointMenus, Goto, Frame
  <1>3. ASSUME NEW m \in bound
        PROVE  /\ w[m] \in MenuRow /\ w[m].site = v[m].site
               /\ v[w[m].page] # NoRow /\ v[w[m].page].scope = w[m].site
    <2> DEFINE i == CHOOSE x \in Specific(m) : TRUE
    <2>1. i \in Specific(m)
      OBVIOUS
    <2>2. i \in PageIds /\ v[i] # NoRow /\ v[i].scope = v[m].site
      BY <2>1 DEF ResolveSpecificEntity, LivePages
    <2>3. v[m] \in MenuRow
      BY <1>1, SeenRows
    <2>4. w[m] = [v[m] EXCEPT !.page = i]
      OBVIOUS
    <2> HIDE DEF i, w
    <2>5. w[m] \in MenuRow /\ w[m].site = v[m].site /\ w[m].page = i
      BY <2>2, <2>3, <2>4 DEF MenuRow
    <2> QED
      BY <2>2, <2>5
  <1> HIDE DEF w, Specific
  <1>4. DOMAIN w = bound /\ bound \subseteq MenuIds /\ bound \subseteq LiveMenus(v)
    BY DEF LiveMenus, w
  <1>5. WriteSet(w)
    BY <1>3, <1>4, MenuVersions
  <1>6. TameWrite(p, w, tx'[p])
    BY <1>3, <1>4, MenuWriteTame
  <1> QED
    BY <1>1, <1>2, <1>5, <1>6, WriteTame

\* Every statement of fork_to_website and delete_generic_with_fanout is tame.
LEMMA VersioningTame ==
    ASSUME LineageInv, NEW p \in Procs, Fork(p) \/ Fanout(p)
    PROVE  TameStep(p)
  <1>1. PagesInv /\ tx \in [Procs -> Frame] /\ tx[p] \in Frame /\ Locals(tx[p], View(p))
    BY DEF LineageInv, PagesInv, TypeOK
  <1>2. CASE FanoutDelete(p)
    <2>1. CASE StampRefused(p)
      BY <1>1, <2>1, FailTame DEF StampRefused
    <2>2. CASE Tombstone(p, tx[p].generic) /\ Finish(p, tx[p], "FannedOut")
      <3>1. tx[p].pc = "fanout.delete" /\ tx[p].generic \in PageIds /\ View(p)[tx[p].generic] # NoRow
        BY <1>1, <1>2 DEF FanoutDelete, At, Locals, GenericLabels
      <3>2. tx'[p].pc = "commit"
        BY <1>1, <2>2 DEF Finish, Frame
      <3> QED
        BY <1>1, <2>2, <3>1, <3>2, TombstoneTame
    <2> QED
      BY <1>2, <2>1, <2>2 DEF FanoutDelete
  <1> QED
    BY <1>1, <1>2, ReadsTame, CopiesTame, ForkReselectTame, ForkRepointTame,
       FanoutRepointTame DEF Fork, Fanout

\* An update of the live page the call names; only publish sets the flag.
LEMMA UpdateTame ==
    ASSUME PagesInv, NEW p \in Procs, NEW row, NEW done, NEW missing, tx[p].pc # "commit",
           tx[p].page \in LivePages(View(p)) =>
             /\ row \in PageRow /\ Descends(tx[p].page, View(p)[tx[p].page], row)
             /\ row.published => View(p)[tx[p].page].published \/ done = "Published",
           \/ /\ tx[p].page \in LivePages(View(p))
              /\ \/ Write(p, Version(tx[p].page, row)) /\ Finish(p, tx[p], done)
                 \/ Fail(p, "SpecificityConflict")
           \/ Fail(p, missing)
    PROVE  TameStep(p)
  <1>1. CASE \E a : Fail(p, a)
    BY <1>1, FailTame
  <1>2. CASE /\ tx[p].page \in LivePages(View(p))
             /\ Write(p, Version(tx[p].page, row)) /\ Finish(p, tx[p], done)
    <2>1. tx[p] \in Frame
      BY DEF PagesInv, TypeOK
    <2>2. tx'[p].pc = "commit" /\ tx'[p].answer = done /\ tx'[p].page = tx[p].page
      BY <1>2, <2>1, Moves
    <2>3. tx[p].page \in PageIds /\ View(p)[tx[p].page] # NoRow
      BY <1>2 DEF LivePages
    <2>4. row.published => View(p)[tx[p].page].published \/ Publishes(tx'[p], tx[p].page)
      BY <1>2, <2>2 DEF Publishes
    <2>5. WriteSet(Version(tx[p].page, row)) /\ TameWrite(p, Version(tx[p].page, row), tx'[p])
      BY <1>2, <2>3, <2>4, PageWriteTame
    <2> QED
      BY <1>2, <2>2, <2>5, WriteTame
  <1> QED
    BY <1>1, <1>2

\* Every one-statement verb is tame.
LEMMA EditTame ==
    ASSUME PagesInv, NEW p \in Procs, Edit(p)
    PROVE  TameStep(p)
  <1> DEFINE f == tx[p]
             old == View(p)[f.page]
  <1>1. tx \in [Procs -> Frame] /\ f \in Frame /\ Locals(f, View(p))
    BY DEF PagesInv, TypeOK
  <1>2. f.pc # "commit"
    BY DEF Edit, CreateInsert, PatchUpdate, PublishUpdate, UnpublishUpdate, At
  <1>3. f.page \in LivePages(View(p)) => old \in PageRow /\ f.page \notin MenuIds
    BY SeenRows, IdsAssumption
  <1>4. CASE CreateInsert(p)
    <2> DEFINE row == [key |-> f.key, scope |-> f.scope, url |-> f.url, published |-> FALSE,
                       tier |-> f.listing[1], indexed |-> f.listing[2],
                       forkedFrom |-> None, live |-> TRUE]
               new == Version(NewId(PageIds), row)
    <2>1. CASE Fail(p, "SpecificityConflict")
      BY <2>1, FailTame
    <2>2. CASE Unused(PageIds) # {} /\ Write(p, new) /\ Finish(p, f, "PageCreated")
      <3>1. row \in PageRow /\ row.published = FALSE
        BY <1>1, <1>4 DEF CreateInsert, At, Locals, Frame, PageRow
      <3> HIDE DEF row
      <3>2. WriteSet(new) /\ TameWrite(p, new, tx'[p])
        BY <2>2, <3>1, FreshPageTame
      <3>3. tx'[p].pc = "commit"
        BY <1>1, <2>2, Moves
      <3> QED
        BY <1>2, <2>2, <3>2, <3>3, WriteTame
    <2> QED
      BY <1>4, <2>1, <2>2 DEF CreateInsert
  <1>5. CASE PatchUpdate(p)
    <2> DEFINE row == [old EXCEPT !.url = IF f.url = None THEN @ ELSE f.url,
                                  !.tier = IF f.listing = None THEN @ ELSE f.listing[1],
                                  !.indexed = IF f.listing = None THEN @ ELSE f.listing[2]]
    <2>1. ASSUME f.page \in LivePages(View(p))
          PROVE  /\ row \in PageRow /\ row.live = old.live /\ row.published = old.published
                 /\ row.scope = old.scope /\ row.forkedFrom = old.forkedFrom
      <3>1. f.url # None => f.url \in Urls
        BY <1>1 DEF Frame
      <3>2. f.listing # None => f.listing[1] \in Tiers /\ f.listing[2] \in BOOLEAN
        BY <1>1 DEF Frame
      <3> QED
        BY <1>3, <2>1, <3>1, <3>2 DEF PageRow
    <2>2. \/ /\ f.page \in LivePages(View(p))
             /\ \/ Write(p, Version(f.page, row)) /\ Finish(p, f, "Patched")
                \/ Fail(p, "SpecificityConflict")
          \/ Fail(p, "Db")
      BY <1>5 DEF PatchUpdate, UpdateLive, StampRefused
    <2> HIDE DEF row
    <2>3. f.page \in LivePages(View(p)) => Descends(f.page, old, row)
      BY <1>3, <2>1 DEF Descends
    <2> QED
      BY <1>2, <2>1, <2>2, <2>3, UpdateTame
  <1>6. CASE PublishUpdate(p)
    <2> DEFINE row == [old EXCEPT !.published = TRUE]
    <2>1. f.page \in LivePages(View(p)) =>
            /\ row \in PageRow /\ row.live = old.live
            /\ row.scope = old.scope /\ row.forkedFrom = old.forkedFrom
      BY <1>3 DEF PageRow
    <2>2. \/ /\ f.page \in LivePages(View(p))
             /\ \/ Write(p, Version(f.page, row)) /\ Finish(p, f, "Published")
                \/ Fail(p, "SpecificityConflict")
          \/ Fail(p, "NotFound")
      BY <1>6 DEF PublishUpdate, UpdateLive
    <2> HIDE DEF row
    <2>3. f.page \in LivePages(View(p)) => Descends(f.page, old, row)
      BY <1>3, <2>1 DEF Descends
    <2> QED
      BY <1>2, <2>1, <2>2, <2>3, UpdateTame
  <1>7. CASE UnpublishUpdate(p)
    <2> DEFINE row == [old EXCEPT !.published = FALSE]
    <2>1. f.page \in LivePages(View(p)) =>
            /\ row \in PageRow /\ row.live = old.live /\ row.published = FALSE
            /\ row.scope = old.scope /\ row.forkedFrom = old.forkedFrom
      BY <1>3 DEF PageRow
    <2>2. \/ /\ f.page \in LivePages(View(p))
             /\ \/ Write(p, Version(f.page, row)) /\ Finish(p, f, "Unpublished")
                \/ Fail(p, "SpecificityConflict")
          \/ Fail(p, "NotFound")
      BY <1>7 DEF UnpublishUpdate, UpdateLive
    <2> HIDE DEF row
    <2>3. f.page \in LivePages(View(p)) => Descends(f.page, old, row)
      BY <1>3, <2>1 DEF Descends
    <2> QED
      BY <1>2, <2>1, <2>2, <2>3, UpdateTame
  <1> QED
    BY <1>4, <1>5, <1>6, <1>7 DEF Edit

\* New versions of websites and redirects revive nothing.
LEMMA OtherWriteTame ==
    ASSUME NEW p \in Procs, NEW w, NEW g, DOMAIN w \subseteq Sites \cup RedirectIds,
           \A i \in DOMAIN w : View(p)[i] # NoRow => (w[i].live => View(p)[i].live)
    PROVE  TameWrite(p, w, g)
  <1>1. \A i \in DOMAIN w : i \notin PageIds /\ i \notin MenuIds
    BY IdsAssumption
  <1> QED
    BY <1>1 DEF TameWrite, Descends

\* Every statement of rename_page is tame.
LEMMA RenameTame ==
    ASSUME PagesInv, NEW p \in Procs, Rename(p)
    PROVE  TameStep(p)
  <1> DEFINE f == tx[p]
             v == View(p)
  <1>1. tx \in [Procs -> Frame] /\ f \in Frame /\ Locals(f, v)
    BY DEF PagesInv, TypeOK
  <1>2. CASE \E a : Fail(p, a)
    BY <1>2, FailTame
  <1>3. CASE RenameMove(p) /\ ~\E a : Fail(p, a)
    <2> DEFINE row == [v[f.page] EXCEPT !.url = f.url]
    <2>1. /\ f.pc = "rename.move" /\ f.page \in PageIds /\ v[f.page] # NoRow /\ f.url \in Urls
          /\ v[f.page] \in PageRow /\ f.page \notin MenuIds
      BY <1>1, <1>3, SeenRows, IdsAssumption DEF RenameMove, At, Locals
    <2>2. Write(p, Version(f.page, row)) /\ tx'[p].pc \in {"rename.menus", "rename.redirect"}
      BY <1>1, <1>3, Moves DEF RenameMove
    <2>3. /\ row \in PageRow /\ row.live = v[f.page].live /\ row.published = v[f.page].published
          /\ row.scope = v[f.page].scope /\ row.forkedFrom = v[f.page].forkedFrom
      BY <2>1 DEF PageRow
    <2> HIDE DEF row
    <2>4. Descends(f.page, v[f.page], row)
      BY <2>1, <2>3 DEF Descends
    <2>5. WriteSet(Version(f.page, row)) /\ TameWrite(p, Version(f.page, row), tx'[p])
      BY <2>1, <2>3, <2>4, PageWriteTame
    <2> QED
      BY <2>1, <2>2, <2>5, WriteTame
  <1>4. CASE RenameMenus(p)
    <2> DEFINE literal == {m \in LiveMenus(v) : v[m].site = f.scope /\ v[m].url = f.oldUrl}
               w == [m \in literal |-> [v[m] EXCEPT !.url = f.url]]
    <2>1. f.pc = "rename.menus" /\ f.url \in Urls
      BY <1>1, <1>4 DEF RenameMenus, At, Locals
    <2>2. Write(p, w) /\ tx'[p].pc = "rename.homepage"
      BY <1>1, <1>4, Moves DEF RenameMenus
    <2>3. WriteSet(w)
      BY <2>1, SeenRows, MenuVersions DEF MenuRow
    <2>4. \A m \in DOMAIN w : w[m].site = v[m].site /\ w[m].page = v[m].page
      BY SeenRows DEF MenuRow
    <2>5. DOMAIN w \subseteq LiveMenus(v)
      OBVIOUS
    <2> HIDE DEF w
    <2>6. TameWrite(p, w, tx'[p])
      BY <2>4, <2>5, MenuWriteTame
    <2> QED
      BY <2>1, <2>2, <2>3, <2>6, WriteTame
  <1>5. CASE RenameHomepage(p)
    <2> DEFINE home == {x \in {f.scope} : v[x] # NoRow /\ v[x].homepage = f.oldUrl}
               w == [x \in home |-> [v[x] EXCEPT !.homepage = f.url]]
    <2>1. f.pc = "rename.homepage" /\ f.url \in Urls /\ f.scope \in Sites
      BY <1>1, <1>5 DEF RenameHomepage, At, Locals
    <2>2. Write(p, w) /\ tx'[p].pc = "rename.redirect"
      BY <1>1, <1>5, Moves DEF RenameHomepage
    <2>3. WriteSet(w)
      BY <2>1, SeenRows, SiteVersions DEF SiteRow
    <2>4. \A x \in DOMAIN w : w[x].live = v[x].live
      BY <2>1, SeenRows DEF SiteRow
    <2>5. DOMAIN w \subseteq Sites
      BY <2>1
    <2> HIDE DEF w
    <2>6. TameWrite(p, w, tx'[p])
      BY <2>4, <2>5, OtherWriteTame
    <2> QED
      BY <2>1, <2>2, <2>3, <2>6, WriteTame
  <1>6. CASE RenameRedirect(p) /\ ~\E a : Fail(p, a)
    <2> DEFINE rule == [site |-> f.scope, from |-> f.oldUrl, to |-> f.url, live |-> TRUE]
               i == NewId(RedirectIds)
    <2>1. f.pc = "rename.redirect" /\ tx'[p].pc = "commit"
      BY <1>1, <1>6, Moves DEF RenameRedirect, At
    <2>2. CASE UNCHANGED storeVars
      BY <2>1, <2>2, ReadTame
    <2>3. CASE f.scope # Generic /\ Unused(RedirectIds) # {} /\ Write(p, Version(i, rule))
      <3>1. rule \in RedirectRow
        BY <1>1, <2>1, <2>3 DEF Locals, Frame, Scopes, RedirectRow
      <3>2. i \in RedirectIds /\ View(p)[i] = NoRow
        BY <2>3, FreshId DEF View, NewId, Unused, Id
      <3> HIDE DEF rule, i
      <3>3. WriteSet(Version(i, rule)) /\ TameWrite(p, Version(i, rule), tx'[p])
        BY <3>1, <3>2, RedirectVersion, OtherWriteTame DEF Version
      <3> QED
        BY <2>1, <2>3, <3>3, WriteTame
    <2> QED
      BY <1>6, <2>2, <2>3 DEF RenameRedirect, Refused
  <1> QED
    BY <1>2, <1>3, <1>4, <1>5, <1>6, ReadsTame DEF Rename

\* Binding the live menus of the page elsewhere: to nothing, or to a generic page.
LEMMA RebindTame ==
    ASSUME PagesInv, NEW p \in Procs, NEW target \in PageIds \cup {None}, Rebind(p, target),
           target # None => View(p)[target] # NoRow /\ View(p)[target].scope = Generic,
           tx[p].pc # "commit", tx'[p].pc \notin {"fork.menus", "delete.repoint"}
    PROVE  TameStep(p)
  <1> DEFINE v == View(p)
             bound == {m \in LiveMenus(v) : v[m].page = tx[p].page}
             w == [m \in bound |-> [v[m] EXCEPT !.page = target]]
  <1>1. WriteSet(w)
    BY SeenRows, MenuVersions DEF MenuRow
  <1>2. \A m \in DOMAIN w : w[m].site = v[m].site /\ w[m].page = target
    BY SeenRows DEF MenuRow
  <1>3. Write(p, w)
    BY DEF Rebind
  <1>4. DOMAIN w \subseteq LiveMenus(v)
    OBVIOUS
  <1> HIDE DEF w
  <1>5. TameWrite(p, w, tx'[p])
    BY <1>2, <1>4, MenuWriteTame
  <1> QED
    BY <1>1, <1>3, <1>5, WriteTame

\* Every statement of delete_specific is tame.
LEMMA DeleteTame ==
    ASSUME LineageInv, NEW p \in Procs, Delete(p)
    PROVE  TameStep(p)
  <1> DEFINE f == tx[p]
             v == View(p)
  <1>1. PagesInv /\ tx \in [Procs -> Frame] /\ f \in Frame /\ Locals(f, v) /\ Scoped(f, v)
    BY DEF LineageInv, PagesInv, TypeOK
  <1>2. CASE DeleteTombstone(p)
    <2>1. CASE StampRefused(p)
      BY <1>1, <2>1, FailTame DEF StampRefused
    <2>2. CASE Tombstone(p, f.page) /\ Goto(p, f, "delete.generic")
      <3>1. f.pc = "delete.tombstone" /\ f.page \in PageIds /\ v[f.page] # NoRow
        BY <1>1, <1>2 DEF DeleteTombstone, At, Locals
      <3>2. tx'[p].pc = "delete.generic"
        BY <1>1, <2>2, Moves
      <3> QED
        BY <1>1, <2>2, <3>1, <3>2, TombstoneTame
    <2> QED
      BY <1>2, <2>1, <2>2 DEF DeleteTombstone
  <1>3. CASE DeleteLoadGeneric(p)
    <2>1. UNCHANGED storeVars /\ f.pc = "delete.generic"
      BY <1>3 DEF DeleteLoadGeneric, At
    <2>2. ASSUME NEW g \in ResolveGeneric(v, f.key), Goto(p, [f EXCEPT !.generic = g], "delete.repoint")
          PROVE  TameStep(p)
      <3> DEFINE h == [f EXCEPT !.generic = g]
      <3>1. g \in PageIds /\ v[g].scope = Generic
        BY DEF ResolveGeneric, LivePages
      <3>2. h \in Frame /\ h.generic = g /\ Goto(p, h, "delete.repoint")
        BY <1>1, <2>2, <3>1 DEF Frame
      <3> HIDE DEF h
      <3>3. tx'[p].pc = "delete.repoint" /\ tx'[p].generic = g
        BY <1>1, <3>2, Moves
      <3> QED
        BY <2>1, <3>1, <3>3 DEF TameStep, Scoped
    <2>3. CASE Goto(p, f, "delete.unbind")
      <3>1. tx'[p].pc = "delete.unbind"
        BY <1>1, <2>3, Moves
      <3> QED
        BY <2>1, <3>1, ReadTame
    <2> QED
      BY <1>3, <2>2, <2>3 DEF DeleteLoadGeneric
  <1>4. CASE DeleteRepoint(p)
    <2>1. /\ f.pc = "delete.repoint" /\ f.generic \in PageIds /\ v[f.generic] # NoRow
          /\ v[f.generic].scope = Generic
      BY <1>1, <1>4 DEF DeleteRepoint, At, Locals, GenericLabels, Scoped
    <2>2. tx'[p].pc = "delete.unbind"
      BY <1>1, <1>4, Moves DEF DeleteRepoint
    <2> QED
      BY <1>1, <1>4, <2>1, <2>2, RebindTame DEF DeleteRepoint
  <1>5. CASE DeleteUnbind(p)
    <2>1. f.pc = "delete.unbind" /\ tx'[p].pc = "commit"
      BY <1>1, <1>5, Moves DEF DeleteUnbind, At
    <2> QED
      BY <1>1, <1>5, <2>1, RebindTame DEF DeleteUnbind
  <1> QED
    BY <1>1, <1>2, <1>3, <1>4, <1>5, ReadsTame DEF Delete

\* A call starts tame: it has written nothing and binds nothing.
LEMMA BeginTame ==
    ASSUME PagesInv, NEW p \in Procs, NEW verb, NEW label, NEW f \in Frame,
           Begin(p, verb, label, f), label \notin {"fork.menus", "delete.repoint"}
    PROVE  TameStep(p)
  <1>1. UNCHANGED storeVars /\ tx[p].pc = "idle" /\ tx'[p].pc = label
    BY Moves DEF Begin
  <1> QED
    BY <1>1, ReadTame

\* Every verb starts tame.
LEMMA StartTame ==
    ASSUME PagesInv, NEW p \in Procs, Start(p)
    PROVE  TameStep(p)
  <1> DEFINE idle == Idle("none")
  <1>1. /\ Sites \subseteq Scopes
        /\ Listings \subseteq Tiers \X BOOLEAN /\ Actors \subseteq {"officer", "system"}
    BY ListingsAssumption, ActorsAssumption DEF Scopes
  <1>2. idle \in Frame
    BY IdleFrame DEF Answers
  <1>3. CASE BeginFork(p)
    <2>1. PICK k \in Keys, w \in Sites :
            Begin(p, "fork", "fork.resolve", [idle EXCEPT !.key = k, !.scope = w])
      BY <1>3 DEF BeginFork
    <2>2. [idle EXCEPT !.key = k, !.scope = w] \in Frame
      BY <1>1, <1>2 DEF Frame
    <2> QED
      BY <2>1, <2>2, BeginTame
  <1>4. CASE BeginFanout(p)
    <2>1. PICK k \in Keys, a \in Actors :
            Begin(p, "fanout", "fanout.generic", [idle EXCEPT !.key = k, !.actor = a])
      BY <1>4 DEF BeginFanout
    <2>2. [idle EXCEPT !.key = k, !.actor = a] \in Frame
      BY <1>1, <1>2 DEF Frame
    <2> QED
      BY <2>1, <2>2, BeginTame
  <1>5. CASE BeginCreate(p)
    <2>1. PICK k \in Keys, u \in Urls, l \in Listings, s \in Scopes :
            Begin(p, "create", "create.insert",
                  [idle EXCEPT !.key = k, !.scope = s, !.url = u, !.listing = l])
      BY <1>5 DEF BeginCreate
    <2>2. [idle EXCEPT !.key = k, !.scope = s, !.url = u, !.listing = l] \in Frame
      BY <1>1, <1>2 DEF Frame
    <2> QED
      BY <2>1, <2>2, BeginTame
  <1>6. CASE BeginPatch(p)
    <2>1. PICK i \in PageIds, u \in Urls \cup {None}, l \in Listings \cup {None}, a \in Actors :
            Begin(p, "patch", "patch.update",
                  [idle EXCEPT !.page = i, !.url = u, !.listing = l, !.actor = a])
      BY <1>6 DEF BeginPatch
    <2>2. [idle EXCEPT !.page = i, !.url = u, !.listing = l, !.actor = a] \in Frame
      BY <1>1, <1>2 DEF Frame
    <2> QED
      BY <2>1, <2>2, BeginTame
  <1>7. CASE BeginPublish(p)
    <2>1. PICK i \in PageIds :
            \/ Begin(p, "publish", "publish.update", [idle EXCEPT !.page = i])
            \/ Begin(p, "unpublish", "unpublish.update", [idle EXCEPT !.page = i])
      BY <1>7 DEF BeginPublish
    <2>2. [idle EXCEPT !.page = i] \in Frame
      BY <1>1, <1>2 DEF Frame
    <2> QED
      BY <2>1, <2>2, BeginTame
  <1>8. CASE BeginRename(p)
    <2>1. PICK i \in PageIds, u \in Urls, r \in {"no", "moved", "bad"} :
            Begin(p, "rename", "rename.load", [idle EXCEPT !.page = i, !.url = u, !.redirect = r])
      BY <1>8 DEF BeginRename
    <2>2. [idle EXCEPT !.page = i, !.url = u, !.redirect = r] \in Frame
      BY <1>1, <1>2 DEF Frame
    <2> QED
      BY <2>1, <2>2, BeginTame
  <1>9. CASE BeginDelete(p)
    <2>1. PICK i \in PageIds, a \in Actors :
            Begin(p, "delete", "delete.load", [idle EXCEPT !.page = i, !.actor = a])
      BY <1>9 DEF BeginDelete
    <2>2. [idle EXCEPT !.page = i, !.actor = a] \in Frame
      BY <1>1, <1>2 DEF Frame
    <2> QED
      BY <2>1, <2>2, BeginTame
  <1> QED
    BY <1>3, <1>4, <1>5, <1>6, <1>7, <1>8, <1>9 DEF Start

\* A commit ends the call, and so does a lost connection.
LEMMA EndTame ==
    ASSUME PagesInv, NEW p \in Procs, Commit(p) \/ Abort(p)
    PROVE  TameStep(p)
  <1>1. CASE Commit(p)
    <2>1. tx'[p].pc = "idle" /\ CommitTx(p)
      BY <1>1 DEF Commit, Idle, PagesInv, TypeOK
    <2> QED
      BY <1>1, <2>1 DEF TameStep, Scoped
  <1>2. CASE Abort(p)
    BY <1>2, FailTame DEF Abort
  <1> QED
    BY <1>1, <1>2

\* Every step is a tame step of one request.
LEMMA NextTame ==
    ASSUME LineageInv, Next
    PROVE  \E p \in Procs : TameStep(p) /\ \E f : Step(p, f)
  <1>1. PagesInv
    BY DEF LineageInv
  <1>2. PICK p \in Procs : Start(p) \/ Fork(p) \/ Fanout(p) \/ Edit(p) \/ Rename(p)
                           \/ Delete(p) \/ Commit(p) \/ Abort(p)
    BY DEF Next
  <1>3. \E f : Step(p, f)
    BY <1>1, <1>2, StartStep, ForkStep, FanoutStep, EditStep, RenameStep, DeleteStep,
       CommitStep, AbortStep
  <1>4. TameStep(p)
    BY <1>1, <1>2, StartTame, VersioningTame, EditTame, RenameTame, DeleteTame, EndTame
  <1> QED
    BY <1>3, <1>4

\* The lineage invariant holds of every starting catalog.
LEMMA InitLineage == Init => LineageInv
  <1> SUFFICES ASSUME Init PROVE LineageInv
    OBVIOUS
  <1>1. PagesInv
    BY InitInv
  <1>2. \A p \in Procs : ws[p] = NoWrites /\ tx[p] = Idle("none")
    BY DEF Init
  <1>3. \A p \in Procs, i \in Id : ws[p][i] = NoRow /\ View(p)[i] = db[i]
    BY <1>2 DEF NoWrites, View
  <1>4. BoundLocally(db)
    BY CatalogsAssumption DEF Init
  <1>5. \A p \in Procs : BoundLocally(View(p))
    BY <1>1, <1>3, <1>4, ViewTyped, BoundAlike DEF PagesInv, TypeOK
  <1>6. Lineage /\ \A p \in Procs : Fenced(p)
    BY <1>3 DEF Lineage, Fenced, Id
  <1>7. \A p \in Procs : Scoped(tx[p], View(p))
    BY <1>2 DEF Scoped, Idle
  <1> QED
    BY <1>1, <1>4, <1>5, <1>6, <1>7 DEF LineageInv

\* Every step keeps the lineage invariant.
LEMMA NextLineage == LineageInv /\ [Next]_vars => LineageInv'
  <1> SUFFICES ASSUME LineageInv, [Next]_vars PROVE LineageInv'
    OBVIOUS
  <1>1. PagesInv'
    BY NextInv DEF LineageInv
  <1>2. CASE Next
    <2>1. PICK p \in Procs : TameStep(p) /\ \E f : Step(p, f)
      BY <1>2, NextTame
    <2>2. PICK f : Step(p, f)
      BY <2>1
    <2>3. Lineage'
      BY <2>1, LineageStep
    <2>4. BoundLocally(db)' /\ \A q \in Procs : BoundLocally(View(q))'
      BY <2>1, BoundStep
    <2>5. \A q \in Procs : Fenced(q)' /\ Scoped(tx[q], View(q))'
      BY <2>1, <2>2, FencedStep, ScopedStep
    <2> QED
      BY <1>1, <2>3, <2>4, <2>5 DEF LineageInv
  <1>3. CASE UNCHANGED vars
    <2>1. db' = db /\ ws' = ws /\ tx' = tx /\ \A p \in Procs : View(p)' = View(p)
      BY <1>3 DEF vars, View
    <2>2. Lineage' /\ BoundLocally(db)' /\ \A p \in Procs : BoundLocally(View(p))'
      BY <2>1 DEF LineageInv, Lineage
    <2>3. \A p \in Procs : Fenced(p)' /\ Scoped(tx[p], View(p))'
      BY <2>1 DEF LineageInv, Fenced
    <2> QED
      BY <1>1, <2>2, <2>3 DEF LineageInv
  <1> QED
    BY <1>2, <1>3

\* What a row keeps, it keeps in every behaviour.
LEMMA LineageInvariance == Spec => []LineageInv
  BY InitLineage, NextLineage, PTL DEF Spec

\* The page binding of a menu never crosses websites, whatever fork, fanout and delete do
\* between one another's statements.
THEOREM BindingsStayLocal == Spec => []MenusStayLocal
  <1>1. LineageInv => MenusStayLocal
    BY DEF LineageInv, MenusStayLocal
  <1> QED
    BY <1>1, LineageInvariance, PTL

\* Only a commit changes the committed table: each row becomes what its request sees.
LEMMA DbStep ==
    ASSUME LineageInv, [Next]_vars, NEW i \in PageIds, db'[i] # db[i]
    PROVE  \E p \in Procs : /\ Commit(p) /\ ws[p][i] # NoRow /\ db'[i] = ws[p][i]
  <1>1. PICK p \in Procs : TameStep(p)
    BY NextTame DEF vars
  <1>2. Commit(p)
    BY <1>1 DEF TameStep, storeVars, Write, RollbackTx
  <1>3. db'[i] = IF ws[p][i] # NoRow THEN ws[p][i] ELSE db[i]
    BY <1>2 DEF Commit, CommitTx, View, Id
  <1> QED
    BY <1>2, <1>3

\* A soft-deleted page stays dead: rename and both deletions write the row with no
\* liveness arm, and none of them revives it.
THEOREM DeadStayDead == Spec => TombstonesStay
  <1>1. LineageInv /\ [Next]_vars =>
          [\A i \in PageIds : (db[i] # NoRow /\ ~db[i].live) => ~db'[i].live]_vars
    <2> SUFFICES ASSUME LineageInv, [Next]_vars, NEW i \in PageIds, db[i] # NoRow, ~db[i].live
                 PROVE  ~db'[i].live
      OBVIOUS
    <2>1. CASE db'[i] = db[i]
      BY <2>1
    <2>2. CASE db'[i] # db[i]
      <3>1. PICK p \in Procs : ws[p][i] # NoRow /\ db'[i] = ws[p][i]
        BY <2>2, DbStep
      <3>2. Descends(i, db[i], ws[p][i])
        BY <3>1 DEF LineageInv, Lineage
      <3> QED
        BY <3>1, <3>2 DEF Descends
    <2> QED
      BY <2>1, <2>2
  <1> QED
    BY <1>1, LineageInvariance, PTL DEF Spec, TombstonesStay

\* No verb but publish publishes: every other way a page becomes public is to be born as
\* the copy of another.
THEOREM PublishFenced == Spec => PublishFence
  <1>1. LineageInv /\ [Next]_vars =>
          [\A i \in PageIds :
             (/\ db[i] = NoRow \/ ~db[i].published
              /\ db'[i] # NoRow /\ db'[i].published) =>
                 \/ \E p \in Procs : Commits(p, "Published") /\ tx[p].page = i
                 \/ db[i] = NoRow /\ db'[i].forkedFrom # None]_vars
    <2> SUFFICES ASSUME LineageInv, [Next]_vars, NEW i \in PageIds,
                        db[i] = NoRow \/ ~db[i].published, db'[i] # NoRow, db'[i].published
                 PROVE  \/ \E p \in Procs : Commits(p, "Published") /\ tx[p].page = i
                        \/ db[i] = NoRow /\ db'[i].forkedFrom # None
      OBVIOUS
    <2>1. PICK p \in Procs : Commit(p) /\ ws[p][i] # NoRow /\ db'[i] = ws[p][i]
      BY DbStep
    <2>2. \/ Publishes(tx[p], i)
          \/ db[i] = NoRow /\ ws[p][i].forkedFrom # None
      BY <2>1 DEF LineageInv, Fenced
    <2>3. Publishes(tx[p], i) => Commits(p, "Published") /\ tx[p].page = i
      BY <2>1 DEF Publishes, Commits, Commit, LineageInv, PagesInv, TypeOK
    <2> QED
      BY <2>1, <2>2, <2>3
  <1> QED
    BY <1>1, LineageInvariance, PTL DEF Spec, PublishFence

-----------------------------------------------------------------------------
(***************************************************************************)
(* Fork and fanout implement the catalog.  `Fits` says of the transaction  *)
(* of one handler what its commit would make of the committed table, and   *)
(* every commit of another handler lets it stand, because a commit only    *)
(* `Grows` the table and `Hands` the menus of a generic over.              *)
(***************************************************************************)

\* Table states.

\* A live page of key k in scope s.
Holds(t, k, s) == \E i \in LivePages(t) : t[i].key = k /\ t[i].scope = s

\* What the generic g of key k leaves when it is dead: every live website holds the key, and
\* no menu that could go to a page of its own website still names g.
Succeeded(t, g, k) ==
    /\ \A w \in LiveSites(t) : Holds(t, k, w)
    /\ \A m \in BoundTo(t, g) : ~Holds(t, k, t[m].site)

\* What a transaction with the write set u sees over the committed table t.
Over(u, t) == [i \in Id |-> IF u[i] # NoRow THEN u[i] ELSE t[i]]

SamePlace(r, s) == r.key = s.key /\ r.scope = s.scope /\ r.url = s.url

\* The menu version s is r, bound to page i.
Moved(r, s, i) == s # NoRow /\ s.page = i /\ s.site = r.site /\ s.live = r.live

-----------------------------------------------------------------------------
\* Handlers.

Ends(f, answer) == f.pc = "commit" /\ f.answer = answer

Forking(f) == \/ f.pc \in {"fork.resolve", "fork.confirm", "fork.generic", "fork.select",
                           "fork.insert", "fork.reselect", "fork.menus"}
              \/ Ends(f, "Created")

\* The fork has made its copy.
Made(f) == \/ f.pc = "fork.reselect" /\ f.created
           \/ f.pc = "fork.menus"
           \/ Ends(f, "Created")

\* The fanout has its targets.
Copying(f) == \/ f.pc \in {"fanout.select", "fanout.insert", "fanout.menus", "fanout.delete"}
              \/ Ends(f, "FannedOut")

\* The fanout has re-pointed the menus.
Rebound(f) == f.pc = "fanout.delete" \/ Ends(f, "FannedOut")

Fanning(f) == f.pc \in {"fanout.generic", "fanout.targets"} \/ Copying(f)

Editing(f) == Ends(f, "Published") \/ Ends(f, "Unpublished")

\* The handler has read a generic that it still relies on.
HoldsGeneric(f) ==
    \/ f.pc \in {"fork.select", "fork.insert", "fork.reselect", "fanout.targets"}
    \/ Made(f) \/ Copying(f)

\* What its locals say of the committed table.
LocalsFit(f, t) ==
    /\ \/ f.pc \in {"idle", "publish.update", "unpublish.update"}
       \/ Forking(f) \/ Fanning(f) \/ Editing(f) \/ Ends(f, "Existing")
    /\ Forking(f) => f.key \in Keys /\ f.scope \in Sites
    /\ Fanning(f) => f.key \in Keys
    /\ HoldsGeneric(f) =>
         /\ f.generic \in PageIds /\ t[f.generic] # NoRow
         /\ t[f.generic].key = f.key /\ t[f.generic].scope = Generic
         /\ ~t[f.generic].live => Succeeded(t, f.generic, f.key)
    /\ f.source # NoRow =>
         f.pc \in {"fork.insert", "fanout.insert"} /\ f.source.live /\ f.source.key = f.key
    /\ f.pc \in {"fork.insert", "fanout.insert"} /\ f.source = NoRow => ~t[f.generic].live
    /\ f.pc = "fork.confirm" => Holds(t, f.key, f.scope)

\* A fork's write set is its one copy, and in the end its website's menus.
ForkFits(f, u, t) ==
    /\ f.pc = "fork.reselect" /\ f.scope \in LiveSites(t) => Holds(Over(u, t), f.key, f.scope)
    /\ Made(f) =>
         /\ \A w \in Sites : u[w] = NoRow
         /\ ~Ends(f, "Created") => \A m \in MenuIds : u[m] = NoRow
         /\ \E i \in PageIds :
              /\ u[i] # NoRow /\ u[i].live /\ u[i].key = f.key /\ u[i].scope = f.scope
              /\ t[i] = NoRow
              /\ \A j \in PageIds \ {i} : u[j] = NoRow
              /\ f.pc # "fork.reselect" => f.page = i
    /\ Ends(f, "Created") =>
         /\ \A m \in MenuIds : u[m] # NoRow =>
              m \in BoundTo(t, f.generic) /\ t[m].site = f.scope /\ Moved(t[m], u[m], f.page)
         /\ \A m \in BoundTo(t, f.generic) : t[m].site = f.scope => u[m] # NoRow

\* A fanout's write set is copies on live websites, then the menus, then the tombstone; the
\* live websites that it has passed hold the key.
FanoutFits(f, u, t) ==
    Copying(f) =>
      /\ f.targets \subseteq LiveSites(t)
      /\ f.pc \notin {"fanout.select", "fanout.insert"} => f.targets = {}
      /\ \A w \in LiveSites(t) \ f.targets : Holds(Over(u, t), f.key, w)
      /\ \A w \in Sites : u[w] = NoRow
      /\ \A i \in PageIds : i # f.generic /\ u[i] # NoRow =>
           t[i] = NoRow /\ u[i].live /\ u[i].key = f.key /\ u[i].scope \in LiveSites(t)
      /\ IF Ends(f, "FannedOut")
         THEN /\ u[f.generic] # NoRow /\ ~u[f.generic].live
              /\ SamePlace(u[f.generic], t[f.generic])
         ELSE u[f.generic] = NoRow
      /\ \A m \in MenuIds : u[m] # NoRow =>
           /\ Rebound(f) /\ m \in BoundTo(t, f.generic)
           /\ \E i \in LivePages(Over(u, t)) :
                /\ Over(u, t)[i].key = f.key /\ Over(u, t)[i].scope = t[m].site
                /\ Moved(t[m], u[m], i)
      /\ Rebound(f) =>
           \A m \in BoundTo(t, f.generic) : Holds(Over(u, t), f.key, t[m].site) => u[m] # NoRow

\* Publishing leaves a page in its place.
EditFits(f, u, t) ==
    Editing(f) =>
      /\ \A i \in PageIds : u[i] # NoRow =>
           t[i] # NoRow /\ SamePlace(u[i], t[i]) /\ u[i].live = t[i].live
      /\ \A i \in MenuIds \cup Sites : u[i] = NoRow

\* The handler with locals f and write set u, over the committed table t.
Fits(f, u, t) ==
    /\ LocalsFit(f, t)
    /\ ~Made(f) /\ ~Copying(f) /\ ~Editing(f) => \A i \in Id : u[i] = NoRow
    /\ ForkFits(f, u, t)
    /\ FanoutFits(f, u, t)
    /\ EditFits(f, u, t)

\* A live page, a pending copy, or a copy about to be made has this url and key.
Placed(url, key) ==
    \/ \E i \in LivePages(db) : db[i].url = url /\ db[i].key = key
    \/ \E p \in Procs :
         \/ \E i \in LivePages(ws[p]) : ws[p][i].url = url /\ ws[p][i].key = key
         \/ tx[p].source # NoRow /\ tx[p].source.url = url /\ tx[p].source.key = key

OneKeyPerUrl == \A url \in Urls, k, l \in Keys : Placed(url, k) /\ Placed(url, l) => k = l

\* A generic that is live, that a menu names, or that a handler relies on.
Named(i) ==
    /\ i \in PageIds /\ db[i] # NoRow /\ db[i].scope = Generic
    /\ \/ db[i].live
       \/ BoundTo(db, i) # {}
       \/ \E p \in Procs : HoldsGeneric(tx[p]) /\ tx[p].generic = i

OneGeneric == \A i, j \in PageIds : Named(i) /\ Named(j) /\ db[i].key = db[j].key => i = j

\* The inductive invariant.
Safe ==
    /\ LineageInv
    /\ MenusBoundToLive
    /\ OneKeyPerUrl /\ OneGeneric
    /\ \A p \in Procs : Fits(tx[p], ws[p], db)
-----------------------------------------------------------------------------
\* One commit, seen by the handlers of other requests.

\* A commit that takes the table t to s: pages keep their place, specifics stay live, new
\* pages are specifics, and menus move only to pages of their own website.
Grows(t, s) ==
    /\ \A i \in PageIds : t[i] # NoRow =>
         /\ s[i] # NoRow /\ SamePlace(s[i], t[i])
         /\ s[i].live => t[i].live
         /\ t[i].live /\ t[i].scope # Generic => s[i].live
    /\ \A i \in PageIds : t[i] = NoRow /\ s[i] # NoRow => s[i].live /\ s[i].scope \in Sites
    /\ \A w \in Sites : s[w] = t[w]
    /\ \A m \in MenuIds : s[m] # t[m] =>
         /\ m \in LiveMenus(t)
         /\ \E i \in LivePages(s) : s[i].scope = t[m].site /\ Moved(t[m], s[m], i)

\* It hands the menus of the generic g, and its key k, over to the specifics.
Hands(t, s, g, k) ==
    /\ \A m \in BoundTo(s, g) : Holds(s, k, t[m].site) => Holds(t, k, t[m].site)
    /\ t[g].live /\ ~s[g].live => Succeeded(s, g, k)

\* Websites and pages are different things, and Generic is no website.
LEMMA Apart ==
    /\ Generic \notin Sites
    /\ \A i \in PageIds : i \in Id /\ i \notin MenuIds /\ i \notin Sites /\ i \notin RedirectIds
    /\ \A i \in MenuIds : i \in Id /\ i \notin Sites /\ i \notin PageIds /\ i \notin RedirectIds
    /\ \A i \in Sites : i \in Id /\ i \notin MenuIds /\ i \notin PageIds
    /\ None \notin PageIds /\ None \notin Sites
  BY SitesAssumption, IdsAssumption, NoneAssumption DEF Id, Generic

\* What grows keeps its websites, its menus and the specifics of every key.
LEMMA GrowsKeeps ==
    ASSUME NEW t, NEW s, TableState(t), TableState(s), Grows(t, s)
    PROVE  /\ LiveSites(s) = LiveSites(t)
           /\ LiveMenus(s) = LiveMenus(t)
           /\ \A m \in LiveMenus(t) : s[m].site = t[m].site /\ t[m].site \in Sites
           /\ \A k, w : w # Generic /\ Holds(t, k, w) => Holds(s, k, w)
           /\ \A g \in PageIds : t[g] # NoRow /\ t[g].scope = Generic =>
                BoundTo(s, g) \subseteq BoundTo(t, g)
  <1>1. LiveSites(s) = LiveSites(t)
    BY DEF LiveSites, Grows
  <1>2. \A m \in LiveMenus(t) : t[m].site \in Sites
    BY DEF LiveMenus, TableState, MenuRow
  <1>3. \A m \in LiveMenus(t) : m \in LiveMenus(s) /\ s[m].site = t[m].site
    BY DEF LiveMenus, Grows, Moved
  <1>4. \A m \in LiveMenus(s) : m \in LiveMenus(t)
    BY DEF LiveMenus, Grows
  <1>5. \A k, w : w # Generic /\ Holds(t, k, w) => Holds(s, k, w)
    BY DEF Holds, LivePages, Grows, SamePlace
  <1>6. ASSUME NEW g \in PageIds, t[g] # NoRow, t[g].scope = Generic, NEW m \in BoundTo(s, g)
        PROVE  m \in BoundTo(t, g)
    <2>1. m \in LiveMenus(s) /\ m \in LiveMenus(t) /\ m \in MenuIds /\ s[m].page = g
      BY <1>4 DEF BoundTo, LiveMenus
    <2>2. s[g].scope = Generic
      BY <1>6 DEF Grows, SamePlace
    <2>3. s[m] = t[m]
      BY <1>2, <2>1, <2>2, Apart DEF Grows, Moved
    <2> QED
      BY <2>1, <2>3 DEF BoundTo
  <1> QED
    BY <1>1, <1>2, <1>3, <1>4, <1>5, <1>6

\* What a handler sees grows with the table, around its own versions.
LEMMA OverKeeps ==
    ASSUME NEW t, NEW s, NEW u, TableState(t), TableState(s), Grows(t, s),
           \A i \in Id : u[i] # NoRow => s[i] = t[i]
    PROVE  /\ \A i \in LivePages(Over(u, t)) : Over(u, t)[i].scope # Generic =>
                /\ i \in LivePages(Over(u, s))
                /\ Over(u, s)[i].key = Over(u, t)[i].key
                /\ Over(u, s)[i].scope = Over(u, t)[i].scope
           /\ \A k, w : w # Generic /\ Holds(Over(u, t), k, w) => Holds(Over(u, s), k, w)
  <1>1. ASSUME NEW i \in LivePages(Over(u, t)), Over(u, t)[i].scope # Generic
        PROVE  /\ i \in LivePages(Over(u, s))
               /\ Over(u, s)[i].key = Over(u, t)[i].key
               /\ Over(u, s)[i].scope = Over(u, t)[i].scope
    <2>1. i \in PageIds /\ i \in Id /\ Over(u, t)[i] # NoRow /\ Over(u, t)[i].live
      BY Apart DEF LivePages
    <2>2. /\ Over(u, t)[i] = IF u[i] # NoRow THEN u[i] ELSE t[i]
          /\ Over(u, s)[i] = IF u[i] # NoRow THEN u[i] ELSE s[i]
      BY <2>1 DEF Over
    <2>3. /\ Over(u, s)[i] # NoRow /\ Over(u, s)[i].live
          /\ Over(u, s)[i].key = Over(u, t)[i].key
          /\ Over(u, s)[i].scope = Over(u, t)[i].scope
      BY <1>1, <2>1, <2>2 DEF Grows, SamePlace
    <2> QED
      BY <2>1, <2>3 DEF LivePages
  <1> QED
    BY <1>1 DEF Holds

\* What a handler relies on stands while others commit.
LEMMA LocalsGrow ==
    ASSUME NEW t, NEW s, NEW f, TableState(t), TableState(s), Grows(t, s), LocalsFit(f, t),
           HoldsGeneric(f) => Hands(t, s, f.generic, f.key)
    PROVE  LocalsFit(f, s)
  <1> DEFINE g == f.generic
             k == f.key
  <1>1. ASSUME HoldsGeneric(f)
        PROVE  /\ g \in PageIds /\ s[g] # NoRow /\ s[g].key = k /\ s[g].scope = Generic
               /\ ~s[g].live => Succeeded(s, g, k)
               /\ s[g].live => t[g].live
    <2>1. /\ g \in PageIds /\ t[g] # NoRow /\ t[g].key = k /\ t[g].scope = Generic
          /\ ~t[g].live => Succeeded(t, g, k)
          /\ Hands(t, s, g, k)
      BY <1>1 DEF LocalsFit
    <2>2. /\ s[g] # NoRow /\ s[g].key = k /\ s[g].scope = Generic
          /\ s[g].live => t[g].live
      BY <2>1 DEF Grows, SamePlace
    <2>3. ASSUME ~t[g].live
          PROVE  Succeeded(s, g, k)
      <3>1. \A w \in LiveSites(s) : Holds(s, k, w)
        <4>1. \A w \in LiveSites(s) : w # Generic /\ w \in LiveSites(t)
          BY GrowsKeeps, Apart DEF LiveSites
        <4> QED
          BY <2>1, <2>3, <4>1, GrowsKeeps DEF Succeeded
      <3>2. ASSUME NEW m \in BoundTo(s, g)
            PROVE  ~Holds(s, k, s[m].site)
        <4>1. m \in BoundTo(t, g) /\ m \in LiveMenus(t)
          BY <2>1, GrowsKeeps DEF BoundTo
        <4>2. s[m].site = t[m].site
          BY <4>1, GrowsKeeps
        <4> QED
          BY <2>1, <2>3, <3>2, <4>1, <4>2 DEF Succeeded, Hands
      <3> QED
        BY <3>1, <3>2 DEF Succeeded
    <2> QED
      BY <2>1, <2>2, <2>3 DEF Hands
  <1>2. f.pc = "fork.confirm" => Holds(s, k, f.scope)
    <2>1. f.pc = "fork.confirm" => f.scope # Generic
      BY Apart DEF LocalsFit, Forking
    <2> QED
      BY <2>1, GrowsKeeps DEF LocalsFit
  <1>3. f.pc \in {"fork.insert", "fanout.insert"} => HoldsGeneric(f)
    BY DEF HoldsGeneric, Copying
  <1> QED
    BY <1>1, <1>2, <1>3 DEF LocalsFit

\* So does what a fork has written,
LEMMA ForkGrows ==
    ASSUME NEW t, NEW s, NEW f, NEW u, TableState(t), TableState(s), Grows(t, s),
           \A i \in Id : u[i] # NoRow => s[i] = t[i],
           LocalsFit(f, t), ForkFits(f, u, t)
    PROVE  ForkFits(f, u, s)
  <1>1. f.pc = "fork.reselect" /\ f.scope \in LiveSites(s) => Holds(Over(u, s), f.key, f.scope)
    <2>1. f.scope \in LiveSites(s) => f.scope # Generic /\ f.scope \in LiveSites(t)
      BY GrowsKeeps, Apart DEF LiveSites
    <2> QED
      BY <2>1, OverKeeps DEF ForkFits
  <1>2. ASSUME Made(f)
        PROVE  /\ \A w \in Sites : u[w] = NoRow
               /\ ~Ends(f, "Created") => \A m \in MenuIds : u[m] = NoRow
               /\ \E i \in PageIds :
                    /\ u[i] # NoRow /\ u[i].live /\ u[i].key = f.key /\ u[i].scope = f.scope
                    /\ s[i] = NoRow
                    /\ \A j \in PageIds \ {i} : u[j] = NoRow
                    /\ f.pc # "fork.reselect" => f.page = i
    BY <1>2, Apart DEF ForkFits
  <1>3. ASSUME Ends(f, "Created")
        PROVE  /\ \A m \in MenuIds : u[m] # NoRow =>
                    m \in BoundTo(s, f.generic) /\ s[m].site = f.scope /\ Moved(s[m], u[m], f.page)
               /\ \A m \in BoundTo(s, f.generic) : s[m].site = f.scope => u[m] # NoRow
    <2>1. f.generic \in PageIds /\ t[f.generic] # NoRow /\ t[f.generic].scope = Generic
      BY <1>3 DEF LocalsFit, HoldsGeneric, Made
    <2>2. ASSUME NEW m \in MenuIds, u[m] # NoRow
          PROVE  m \in BoundTo(s, f.generic) /\ s[m].site = f.scope /\ Moved(s[m], u[m], f.page)
      <3>1. s[m] = t[m] /\ m \in BoundTo(t, f.generic) /\ t[m].site = f.scope
            /\ Moved(t[m], u[m], f.page)
        BY <1>3, <2>2, Apart DEF ForkFits
      <3> QED
        BY <3>1 DEF BoundTo, LiveMenus
    <2>3. ASSUME NEW m \in BoundTo(s, f.generic), s[m].site = f.scope
          PROVE  u[m] # NoRow
      <3>1. m \in BoundTo(t, f.generic) /\ m \in LiveMenus(t)
        BY <2>1, GrowsKeeps DEF BoundTo
      <3>2. t[m].site = f.scope
        BY <2>3, <3>1, GrowsKeeps
      <3> QED
        BY <1>3, <3>1, <3>2 DEF ForkFits
    <2> QED
      BY <2>2, <2>3
  <1> QED
    BY <1>1, <1>2, <1>3 DEF ForkFits

\* and what a fanout has.
LEMMA FanoutGrows ==
    ASSUME NEW t, NEW s, NEW f, NEW u, TableState(t), TableState(s), Grows(t, s),
           \A i \in Id : u[i] # NoRow => s[i] = t[i],
           LocalsFit(f, t), FanoutFits(f, u, t),
           HoldsGeneric(f) => Hands(t, s, f.generic, f.key)
    PROVE  FanoutFits(f, u, s)
  <1> SUFFICES ASSUME Copying(f) PROVE FanoutFits(f, u, s)
    BY DEF FanoutFits
  <1> DEFINE g == f.generic
             k == f.key
  <1>1. /\ g \in PageIds /\ t[g] # NoRow /\ t[g].scope = Generic /\ g \in Id
        /\ Hands(t, s, g, k)
    BY Apart DEF LocalsFit, HoldsGeneric
  <1>2. LiveSites(s) = LiveSites(t) /\ \A w \in LiveSites(t) : w # Generic
    BY GrowsKeeps, Apart DEF LiveSites
  <1>3. \A w \in LiveSites(s) \ f.targets : Holds(Over(u, s), k, w)
    BY <1>2, OverKeeps DEF FanoutFits
  <1>4. \A i \in PageIds : i # g /\ u[i] # NoRow =>
           s[i] = NoRow /\ u[i].live /\ u[i].key = k /\ u[i].scope \in LiveSites(s)
    BY <1>2, Apart DEF FanoutFits
  <1>5. IF Ends(f, "FannedOut")
        THEN u[g] # NoRow /\ ~u[g].live /\ SamePlace(u[g], s[g])
        ELSE u[g] = NoRow
    BY <1>1 DEF FanoutFits
  <1>6. ASSUME NEW m \in MenuIds, u[m] # NoRow
        PROVE  /\ Rebound(f) /\ m \in BoundTo(s, g)
               /\ \E i \in LivePages(Over(u, s)) :
                    /\ Over(u, s)[i].key = k /\ Over(u, s)[i].scope = s[m].site
                    /\ Moved(s[m], u[m], i)
    <2>1. PICK i \in LivePages(Over(u, t)) :
                    /\ Over(u, t)[i].key = k /\ Over(u, t)[i].scope = t[m].site
                    /\ Moved(t[m], u[m], i)
      BY <1>6 DEF FanoutFits
    <2>2. Rebound(f) /\ m \in BoundTo(t, g) /\ s[m] = t[m]
      BY <1>6, Apart DEF FanoutFits
    <2>3. m \in BoundTo(s, g)
      BY <2>2 DEF BoundTo, LiveMenus
    <2>4. t[m].site # Generic
      BY <2>2, GrowsKeeps, Apart DEF BoundTo
    <2>5. /\ i \in LivePages(Over(u, s))
          /\ Over(u, s)[i].key = k /\ Over(u, s)[i].scope = t[m].site
      BY <2>1, <2>4, OverKeeps
    <2> QED
      BY <2>1, <2>2, <2>3, <2>5
  <1>7. ASSUME Rebound(f), NEW m \in BoundTo(s, g), Holds(Over(u, s), k, s[m].site)
        PROVE  u[m] # NoRow
    <2>1. m \in BoundTo(t, g) /\ m \in LiveMenus(t)
      BY <1>1, GrowsKeeps DEF BoundTo
    <2>2. s[m].site = t[m].site /\ t[m].site \in Sites
      BY <2>1, GrowsKeeps
    <2>3. PICK i \in LivePages(Over(u, s)) :
            Over(u, s)[i].key = k /\ Over(u, s)[i].scope = t[m].site
      BY <1>7, <2>2 DEF Holds
    <2>4. i \in PageIds /\ i \in Id /\ Over(u, s)[i] # NoRow /\ Over(u, s)[i].live
      BY <2>3, Apart DEF LivePages
    <2>5. /\ Over(u, t)[i] = IF u[i] # NoRow THEN u[i] ELSE t[i]
          /\ Over(u, s)[i] = IF u[i] # NoRow THEN u[i] ELSE s[i]
      BY <2>4 DEF Over
    <2>6. Holds(Over(u, t), k, t[m].site)
      <3>1. CASE u[i] # NoRow
        BY <2>3, <2>4, <2>5, <3>1 DEF Holds, LivePages
      <3>2. CASE u[i] = NoRow
        <4>1. Holds(s, k, t[m].site)
          BY <2>3, <2>4, <2>5, <3>2 DEF Holds, LivePages
        <4>2. PICK j \in LivePages(t) : t[j].key = k /\ t[j].scope = t[m].site
          BY <1>1, <1>7, <4>1 DEF Hands, Holds
        <4>3. j \in PageIds /\ j \in Id /\ t[j] # NoRow /\ t[j].live
          BY <4>2, Apart DEF LivePages
        <4>4. u[j] = NoRow
          <5>1. CASE j = g
            BY <1>1, <2>2, <4>2, <5>1, Apart
          <5>2. CASE j # g
            BY <1>4, <4>3, <5>2 DEF FanoutFits
          <5> QED
            BY <5>1, <5>2
        <4>5. Over(u, t)[j] = t[j]
          BY <4>3, <4>4 DEF Over
        <4> QED
          BY <4>2, <4>3, <4>5 DEF Holds, LivePages
      <3> QED
        BY <3>1, <3>2
    <2> QED
      BY <1>7, <2>1, <2>6 DEF FanoutFits
  <1> QED
    BY <1>2, <1>3, <1>4, <1>5, <1>6, <1>7 DEF FanoutFits

\* A handler fits its transaction whatever others commit.
LEMMA FitsGrow ==
    ASSUME NEW t, NEW s, NEW f, NEW u, TableState(t), TableState(s), Grows(t, s),
           \A i \in Id : u[i] # NoRow => s[i] = t[i],
           Fits(f, u, t), HoldsGeneric(f) => Hands(t, s, f.generic, f.key)
    PROVE  Fits(f, u, s)
  <1>1. EditFits(f, u, s)
    BY Apart DEF Fits, EditFits
  <1> QED
    BY <1>1, LocalsGrow, ForkGrows, FanoutGrows DEF Fits
-----------------------------------------------------------------------------
\* What a commit does to the table, whatever the call.

\* Which handlers may be at their commit.
LEMMA AtCommit ==
    ASSUME NEW f, NEW u, NEW t, Fits(f, u, t), f.pc = "commit"
    PROVE  \/ Ends(f, "Created") \/ Ends(f, "FannedOut") \/ Editing(f)
           \/ \A i \in Id : u[i] = NoRow
  BY DEF Fits, Made, Copying, Ends

\* The table that a transaction would leave, row by row.
LEMMA OverAt ==
    ASSUME NEW u, NEW t, NEW i \in Id
    PROVE  Over(u, t)[i] = IF u[i] # NoRow THEN u[i] ELSE t[i]
  BY DEF Over

\* The table grows.
LEMMA CommitGrows ==
    ASSUME NEW f, NEW u, NEW t, Fits(f, u, t), f.pc = "commit", TableState(t)
    PROVE  Grows(t, Over(u, t))
  <1> DEFINE s == Over(u, t)
  <1>1. \A i \in Id : s[i] = IF u[i] # NoRow THEN u[i] ELSE t[i]
    BY OverAt
  <1> HIDE DEF s
  <1>2. CASE \A i \in Id : u[i] = NoRow
    BY <1>1, <1>2, Apart DEF Grows, SamePlace, s
  <1>3. CASE Ends(f, "Created")
    <2>1. /\ Made(f) /\ ForkFits(f, u, t) /\ f.scope \in Sites
          /\ f.pc # "fork.reselect"
      BY <1>3 DEF Fits, LocalsFit, Made, Forking, Ends
    <2>2. PICK i \in PageIds :
              /\ u[i] # NoRow /\ u[i].live /\ u[i].key = f.key /\ u[i].scope = f.scope
              /\ t[i] = NoRow
              /\ \A j \in PageIds \ {i} : u[j] = NoRow
              /\ f.page = i
      BY <2>1 DEF ForkFits
    <2>3. \A j \in PageIds : j # i => s[j] = t[j]
      BY <1>1, <2>2, Apart
    <2>4. s[i] = u[i] /\ i \in LivePages(s)
      BY <1>1, <2>2, Apart DEF LivePages
    <2>5. \A w \in Sites : s[w] = t[w]
      BY <1>1, <2>1, Apart DEF ForkFits
    <2>6. ASSUME NEW m \in MenuIds, s[m] # t[m]
          PROVE  m \in LiveMenus(t) /\ s[i].scope = t[m].site /\ Moved(t[m], s[m], i)
      <3>1. u[m] # NoRow /\ s[m] = u[m]
        BY <1>1, <2>6, Apart
      <3>2. m \in BoundTo(t, f.generic) /\ t[m].site = f.scope /\ Moved(t[m], u[m], f.page)
        BY <1>3, <2>1, <3>1 DEF ForkFits
      <3> QED
        BY <2>2, <2>4, <3>1, <3>2 DEF BoundTo
    <2> QED
      BY <2>1, <2>2, <2>3, <2>4, <2>5, <2>6 DEF Grows, SamePlace, s
  <1>4. CASE Ends(f, "FannedOut")
    <2> DEFINE g == f.generic
    <2>1. /\ Copying(f) /\ FanoutFits(f, u, t)
          /\ g \in PageIds /\ t[g] # NoRow /\ t[g].scope = Generic
      BY <1>4 DEF Fits, LocalsFit, Copying, HoldsGeneric
    <2>2. s[g] = u[g] /\ u[g] # NoRow /\ ~u[g].live /\ SamePlace(u[g], t[g])
      BY <1>1, <1>4, <2>1, Apart DEF FanoutFits
    <2>3. \A i \in PageIds : i # g =>
            \/ s[i] = t[i]
            \/ t[i] = NoRow /\ s[i].live /\ s[i].scope \in Sites
      BY <1>1, <2>1, Apart DEF FanoutFits, LiveSites
    <2>4. \A w \in Sites : s[w] = t[w]
      BY <1>1, <2>1, Apart DEF FanoutFits
    <2>5. ASSUME NEW m \in MenuIds, s[m] # t[m]
          PROVE  /\ m \in LiveMenus(t)
                 /\ \E i \in LivePages(s) : s[i].scope = t[m].site /\ Moved(t[m], s[m], i)
      <3>1. u[m] # NoRow /\ s[m] = u[m]
        BY <1>1, <2>5, Apart
      <3> QED
        BY <2>1, <3>1 DEF FanoutFits, BoundTo, s
    <2> QED
      BY <2>1, <2>2, <2>3, <2>4, <2>5 DEF Grows, SamePlace, s
  <1>5. CASE Editing(f)
    <2>1. EditFits(f, u, t)
      BY DEF Fits
    <2>2. \A i \in MenuIds \cup Sites : s[i] = t[i]
      BY <1>1, <1>5, <2>1, Apart DEF EditFits
    <2>3. \A i \in PageIds :
            \/ s[i] = t[i]
            \/ t[i] # NoRow /\ s[i] # NoRow /\ SamePlace(s[i], t[i]) /\ s[i].live = t[i].live
      BY <1>1, <1>5, <2>1, Apart DEF EditFits
    <2> QED
      BY <2>2, <2>3 DEF Grows, SamePlace, s
  <1> QED
    BY <1>2, <1>3, <1>4, <1>5, AtCommit

\* A commit that gives a website its own page of a key takes along the website's menus that
\* name the key's generic, and the generic dies only when all are served.
LEMMA CommitHands ==
    ASSUME NEW f, NEW u, NEW t, Fits(f, u, t), f.pc = "commit", TableState(t),
           TableState(Over(u, t)),
           NEW g \in PageIds, t[g] # NoRow, t[g].scope = Generic,
           HoldsGeneric(f) /\ t[g].key = f.key => g = f.generic
    PROVE  Hands(t, Over(u, t), g, t[g].key)
  <1> DEFINE s == Over(u, t)
             k == t[g].key
  <1>0. Grows(t, s)
    BY CommitGrows
  <1>1. \A i \in Id : s[i] = IF u[i] # NoRow THEN u[i] ELSE t[i]
    BY OverAt
  <1>2. TableState(s)
    OBVIOUS
  <1> HIDE DEF s
  <1>3. ASSUME NEW m \in BoundTo(s, g), Holds(s, k, t[m].site), ~Holds(t, k, t[m].site)
        PROVE  FALSE
    <2>1. /\ m \in BoundTo(t, g) /\ m \in LiveMenus(t) /\ m \in MenuIds
          /\ t[m].site \in Sites /\ s[m].page = g /\ m \in Id
      BY <1>0, <1>2, GrowsKeeps, Apart DEF BoundTo, LiveMenus
    <2>2. PICK i \in LivePages(s) : s[i].key = k /\ s[i].scope = t[m].site
      BY <1>3 DEF Holds
    <2>3. i \in PageIds /\ s[i] # NoRow /\ s[i].live /\ i \in Id
      BY <2>2, Apart DEF LivePages
    <2>4. s[i] = u[i] /\ u[i] # NoRow
      BY <1>1, <1>3, <2>2, <2>3 DEF Holds, LivePages
    <2>5. CASE Editing(f)
      BY <1>3, <2>2, <2>3, <2>4, <2>5 DEF Fits, EditFits, SamePlace, Holds, LivePages
    <2>6. CASE Ends(f, "Created")
      <3>1. /\ Made(f) /\ ForkFits(f, u, t) /\ f.pc # "fork.reselect" /\ HoldsGeneric(f)
        BY <2>6 DEF Fits, Made, HoldsGeneric, Ends
      <3>2. u[i].key = f.key /\ u[i].scope = f.scope /\ t[i] = NoRow /\ f.page = i
        BY <2>3, <2>4, <3>1 DEF ForkFits
      <3>3. g = f.generic /\ i # g
        BY <2>2, <2>4, <3>1, <3>2
      <3>4. u[m] # NoRow
        BY <2>1, <2>2, <2>4, <2>6, <3>1, <3>2, <3>3 DEF ForkFits
      <3>5. u[m].page = i
        BY <2>1, <2>6, <3>1, <3>2, <3>4 DEF ForkFits, Moved
      <3> QED
        BY <1>1, <2>1, <3>3, <3>4, <3>5
    <2>7. CASE Ends(f, "FannedOut")
      <3>1. Copying(f) /\ Rebound(f) /\ FanoutFits(f, u, t) /\ HoldsGeneric(f)
        BY <2>7 DEF Fits, Copying, HoldsGeneric, Rebound
      <3>2. i # f.generic /\ u[i].key = f.key
        BY <2>3, <2>4, <2>7, <3>1 DEF FanoutFits
      <3>3. g = f.generic
        BY <2>2, <2>4, <3>1, <3>2
      <3>4. u[m] # NoRow
        BY <1>3, <2>1, <2>2, <2>4, <3>1, <3>2, <3>3 DEF FanoutFits, s
      <3>5. PICK j \in LivePages(s) : s[j].scope = t[m].site /\ Moved(t[m], u[m], j)
        BY <2>1, <3>1, <3>4 DEF FanoutFits, s
      <3>6. j = g
        BY <1>1, <2>1, <3>4, <3>5 DEF Moved
      <3> QED
        BY <1>0, <2>1, <3>5, <3>6, Apart DEF Grows, SamePlace
    <2>8. CASE \A x \in Id : u[x] = NoRow
      BY <2>3, <2>4, <2>8
    <2> QED
      BY <2>5, <2>6, <2>7, <2>8, AtCommit
  <1>4. ASSUME t[g].live, ~s[g].live
        PROVE  Succeeded(s, g, k)
    <2>1. s[g] = u[g] /\ u[g] # NoRow
      BY <1>1, <1>4, Apart
    <2>2. Ends(f, "FannedOut")
      <3>1. CASE Ends(f, "Created")
        <4>1. Made(f) /\ ForkFits(f, u, t)
          BY <3>1 DEF Fits, Made
        <4> QED
          BY <2>1, <4>1 DEF ForkFits
      <3>2. CASE Editing(f)
        BY <1>4, <2>1, <3>2 DEF Fits, EditFits
      <3> QED
        BY <2>1, <3>1, <3>2, AtCommit, Apart
    <2>3. /\ Copying(f) /\ Rebound(f) /\ FanoutFits(f, u, t) /\ HoldsGeneric(f)
          /\ t[f.generic].key = f.key
      BY <2>2 DEF Fits, LocalsFit, Copying, HoldsGeneric, Rebound
    <2>4. g = f.generic
      BY <2>1, <2>3 DEF FanoutFits
    <2>5. k = f.key /\ f.targets = {}
      BY <2>2, <2>3, <2>4 DEF FanoutFits, Ends
    <2>6. \A w \in LiveSites(s) : Holds(s, k, w)
      BY <1>0, <1>2, <2>3, <2>5, GrowsKeeps DEF FanoutFits, s
    <2>7. ASSUME NEW m \in BoundTo(s, g)
          PROVE  ~Holds(s, k, s[m].site)
      <3>1. /\ m \in BoundTo(t, g) /\ m \in LiveMenus(t) /\ m \in MenuIds /\ m \in Id
            /\ t[m].site \in Sites /\ s[m].page = g /\ s[m].site = t[m].site
        BY <1>0, <1>2, GrowsKeeps, Apart DEF BoundTo, LiveMenus
      <3>2. SUFFICES ASSUME Holds(s, k, t[m].site) PROVE FALSE
        BY <3>1
      <3>3. u[m] # NoRow
        BY <2>3, <2>4, <2>5, <3>1, <3>2 DEF FanoutFits, s
      <3>4. PICK j \in LivePages(s) : s[j].scope = t[m].site /\ Moved(t[m], u[m], j)
        BY <2>3, <3>1, <3>3 DEF FanoutFits, s
      <3>5. j = g
        BY <1>1, <3>1, <3>3, <3>4 DEF Moved
      <3> QED
        BY <1>0, <3>1, <3>4, <3>5, Apart DEF Grows, SamePlace
    <2> QED
      BY <2>6, <2>7 DEF Succeeded
  <1> QED
    BY <1>3, <1>4 DEF Hands, s
-----------------------------------------------------------------------------
\* The invariant, when a request commits.

\* An idle handler relies on nothing.
LEMMA IdleFits ==
    ASSUME NEW a \in Answers, NEW u, NEW t, \A i \in Id : u[i] = NoRow
    PROVE  Fits(Idle(a), u, t) /\ ~HoldsGeneric(Idle(a)) /\ Idle(a).source = NoRow
  BY DEF Idle, Fits, LocalsFit, ForkFits, FanoutFits, EditFits, Forking, Fanning, Copying, Made,
         Editing, Ends, HoldsGeneric

\* The typed pieces of the invariant.
LEMMA SafeTypes ==
    ASSUME Safe
    PROVE  /\ PagesInv /\ StoreTypeOK /\ LocksExclusive /\ IndexesSafe
           /\ TableState(db) /\ BoundLocally(db)
           /\ ws \in [Procs -> [Id -> Row \cup {NoRow}]]
           /\ tx \in [Procs -> Frame]
           /\ \A p \in Procs : /\ View(p) = Over(ws[p], db) /\ TableState(ws[p])
                               /\ TableState(View(p)) /\ CollisionFree(View(p))
  <1>1. PagesInv /\ StoreTypeOK /\ LocksExclusive /\ IndexesSafe /\ BoundLocally(db)
    BY DEF Safe, LineageInv, PagesInv, TypeOK
  <1>2. \A p \in Procs : TableState(View(p))
    BY <1>1, ViewTyped
  <1>3. \A p \in Procs : View(p) = Over(ws[p], db)
    BY DEF View, Over
  <1> QED
    BY <1>1, <1>2, <1>3 DEF PagesInv, TypeOK, StoreTypeOK, IndexesSafe

\* A standing generic of the key of a handler is the one it has read.
LEMMA SameGeneric ==
    ASSUME Safe, NEW p \in Procs, NEW g \in PageIds, Named(g), HoldsGeneric(tx[p]),
           db[g].key = tx[p].key
    PROVE  g = tx[p].generic
  <1>1. /\ tx[p].generic \in PageIds /\ db[tx[p].generic] # NoRow
        /\ db[tx[p].generic].scope = Generic /\ db[tx[p].generic].key = tx[p].key
    BY DEF Safe, Fits, LocalsFit
  <1>2. Named(tx[p].generic)
    BY <1>1 DEF Named
  <1> QED
    BY <1>1, <1>2 DEF Safe, OneGeneric

\* What the table becomes.
LEMMA CommitTable ==
    ASSUME Safe, NEW p \in Procs, Commit(p)
    PROVE  /\ db' = Over(ws[p], db) /\ TableState(db') /\ Grows(db, db')
           /\ \A g \in PageIds : Named(g) => Hands(db, db', g, db[g].key)
           /\ \E a \in Answers : tx' = [tx EXCEPT ![p] = Idle(a)]
           /\ ws' = [ws EXCEPT ![p] = NoWrites]
           /\ \A q \in Procs \ {p}, i \in Id : ws[q][i] # NoRow => db'[i] = db[i]
  <1>1. /\ db' = Over(ws[p], db) /\ TableState(db') /\ tx[p].pc = "commit"
        /\ ws' = [ws EXCEPT ![p] = NoWrites] /\ Fits(tx[p], ws[p], db) /\ TableState(db)
    BY SafeTypes DEF Commit, CommitTx, At, Safe
  <1>2. Grows(db, db')
    BY <1>1, CommitGrows
  <1>3. ASSUME NEW g \in PageIds, Named(g)
        PROVE  Hands(db, db', g, db[g].key)
    <2>1. db[g] # NoRow /\ db[g].scope = Generic
      BY <1>3 DEF Named
    <2>2. HoldsGeneric(tx[p]) /\ db[g].key = tx[p].key => g = tx[p].generic
      BY <1>3, SameGeneric
    <2> QED
      BY <1>1, <2>1, <2>2, CommitHands
  <1>4. \E a \in Answers : tx' = [tx EXCEPT ![p] = Idle(a)]
    BY SafeTypes DEF Commit, Frame
  <1>5. ASSUME NEW q \in Procs \ {p}, NEW i \in Id, ws[q][i] # NoRow
        PROVE  db'[i] = db[i]
    <2>1. ws[p][i] = NoRow
      BY <1>5, SafeTypes DEF LocksExclusive
    <2> QED
      BY <1>1, <2>1, OverAt
  <1> QED
    BY <1>1, <1>2, <1>3, <1>4, <1>5

\* Menus of live websites stay on live pages.
LEMMA CommitBound ==
    ASSUME Safe, NEW p \in Procs, Commit(p)
    PROVE  MenusBoundToLive'
  <1>1. /\ TableState(db) /\ TableState(db') /\ Grows(db, db') /\ BoundLocally(db)
    BY SafeTypes, CommitTable
  <1> SUFFICES ASSUME NEW m \in LiveMenus(db'), db'[m].site \in LiveSites(db'),
                      db'[m].page # None, ~db'[db'[m].page].live
               PROVE  FALSE
    BY DEF MenusBoundToLive
  <1> DEFINE j == db[m].page
  <1>2. /\ m \in LiveMenus(db) /\ m \in MenuIds /\ db[m].site \in LiveSites(db)
        /\ db'[m].site = db[m].site /\ db[m].site \in Sites
    BY <1>1, GrowsKeeps DEF LiveMenus
  <1>3. db'[m] = db[m]
    BY <1>1, <1>2 DEF Grows, Moved, LivePages
  <1>4. j # None /\ j \in PageIds /\ db[j] # NoRow /\ db[j].live
    BY <1>1, <1>2, <1>3 DEF Safe, MenusBoundToLive, BoundLocally, LiveMenus, TableState, MenuRow
  <1>5. db[j].scope = Generic /\ ~db'[j].live
    BY <1>1, <1>3, <1>4 DEF Grows
  <1>6. Named(j)
    BY <1>4, <1>5 DEF Named
  <1>7. Succeeded(db', j, db[j].key)
    BY <1>4, <1>5, <1>6, CommitTable DEF Hands
  <1>8. m \in BoundTo(db', j)
    BY <1>3 DEF BoundTo
  <1> QED
    BY <1>7, <1>8 DEF Succeeded

\* No generic rises, and no url finds a second key.
LEMMA CommitNames ==
    ASSUME Safe, NEW p \in Procs, Commit(p)
    PROVE  OneGeneric' /\ OneKeyPerUrl'
  <1>1. /\ TableState(db) /\ TableState(db') /\ Grows(db, db') /\ tx \in [Procs -> Frame]
        /\ db' = Over(ws[p], db) /\ ws' = [ws EXCEPT ![p] = NoWrites]
        /\ ws \in [Procs -> [Id -> Row \cup {NoRow}]]
    BY SafeTypes, CommitTable
  <1>2. PICK a \in Answers : tx' = [tx EXCEPT ![p] = Idle(a)]
    BY CommitTable
  <1>3. /\ ~HoldsGeneric(tx'[p]) /\ tx'[p].source = NoRow
        /\ \A q \in Procs : q # p => tx'[q] = tx[q]
    <2>1. \A i \in Id : NoWrites[i] = NoRow
      BY DEF NoWrites
    <2> QED
      BY <1>1, <1>2, <2>1, IdleFits
  <1>4. ASSUME NEW i \in PageIds, Named(i)'
        PROVE  Named(i) /\ db'[i].key = db[i].key
    <2>1. db[i] # NoRow
      BY <1>1, <1>4, Apart DEF Named, Grows
    <2>2. db[i].scope = Generic /\ db'[i].key = db[i].key
      BY <1>1, <1>4, <2>1 DEF Named, Grows, SamePlace
    <2>3. CASE db'[i].live
      BY <1>1, <2>1, <2>2, <2>3 DEF Named, Grows
    <2>4. CASE BoundTo(db', i) # {}
      BY <1>1, <2>1, <2>2, <2>4, GrowsKeeps DEF Named
    <2>5. CASE \E q \in Procs : HoldsGeneric(tx'[q]) /\ tx'[q].generic = i
      BY <1>3, <2>1, <2>2, <2>5 DEF Named
    <2> QED
      BY <1>4, <2>3, <2>4, <2>5 DEF Named
  <1>5. OneGeneric'
    BY <1>4 DEF Safe, OneGeneric
  <1>6. ASSUME NEW url, NEW k, Placed(url, k)'
        PROVE  Placed(url, k)
    <2>1. ASSUME NEW i \in LivePages(db'), db'[i].url = url, db'[i].key = k
          PROVE  Placed(url, k)
      <3>1. i \in Id /\ db'[i] = IF ws[p][i] # NoRow THEN ws[p][i] ELSE db[i]
        BY <1>1, OverAt, Apart DEF LivePages
      <3> QED
        BY <2>1, <3>1 DEF Placed, LivePages
    <2>2. ASSUME NEW q \in Procs, NEW i \in LivePages(ws'[q]), ws'[q][i].url = url,
                 ws'[q][i].key = k
          PROVE  Placed(url, k)
      <3>1. i \in Id /\ ws'[q][i] # NoRow
        BY Apart DEF LivePages
      <3>2. ws'[q] = ws[q]
        BY <1>1, <3>1 DEF NoWrites
      <3> QED
        BY <2>2, <3>2 DEF Placed
    <2>3. ASSUME NEW q \in Procs, tx'[q].source # NoRow, tx'[q].source.url = url,
                 tx'[q].source.key = k
          PROVE  Placed(url, k)
      BY <1>3, <2>3 DEF Placed
    <2> QED
      BY <1>6, <2>1, <2>2, <2>3 DEF Placed
  <1>7. OneKeyPerUrl'
    BY <1>6 DEF Safe, OneKeyPerUrl
  <1> QED
    BY <1>5, <1>7

\* Every handler still fits.
LEMMA CommitFits ==
    ASSUME Safe, NEW p \in Procs, Commit(p), NEW q \in Procs
    PROVE  Fits(tx'[q], ws'[q], db')
  <1>1. /\ TableState(db) /\ TableState(db') /\ Grows(db, db') /\ tx \in [Procs -> Frame]
        /\ ws' = [ws EXCEPT ![p] = NoWrites] /\ ws \in [Procs -> [Id -> Row \cup {NoRow}]]
    BY SafeTypes, CommitTable
  <1>2. PICK a \in Answers : tx' = [tx EXCEPT ![p] = Idle(a)]
    BY CommitTable
  <1>3. CASE q = p
    <2>1. tx'[q] = Idle(a) /\ ws'[q] = NoWrites
      BY <1>1, <1>2, <1>3
    <2>2. \A i \in Id : NoWrites[i] = NoRow
      BY DEF NoWrites
    <2> QED
      BY <2>1, <2>2, IdleFits
  <1>4. CASE q # p
    <2>1. tx'[q] = tx[q] /\ ws'[q] = ws[q] /\ Fits(tx[q], ws[q], db)
      BY <1>1, <1>2, <1>4 DEF Safe
    <2>2. \A i \in Id : ws[q][i] # NoRow => db'[i] = db[i]
      BY <1>4, CommitTable
    <2>3. ASSUME HoldsGeneric(tx[q])
          PROVE  Hands(db, db', tx[q].generic, tx[q].key)
      <3>1. /\ tx[q].generic \in PageIds /\ db[tx[q].generic] # NoRow
            /\ db[tx[q].generic].scope = Generic /\ db[tx[q].generic].key = tx[q].key
        BY <2>1, <2>3 DEF Fits, LocalsFit
      <3>2. Named(tx[q].generic)
        BY <2>3, <3>1 DEF Named
      <3>3. Hands(db, db', tx[q].generic, db[tx[q].generic].key)
        BY <3>1, <3>2, CommitTable
      <3> QED
        BY <3>1, <3>3
    <2> QED
      BY <1>1, <2>1, <2>2, <2>3, FitsGrow
  <1> QED
    BY <1>3, <1>4
-----------------------------------------------------------------------------
\* The statements of one request: the others' handlers and the table stay.

\* Request p goes on to locals that fit what it has written, with a generic that stands and
\* nothing written or read at a new url.
Lands(p) ==
    /\ Fits(tx'[p], ws'[p], db)
    /\ HoldsGeneric(tx'[p]) => Named(tx'[p].generic)
    /\ \A i \in LivePages(ws'[p]) : Placed(ws'[p][i].url, ws'[p][i].key)
    /\ tx'[p].source # NoRow => Placed(tx'[p].source.url, tx'[p].source.key)

\* Such a step keeps the invariant.
LEMMA LandsKeeps ==
    ASSUME Safe, NEW p \in Procs, Lands(p), db' = db,
           \A q \in Procs \ {p} : tx'[q] = tx[q] /\ ws'[q] = ws[q]
    PROVE  /\ MenusBoundToLive' /\ OneKeyPerUrl' /\ OneGeneric'
           /\ \A q \in Procs : Fits(tx'[q], ws'[q], db')
  <1>1. MenusBoundToLive'
    BY DEF Safe, MenusBoundToLive
  <1>2. \A q \in Procs : Fits(tx'[q], ws'[q], db')
    BY DEF Safe, Lands
  <1>3. ASSUME NEW i \in PageIds, Named(i)'
        PROVE  Named(i) /\ db'[i].key = db[i].key
    BY <1>3 DEF Named, Lands
  <1>4. OneGeneric'
    BY <1>3 DEF Safe, OneGeneric
  <1>5. ASSUME NEW url, NEW k, Placed(url, k)'
        PROVE  Placed(url, k)
    BY <1>5 DEF Placed, Lands
  <1>6. OneKeyPerUrl'
    BY <1>5 DEF Safe, OneKeyPerUrl
  <1> QED
    BY <1>1, <1>2, <1>4, <1>6

\* Where Goto leads.
LEMMA GotoFields ==
    ASSUME tx \in [Procs -> Frame], NEW p \in Procs, NEW f \in Frame, NEW label,
           Goto(p, f, label)
    PROVE  /\ tx'[p].pc = label /\ tx'[p].key = f.key /\ tx'[p].scope = f.scope
           /\ tx'[p].page = f.page /\ tx'[p].generic = f.generic /\ tx'[p].source = f.source
           /\ tx'[p].targets = f.targets /\ tx'[p].created = f.created
  BY DEF Goto, Frame

\* Where Finish leads.
LEMMA FinishFields ==
    ASSUME tx \in [Procs -> Frame], NEW p \in Procs, NEW f \in Frame, NEW a, Finish(p, f, a)
    PROVE  /\ tx'[p].pc = "commit" /\ tx'[p].answer = a
           /\ tx'[p].key = f.key /\ tx'[p].scope = f.scope
           /\ tx'[p].page = f.page /\ tx'[p].generic = f.generic /\ tx'[p].source = f.source
           /\ tx'[p].targets = f.targets /\ tx'[p].created = f.created
  BY DEF Finish, Frame

\* A handler that returns an error.
LEMMA FailLands ==
    ASSUME Safe, NEW p \in Procs, NEW a \in Answers, Fail(p, a)
    PROVE  Lands(p)
  <1>1. tx'[p] = Idle(a) /\ ws'[p] = NoWrites
    BY SafeTypes DEF Fail, RollbackTx
  <1>2. \A i \in Id : NoWrites[i] = NoRow
    BY DEF NoWrites
  <1>3. LivePages(NoWrites) = {}
    BY <1>2, Apart DEF LivePages
  <1>4. /\ Fits(Idle(a), NoWrites, db) /\ ~HoldsGeneric(Idle(a)) /\ Idle(a).source = NoRow
    BY <1>2, IdleFits
  <1> QED
    BY <1>1, <1>3, <1>4 DEF Lands

\* What p has written is in play.
LEMMA OwnPlaced ==
    ASSUME NEW p \in Procs, UNCHANGED storeVars
    PROVE  ws'[p] = ws[p] /\ \A i \in LivePages(ws'[p]) : Placed(ws'[p][i].url, ws'[p][i].key)
  BY DEF storeVars, Placed

\* A handler that has written nothing sees the committed table.
LEMMA CleanSees ==
    ASSUME Safe, NEW p \in Procs, ~Made(tx[p]), ~Copying(tx[p]), ~Editing(tx[p])
    PROVE  /\ \A i \in Id : ws[p][i] = NoRow /\ View(p)[i] = db[i]
           /\ LivePages(View(p)) = LivePages(db)
           /\ \A i \in LivePages(db) : View(p)[i] = db[i]
           /\ LiveSites(View(p)) = LiveSites(db)
  <1>1. \A i \in Id : ws[p][i] = NoRow
    BY DEF Safe, Fits
  <1>2. \A i \in Id : View(p)[i] = db[i]
    BY <1>1 DEF View
  <1> QED
    BY <1>1, <1>2, Apart DEF LivePages, LiveSites

\* A handler that has written nothing fits when its locals do.
LEMMA CleanFits ==
    ASSUME NEW f, NEW u, NEW t, LocalsFit(f, t), ~Made(f), ~Copying(f), ~Editing(f),
           f.pc # "fork.reselect", \A i \in Id : u[i] = NoRow
    PROVE  Fits(f, u, t)
  BY DEF Fits, ForkFits, FanoutFits, EditFits, Made

\* A call begins.
LEMMA StartLands ==
    ASSUME Safe, VersioningOnly, NEW p \in Procs, Start(p)
    PROVE  Lands(p)
  <1>1. \A a, l, f : Begin(p, a, l, f) =>
          tx[p].pc = "idle" /\ UNCHANGED storeVars /\ Goto(p, f, l)
          /\ a \in {"fork", "fanout", "publish", "unpublish"}
    BY DEF Begin, VersioningOnly
  <1>2. tx \in [Procs -> Frame] /\ Idle("none") \in Frame
    BY SafeTypes, IdleFrame DEF Answers
  <1>3. tx[p].pc = "idle" /\ UNCHANGED storeVars
    BY <1>1 DEF Start, BeginFork, BeginFanout, BeginCreate, BeginPatch, BeginPublish, BeginRename,
                BeginDelete
  <1>4. /\ tx'[p].source = NoRow
        /\ \/ tx'[p].pc = "fork.resolve" /\ tx'[p].key \in Keys /\ tx'[p].scope \in Sites
           \/ tx'[p].pc = "fanout.generic" /\ tx'[p].key \in Keys
           \/ tx'[p].pc \in {"publish.update", "unpublish.update"}
    <2>1. CASE BeginFork(p)
      <3>1. PICK k \in Keys, w \in Sites :
              Goto(p, [Idle("none") EXCEPT !.key = k, !.scope = w], "fork.resolve")
        BY <1>1, <2>1 DEF BeginFork
      <3> QED
        BY <1>2, <3>1 DEF Goto, Idle
    <2>2. CASE BeginFanout(p)
      <3>1. PICK k \in Keys, a \in Actors :
              Goto(p, [Idle("none") EXCEPT !.key = k, !.actor = a], "fanout.generic")
        BY <1>1, <2>2 DEF BeginFanout
      <3> QED
        BY <1>2, <3>1 DEF Goto, Idle
    <2>3. CASE BeginPublish(p)
      <3>1. PICK i \in PageIds, l \in {"publish.update", "unpublish.update"} :
              Goto(p, [Idle("none") EXCEPT !.page = i], l)
        BY <1>1, <2>3 DEF BeginPublish
      <3> QED
        BY <1>2, <3>1 DEF Goto, Idle
    <2>4. ~BeginCreate(p) /\ ~BeginPatch(p) /\ ~BeginRename(p) /\ ~BeginDelete(p)
      <3>1. \A a \in {"create", "patch", "rename", "delete"} : \A l, f : ~Begin(p, a, l, f)
        BY <1>1
      <3> QED
        BY <3>1, Zenon DEF BeginCreate, BeginPatch, BeginRename, BeginDelete
    <2> QED
      BY <2>1, <2>2, <2>3, <2>4 DEF Start
  <1>5. ~Made(tx[p]) /\ ~Copying(tx[p]) /\ ~Editing(tx[p])
    BY <1>3 DEF Made, Copying, Editing, Ends
  <1>6. \A i \in Id : ws'[p][i] = NoRow
    BY <1>3, <1>5, CleanSees, OwnPlaced
  <1>7. /\ ~Made(tx'[p]) /\ ~Copying(tx'[p]) /\ ~Editing(tx'[p]) /\ ~HoldsGeneric(tx'[p])
        /\ LocalsFit(tx'[p], db) /\ tx'[p].pc # "fork.reselect"
    BY <1>4 DEF Made, Copying, Editing, Ends, HoldsGeneric, LocalsFit, Forking, Fanning
  <1> QED
    BY <1>3, <1>4, <1>6, <1>7, CleanFits, OwnPlaced DEF Lands

\* The fork asks for the website's own page.
LEMMA ForkResolveLands ==
    ASSUME Safe, NEW p \in Procs, ForkResolve(p)
    PROVE  Lands(p)
  <1> DEFINE f == tx[p]
             v == View(p)
  <1>1. /\ tx \in [Procs -> Frame] /\ f \in Frame /\ f.pc = "fork.resolve" /\ UNCHANGED storeVars
        /\ LocalsFit(f, db)
    BY SafeTypes DEF ForkResolve, At, Safe, Fits
  <1>2. ~Made(f) /\ ~Copying(f) /\ ~Editing(f)
    BY <1>1 DEF Made, Copying, Editing, Ends
  <1>3. \/ Goto(p, f, "fork.generic")
        \/ Goto(p, f, "fork.confirm") /\ Holds(db, f.key, f.scope)
    <2>1. CASE \E i \in ResolveSpecific(v, f.key, f.scope) : v[i].scope = f.scope
      <3>1. PICK i \in LivePages(v) : v[i].key = f.key /\ v[i].scope = f.scope
        BY <2>1 DEF ResolveSpecific, PreferSpecific, LiveScope
      <3>2. Holds(db, f.key, f.scope)
        BY <1>2, <3>1, CleanSees DEF Holds
      <3> QED
        BY <2>1, <3>2 DEF ForkResolve
    <2>2. CASE ~\E i \in ResolveSpecific(v, f.key, f.scope) : v[i].scope = f.scope
      BY <2>2 DEF ForkResolve
    <2> QED
      BY <2>1, <2>2
  <1>4. /\ tx'[p].pc \in {"fork.generic", "fork.confirm"}
        /\ tx'[p].pc = "fork.confirm" => Holds(db, f.key, f.scope)
        /\ tx'[p].key = f.key /\ tx'[p].scope = f.scope /\ tx'[p].source = f.source
    BY <1>1, <1>3, GotoFields
  <1>5. f.key \in Keys /\ f.scope \in Sites /\ f.source = NoRow
    BY <1>1 DEF LocalsFit, Forking
  <1>6. /\ ~Made(tx'[p]) /\ ~Copying(tx'[p]) /\ ~Editing(tx'[p]) /\ ~HoldsGeneric(tx'[p])
        /\ LocalsFit(tx'[p], db) /\ tx'[p].pc # "fork.reselect"
    BY <1>4, <1>5 DEF Made, Copying, Editing, Ends, HoldsGeneric, LocalsFit, Forking, Fanning
  <1> QED
    BY <1>1, <1>2, <1>4, <1>5, <1>6, CleanFits, CleanSees, OwnPlaced DEF Lands

\* It ends with the page that was there.
LEMMA ExistingLands ==
    ASSUME Safe, NEW p \in Procs, NEW i \in PageIds, UNCHANGED storeVars,
           Finish(p, [tx[p] EXCEPT !.page = i], "Existing"),
           ~Made(tx[p]), ~Copying(tx[p]), ~Editing(tx[p]), tx[p].source = NoRow
    PROVE  Lands(p)
  <1>0. tx[p] \in Frame
    BY SafeTypes
  <1>1. PICK f \in Frame : f = [tx[p] EXCEPT !.page = i] /\ f.source = tx[p].source
    BY <1>0 DEF Frame
  <1>2. Ends(tx'[p], "Existing") /\ tx'[p].source = NoRow
    <2>1. Finish(p, f, "Existing")
      BY <1>1
    <2>2. tx \in [Procs -> Frame]
      BY SafeTypes
    <2>3. tx'[p].pc = "commit" /\ tx'[p].answer = "Existing" /\ tx'[p].source = f.source
      BY <2>1, <2>2, FinishFields
    <2> QED
      BY <1>1, <2>3 DEF Ends
  <1>3. /\ ~Made(tx'[p]) /\ ~Copying(tx'[p]) /\ ~Editing(tx'[p]) /\ ~HoldsGeneric(tx'[p])
        /\ LocalsFit(tx'[p], db) /\ tx'[p].pc # "fork.reselect"
    BY <1>2 DEF Made, Copying, Editing, Ends, HoldsGeneric, LocalsFit, Forking, Fanning
  <1> QED
    BY <1>2, <1>3, CleanFits, CleanSees, OwnPlaced DEF Lands

\* A specific answers.
LEMMA ForkConfirmLands ==
    ASSUME Safe, NEW p \in Procs, ForkConfirm(p)
    PROVE  Lands(p)
  <1>1. tx[p].pc = "fork.confirm" /\ LocalsFit(tx[p], db)
    BY DEF ForkConfirm, At, Safe, Fits
  <1>2. ~Made(tx[p]) /\ ~Copying(tx[p]) /\ ~Editing(tx[p]) /\ tx[p].source = NoRow
    BY <1>1 DEF Made, Copying, Editing, Ends, LocalsFit
  <1>3. CASE Fail(p, "Internal")
    BY <1>3, FailLands DEF Answers
  <1>4. ASSUME NEW i \in ResolveSpecificEntity(View(p), tx[p].key, tx[p].scope),
               Finish(p, [tx[p] EXCEPT !.page = i], "Existing"), UNCHANGED storeVars
        PROVE  Lands(p)
    BY <1>2, <1>4, ExistingLands DEF ResolveSpecificEntity, LivePages
  <1> QED
    BY <1>3, <1>4 DEF ForkConfirm

\* A handler that has written nothing reads a generic.
LEMMA GenericRead ==
    ASSUME Safe, NEW p \in Procs, ~Made(tx[p]), ~Copying(tx[p]), ~Editing(tx[p]),
           NEW g \in ResolveGeneric(View(p), tx[p].key)
    PROVE  /\ g \in PageIds /\ db[g] # NoRow /\ db[g].live /\ db[g].key = tx[p].key
           /\ db[g].scope = Generic /\ Named(g)
           /\ [tx[p] EXCEPT !.generic = g] \in Frame
           /\ [tx[p] EXCEPT !.generic = g].generic = g
           /\ [tx[p] EXCEPT !.generic = g].key = tx[p].key
           /\ [tx[p] EXCEPT !.generic = g].scope = tx[p].scope
           /\ [tx[p] EXCEPT !.generic = g].source = tx[p].source
  <1>1. g \in LivePages(db) /\ db[g].key = tx[p].key /\ db[g].scope = Generic
    BY CleanSees DEF ResolveGeneric
  <1>2. g \in PageIds /\ db[g] # NoRow /\ db[g].live
    BY <1>1 DEF LivePages
  <1>3. Named(g)
    BY <1>1, <1>2 DEF Named
  <1>4. tx[p] \in Frame
    BY SafeTypes
  <1>5. /\ [tx[p] EXCEPT !.generic = g] \in Frame
        /\ [tx[p] EXCEPT !.generic = g].generic = g
        /\ [tx[p] EXCEPT !.generic = g].key = tx[p].key
        /\ [tx[p] EXCEPT !.generic = g].scope = tx[p].scope
        /\ [tx[p] EXCEPT !.generic = g].source = tx[p].source
    BY <1>2, <1>4 DEF Frame
  <1> QED
    BY <1>1, <1>2, <1>3, <1>5

\* The fork has no page to confirm and reads the generic.
LEMMA ForkLoadGenericLands ==
    ASSUME Safe, NEW p \in Procs, ForkLoadGeneric(p)
    PROVE  Lands(p)
  <1>1. tx[p].pc = "fork.generic" /\ LocalsFit(tx[p], db)
    BY DEF ForkLoadGeneric, At, Safe, Fits
  <1>2. /\ ~Made(tx[p]) /\ ~Copying(tx[p]) /\ ~Editing(tx[p]) /\ tx[p].source = NoRow
        /\ tx[p].key \in Keys /\ tx[p].scope \in Sites
    BY <1>1 DEF Made, Copying, Editing, Ends, LocalsFit, Forking
  <1>3. CASE Fail(p, "ForkSourceMissing")
    BY <1>3, FailLands DEF Answers
  <1>4. ASSUME NEW g \in ResolveGeneric(View(p), tx[p].key), UNCHANGED storeVars,
               Goto(p, [tx[p] EXCEPT !.generic = g], "fork.select")
        PROVE  Lands(p)
    <2>1. PICK f : f = [tx[p] EXCEPT !.generic = g]
      OBVIOUS
    <2>2. /\ g \in PageIds /\ db[g] # NoRow /\ db[g].live /\ db[g].key = tx[p].key
          /\ db[g].scope = Generic /\ Named(g)
          /\ f \in Frame /\ f.generic = g /\ f.key = tx[p].key /\ f.scope = tx[p].scope
          /\ f.source = NoRow /\ Goto(p, f, "fork.select")
      BY <1>2, <1>4, <2>1, GenericRead
    <2>3. /\ tx'[p].pc = "fork.select" /\ tx'[p].generic = g /\ tx'[p].key = tx[p].key
          /\ tx'[p].scope = tx[p].scope /\ tx'[p].source = NoRow
      BY <2>2, GotoFields, SafeTypes
    <2>4. /\ ~Made(tx'[p]) /\ ~Copying(tx'[p]) /\ ~Editing(tx'[p])
          /\ LocalsFit(tx'[p], db) /\ tx'[p].pc # "fork.reselect"
      BY <1>2, <2>2, <2>3 DEF Made, Copying, Editing, Ends, HoldsGeneric, LocalsFit, Forking,
                              Fanning
    <2> QED
      BY <1>2, <1>4, <2>2, <2>3, <2>4, CleanFits, CleanSees, OwnPlaced DEF Lands
  <1> QED
    BY <1>3, <1>4 DEF ForkLoadGeneric

\* A copy's source is the generic as it is, if it is live.
LEMMA SourceRead ==
    ASSUME Safe, NEW p \in Procs, NEW label, SelectSource(p, label),
           tx[p].pc \in {"fork.select", "fanout.select"}
    PROVE  /\ UNCHANGED storeVars
           /\ tx'[p].pc = label /\ tx'[p].key = tx[p].key /\ tx'[p].scope = tx[p].scope
           /\ tx'[p].generic = tx[p].generic /\ tx'[p].targets = tx[p].targets
           /\ tx'[p].source = NoRow => ~db[tx[p].generic].live
           /\ tx'[p].source # NoRow =>
                /\ tx'[p].source.live /\ tx'[p].source.key = tx[p].key
                /\ Placed(tx'[p].source.url, tx'[p].source.key)
           /\ Named(tx'[p].generic)
  <1> DEFINE g == tx[p].generic
  <1>1. /\ Fits(tx[p], ws[p], db) /\ HoldsGeneric(tx[p])
    BY DEF Safe, HoldsGeneric, Copying
  <1>2. /\ g \in PageIds /\ g \in Id /\ db[g] # NoRow /\ db[g].key = tx[p].key
        /\ db[g].scope = Generic
    BY <1>1, Apart DEF Fits, LocalsFit
  <1>3. ws[p][g] = NoRow
    <2>1. CASE tx[p].pc = "fork.select"
      <3>1. ~Made(tx[p]) /\ ~Copying(tx[p]) /\ ~Editing(tx[p])
        BY <2>1 DEF Made, Copying, Editing, Ends
      <3> QED
        BY <1>2, <3>1, CleanSees
    <2>2. CASE tx[p].pc = "fanout.select"
      BY <1>1, <2>2 DEF Fits, FanoutFits, Copying, Ends
    <2> QED
      BY <2>1, <2>2
  <1>4. View(p)[g] = db[g] /\ db[g] \in PageRow
    BY <1>2, <1>3, SafeTypes DEF View, TableState
  <1>5. PICK r : r = IF db[g].live THEN db[g] ELSE NoRow
    OBVIOUS
  <1>6. PICK f : f = [tx[p] EXCEPT !.source = r]
    OBVIOUS
  <1>7. /\ f \in Frame /\ f.source = r /\ f.key = tx[p].key /\ f.scope = tx[p].scope
        /\ f.generic = g /\ f.targets = tx[p].targets
    <2>1. tx[p] \in Frame /\ r \in PageRow \cup {NoRow}
      BY <1>4, <1>5, SafeTypes
    <2> QED
      BY <1>6, <2>1 DEF Frame
  <1>8. Goto(p, f, label) /\ UNCHANGED storeVars
    BY <1>4, <1>5, <1>6 DEF SelectSource
  <1>9. /\ tx'[p].pc = label /\ tx'[p].key = tx[p].key /\ tx'[p].scope = tx[p].scope
        /\ tx'[p].generic = g /\ tx'[p].source = r /\ tx'[p].targets = tx[p].targets
    BY <1>7, <1>8, GotoFields, SafeTypes
  <1>10. r # NoRow => db[g].live /\ r = db[g] /\ Placed(db[g].url, db[g].key)
    BY <1>2, <1>5 DEF Placed, LivePages
  <1>11. r = NoRow => ~db[g].live
    BY <1>2, <1>5
  <1>12. Named(g)
    BY <1>1, <1>2 DEF Named
  <1> QED
    BY <1>2, <1>8, <1>9, <1>10, <1>11, <1>12

\* The fork reads its source.
LEMMA ForkSelectLands ==
    ASSUME Safe, NEW p \in Procs, ForkSelect(p)
    PROVE  Lands(p)
  <1>1. tx[p].pc = "fork.select" /\ LocalsFit(tx[p], db) /\ SelectSource(p, "fork.insert")
    BY DEF ForkSelect, At, Safe, Fits
  <1>2. /\ ~Made(tx[p]) /\ ~Copying(tx[p]) /\ ~Editing(tx[p])
        /\ tx[p].key \in Keys /\ tx[p].scope \in Sites /\ HoldsGeneric(tx[p])
    BY <1>1 DEF Made, Copying, Editing, Ends, LocalsFit, Forking, HoldsGeneric
  <1>3. /\ tx'[p].pc = "fork.insert" /\ tx'[p].key = tx[p].key /\ tx'[p].scope = tx[p].scope
        /\ tx'[p].generic = tx[p].generic
        /\ tx'[p].source = NoRow => ~db[tx[p].generic].live
        /\ tx'[p].source # NoRow => tx'[p].source.live /\ tx'[p].source.key = tx[p].key
    BY <1>1, SourceRead
  <1>4. /\ ~Made(tx'[p]) /\ ~Copying(tx'[p]) /\ ~Editing(tx'[p]) /\ tx'[p].pc # "fork.reselect"
    BY <1>3 DEF Made, Copying, Editing, Ends
  <1>5. LocalsFit(tx'[p], db)
    BY <1>1, <1>2, <1>3 DEF LocalsFit, Forking, Fanning, Copying, Ends
  <1> QED
    BY <1>1, <1>2, <1>4, <1>5, CleanFits, CleanSees, OwnPlaced, SourceRead DEF Lands


-----------------------------------------------------------------------------
\* Writing.

\* What a statement leaves in the write set of its request.
LEMMA WroteAt ==
    ASSUME Safe, NEW p \in Procs, NEW w, Write(p, w)
    PROVE  \A i \in Id : ws'[p][i] = IF i \in DOMAIN w THEN w[i] ELSE ws[p][i]
  <1>1. ws'[p] = Overlay(ws[p], w)
    BY SafeTypes DEF Write
  <1> QED
    BY <1>1 DEF Overlay

\* The copy that a fork or a fanout is about to insert.
LEMMA CopyRow ==
    ASSUME Safe, NEW p \in Procs, tx[p].pc \in {"fork.insert", "fanout.insert"},
           NEW w \in Sites, tx[p].source # NoRow
    PROVE  LET copy == SpecificCopy(tx[p].source, tx[p].generic, w)
           IN  /\ copy \in PageRow /\ copy # NoRow /\ copy.live /\ copy.key = tx[p].key
               /\ copy.scope = w /\ copy.url = tx[p].source.url
               /\ Placed(copy.url, copy.key)
  <1>1. LocalsFit(tx[p], db) /\ tx[p] \in Frame
    BY SafeTypes DEF Safe, Fits
  <1>2. /\ tx[p].source \in PageRow /\ tx[p].source.live /\ tx[p].source.key = tx[p].key
    BY <1>1 DEF LocalsFit, Frame
  <1>3. tx[p].generic \in PageIds
    BY <1>1 DEF LocalsFit, HoldsGeneric, Copying
  <1>4. Placed(tx[p].source.url, tx[p].source.key)
    BY DEF Placed
  <1>5. PICK copy : copy = SpecificCopy(tx[p].source, tx[p].generic, w)
    OBVIOUS
  <1>6. /\ copy \in PageRow /\ copy.live = tx[p].source.live /\ copy.key = tx[p].source.key
        /\ copy.scope = w /\ copy.url = tx[p].source.url
    BY <1>2, <1>3, <1>5 DEF SpecificCopy, PageRow, Scopes
  <1>7. copy # NoRow
    BY <1>6, NoRowAssumption DEF Row
  <1> QED
    BY <1>2, <1>4, <1>5, <1>6, <1>7

\* A live page of the table of a key that a website holds is seen by a copying handler.
LEMMA CopierSees ==
    ASSUME Safe, NEW p \in Procs, tx[p].pc \in {"fork.insert", "fanout.insert"},
           NEW k, NEW w \in Sites, Holds(db, k, w)
    PROVE  Holds(View(p), k, w)
  <1>1. CASE tx[p].pc = "fork.insert"
    <2>1. ~Made(tx[p]) /\ ~Copying(tx[p]) /\ ~Editing(tx[p])
      BY <1>1 DEF Made, Copying, Editing, Ends
    <2> QED
      BY <2>1, CleanSees DEF Holds
  <1>2. CASE tx[p].pc = "fanout.insert"
    <2>1. Copying(tx[p]) /\ HoldsGeneric(tx[p])
      BY <1>2 DEF Copying, HoldsGeneric
    <2>2. PICK i \in LivePages(db) : db[i].key = k /\ db[i].scope = w
      BY DEF Holds
    <2>3. i \in PageIds /\ i \in Id /\ db[i] # NoRow /\ db[i].live
      BY <2>2, Apart DEF LivePages
    <2>4. i # tx[p].generic
      BY <2>1, <2>2, Apart DEF Safe, Fits, LocalsFit
    <2>5. ws[p][i] = NoRow
      BY <2>1, <2>3, <2>4 DEF Safe, Fits, FanoutFits
    <2>6. View(p)[i] = db[i]
      BY <2>3, <2>5 DEF View
    <2> QED
      BY <2>2, <2>3, <2>6 DEF Holds, LivePages
  <1> QED
    BY <1>1, <1>2

\* The step of p inserts its copy for the website w at the primary key i.
Inserts(p, w, i) ==
    /\ db[i] = NoRow /\ ws[p][i] = NoRow
    /\ ws'[p][i] # NoRow /\ ws'[p][i].live
    /\ ws'[p][i].key = tx[p].key /\ ws'[p][i].scope = w
    /\ Placed(ws'[p][i].url, ws'[p][i].key)
    /\ \A j \in Id \ {i} : ws'[p][j] = ws[p][j]

\* The copy lands on a row that nobody had, or the live website holds the key.
LEMMA InsertCopyMeans ==
    ASSUME Safe, NEW p \in Procs, tx[p].pc \in {"fork.insert", "fanout.insert"},
           NEW w \in Sites, NEW landed \in BOOLEAN, InsertSpecificCopy(p, w, landed)
    PROVE  \/ landed /\ \E i \in PageIds : Inserts(p, w, i)
           \/ /\ ~landed /\ UNCHANGED storeVars
              /\ w \in LiveSites(db) => Holds(View(p), tx[p].key, w)
  <1>1. LocalsFit(tx[p], db)
    BY DEF Safe, Fits
  <1>2. CASE tx[p].source = NoRow
    <2>1. ~landed /\ UNCHANGED storeVars
      BY <1>2 DEF InsertSpecificCopy
    <2>2. HoldsGeneric(tx[p]) /\ ~db[tx[p].generic].live
      BY <1>1, <1>2 DEF LocalsFit, HoldsGeneric, Copying
    <2>3. w \in LiveSites(db) => Holds(db, tx[p].key, w)
      BY <1>1, <2>2 DEF LocalsFit, Succeeded
    <2> QED
      BY <2>1, <2>3, CopierSees
  <1>3. CASE tx[p].source # NoRow
    <2>1. PICK copy : copy = SpecificCopy(tx[p].source, tx[p].generic, w)
      OBVIOUS
    <2>2. /\ copy \in PageRow /\ copy # NoRow /\ copy.live /\ copy.key = tx[p].key
          /\ copy.scope = w /\ copy.url = tx[p].source.url
          /\ Placed(copy.url, copy.key)
      BY <1>3, <2>1, CopyRow
    <2>3. PICK i : i = NewId(PageIds)
      OBVIOUS
    <2>4. PICK new : new = Version(i, copy)
      OBVIOUS
    <2>5. DOMAIN new = {i} /\ new[i] = copy
      BY <2>4 DEF Version
    <2>6. /\ Unused(PageIds) # {}
          /\ \/ ~landed /\ Refused(p, new)
             \/ landed /\ Write(p, new)
      BY <1>3, <2>1, <2>3, <2>4 DEF InsertSpecificCopy
    <2>7. i \in PageIds /\ i \in Id /\ db[i] = NoRow /\ \A q \in Procs : ws[q][i] = NoRow
      BY <2>3, <2>6, Apart DEF NewId, Unused
    <2>8. CASE landed /\ Write(p, new)
      <3>1. \A j \in Id : ws'[p][j] = IF j = i THEN copy ELSE ws[p][j]
        BY <2>5, <2>8, WroteAt
      <3> QED
        BY <2>2, <2>7, <2>8, <3>1 DEF Inserts
    <2>9. CASE ~landed /\ Refused(p, new)
      <3>1. PICK j \in Id : Collide(i, copy, j, Overlay(View(p), new)[j])
        BY <2>5, <2>9 DEF Refused, Conflicts
      <3>2. i # j /\ Overlay(View(p), new)[j] = View(p)[j]
        BY <2>5, <3>1 DEF Collide, Overlay
      <3>3. /\ j \in PageIds /\ View(p)[j] # NoRow /\ View(p)[j].live /\ View(p)[j].scope = w
            /\ View(p)[j].key = copy.key \/ View(p)[j].url = copy.url
        BY <2>2, <2>7, <3>1, <3>2, Apart DEF Collide, SameSpecificity, SameUrlScope
      <3>4. View(p)[j] \in PageRow
        BY <3>3, SafeTypes DEF TableState
      <3>5. Placed(View(p)[j].url, View(p)[j].key)
        BY <3>1, <3>3 DEF Placed, View, LivePages
      <3>6. View(p)[j].key = copy.key
        <4>1. /\ View(p)[j].key \in Keys /\ copy.key \in Keys
              /\ View(p)[j].url \in Urls /\ copy.url \in Urls
          BY <2>2, <3>4 DEF PageRow
        <4> QED
          BY <2>2, <3>3, <3>5, <4>1 DEF Safe, OneKeyPerUrl
      <3> QED
        BY <2>2, <2>9, <3>3, <3>6 DEF Refused, Holds, LivePages
    <2> QED
      BY <2>6, <2>8, <2>9
  <1> QED
    BY <1>2, <1>3

\* Where a finished copy leaves the fork.
LEMMA MadeFits ==
    ASSUME NEW f, NEW u, NEW t, NEW i \in PageIds, LocalsFit(f, t), f.source = NoRow,
           (f.pc = "fork.reselect" /\ f.created) \/ f.pc = "fork.menus",
           u[i] # NoRow, u[i].live, u[i].key = f.key, u[i].scope = f.scope, t[i] = NoRow,
           \A j \in (PageIds \cup MenuIds \cup Sites) \ {i} : u[j] = NoRow, f.pc = "fork.menus" => f.page = i
    PROVE  Fits(f, u, t)
  <1>1. Made(f) /\ ~Copying(f) /\ ~Editing(f) /\ ~Ends(f, "Created")
    BY DEF Made, Copying, Editing, Ends
  <1>2. Holds(Over(u, t), f.key, f.scope)
    BY Apart DEF Holds, Over, LivePages
  <1>3. /\ \A w \in Sites : u[w] = NoRow
        /\ \A m \in MenuIds : u[m] = NoRow
        /\ \A j \in PageIds \ {i} : u[j] = NoRow
    BY Apart
  <1>4. ForkFits(f, u, t)
    BY <1>1, <1>2, <1>3 DEF ForkFits
  <1> QED
    BY <1>1, <1>4 DEF Fits, FanoutFits, EditFits

\* The fork inserts its copy.
LEMMA ForkInsertLands ==
    ASSUME Safe, NEW p \in Procs, ForkInsert(p)
    PROVE  Lands(p)
  <1>1. /\ tx[p].pc = "fork.insert" /\ LocalsFit(tx[p], db) /\ tx \in [Procs -> Frame]
        /\ tx[p] \in Frame
    BY SafeTypes DEF ForkInsert, At, Safe, Fits
  <1>2. PICK landed \in BOOLEAN :
          /\ InsertSpecificCopy(p, tx[p].scope, landed)
          /\ Goto(p, [tx[p] EXCEPT !.created = landed, !.source = NoRow], "fork.reselect")
    BY DEF ForkInsert
  <1>3. PICK f : f = [tx[p] EXCEPT !.created = landed, !.source = NoRow]
    OBVIOUS
  <1>4. /\ f \in Frame /\ f.created = landed /\ f.source = NoRow /\ f.key = tx[p].key
        /\ f.scope = tx[p].scope /\ f.generic = tx[p].generic
    BY <1>1, <1>3 DEF Frame
  <1>5. /\ tx'[p].pc = "fork.reselect" /\ tx'[p].created = landed /\ tx'[p].source = NoRow
        /\ tx'[p].key = tx[p].key /\ tx'[p].scope = tx[p].scope
        /\ tx'[p].generic = tx[p].generic
    <2>1. Goto(p, f, "fork.reselect")
      BY <1>2, <1>3
    <2> QED
      BY <1>1, <1>4, <2>1, GotoFields
  <1>6. /\ ~Made(tx[p]) /\ ~Copying(tx[p]) /\ ~Editing(tx[p])
        /\ tx[p].key \in Keys /\ tx[p].scope \in Sites /\ HoldsGeneric(tx[p])
    BY <1>1 DEF Made, Copying, Editing, Ends, LocalsFit, Forking, HoldsGeneric
  <1>7. LocalsFit(tx'[p], db)
    BY <1>1, <1>5, <1>6 DEF LocalsFit, Forking, Fanning, Copying, Ends
  <1>8. Named(tx'[p].generic)
    BY <1>1, <1>5, <1>6 DEF LocalsFit, Named
  <1>9. \A i \in Id : ws[p][i] = NoRow
    BY <1>6, CleanSees
  <1>10. CASE landed
    <2>0. PICK w \in Sites : w = tx[p].scope
      BY <1>6
    <2>1. PICK i \in PageIds : Inserts(p, w, i)
      <3>1. InsertSpecificCopy(p, w, landed)
        BY <1>2, <2>0
      <3> QED
        BY <1>1, <1>10, <3>1, InsertCopyMeans
    <2>2. \A j \in (PageIds \cup MenuIds \cup Sites) \ {i} : ws'[p][j] = NoRow
      BY <1>9, <2>1, Apart DEF Inserts
    <2>3. Fits(tx'[p], ws'[p], db)
      BY <1>5, <1>7, <1>10, <2>0, <2>1, <2>2, MadeFits DEF Inserts
    <2>4. \A j \in LivePages(ws'[p]) : j = i
      BY <2>2, Apart DEF LivePages
    <2> QED
      BY <1>5, <1>8, <2>1, <2>3, <2>4 DEF Lands, Inserts
  <1>11. CASE ~landed
    <2>1. /\ UNCHANGED storeVars
          /\ tx[p].scope \in LiveSites(db) => Holds(View(p), tx[p].key, tx[p].scope)
      <3>1. PICK w \in Sites : w = tx[p].scope
        BY <1>6
      <3>2. InsertSpecificCopy(p, w, landed)
        BY <1>2, <3>1
      <3> QED
        BY <1>1, <1>11, <3>1, <3>2, InsertCopyMeans
    <2>2. ws'[p] = ws[p] /\ \A i \in LivePages(ws'[p]) : Placed(ws'[p][i].url, ws'[p][i].key)
      BY <2>1, OwnPlaced
    <2>3. View(p) = Over(ws'[p], db)
      BY <2>2, SafeTypes
    <2>4. ~Made(tx'[p]) /\ ~Copying(tx'[p]) /\ ~Editing(tx'[p])
      BY <1>5, <1>11 DEF Made, Copying, Editing, Ends
    <2>5. ForkFits(tx'[p], ws'[p], db)
      BY <1>5, <2>1, <2>3, <2>4 DEF ForkFits, Made
    <2>6. Fits(tx'[p], ws'[p], db)
      BY <1>7, <1>9, <2>2, <2>4, <2>5 DEF Fits, FanoutFits, EditFits
    <2> QED
      BY <1>5, <1>8, <2>2, <2>6 DEF Lands
  <1> QED
    BY <1>10, <1>11

\* The fork reads its copy again, or the page of the call that was first.
LEMMA ForkReselectLands ==
    ASSUME Safe, NEW p \in Procs, ForkReselect(p)
    PROVE  Lands(p)
  <1>1. /\ tx[p].pc = "fork.reselect" /\ LocalsFit(tx[p], db) /\ tx \in [Procs -> Frame]
        /\ tx[p] \in Frame /\ ForkFits(tx[p], ws[p], db)
    BY SafeTypes DEF ForkReselect, At, Safe, Fits
  <1>2. CASE Fail(p, "Internal")
    BY <1>2, FailLands DEF Answers
  <1>3. tx[p].source = NoRow /\ tx[p].key \in Keys /\ tx[p].scope \in Sites /\ HoldsGeneric(tx[p])
    BY <1>1 DEF LocalsFit, Forking, HoldsGeneric
  <1>4. ASSUME NEW i \in ResolveSpecificEntity(View(p), tx[p].key, tx[p].scope),
               UNCHANGED storeVars, ~tx[p].created,
               Finish(p, [tx[p] EXCEPT !.page = i], "Existing")
        PROVE  Lands(p)
    <2>1. ~Made(tx[p]) /\ ~Copying(tx[p]) /\ ~Editing(tx[p])
      BY <1>1, <1>4 DEF Made, Copying, Editing, Ends
    <2>2. i \in PageIds
      BY DEF ResolveSpecificEntity, LivePages
    <2> QED
      BY <1>3, <1>4, <2>1, <2>2, ExistingLands
  <1>5. ASSUME NEW i \in ResolveSpecificEntity(View(p), tx[p].key, tx[p].scope),
               UNCHANGED storeVars, tx[p].created,
               Goto(p, [tx[p] EXCEPT !.page = i], "fork.menus")
        PROVE  Lands(p)
    <2>1. /\ i \in PageIds /\ i \in Id /\ View(p)[i] # NoRow /\ View(p)[i].live
          /\ View(p)[i].key = tx[p].key /\ View(p)[i].scope = tx[p].scope
      BY Apart DEF ResolveSpecificEntity, LivePages
    <2>2. Made(tx[p]) /\ ~Ends(tx[p], "Created")
      BY <1>1, <1>5 DEF Made, Ends
    <2>3. PICK n \in PageIds :
            /\ ws[p][n] # NoRow /\ ws[p][n].live /\ ws[p][n].key = tx[p].key
            /\ ws[p][n].scope = tx[p].scope /\ db[n] = NoRow
            /\ \A j \in PageIds \ {n} : ws[p][j] = NoRow
      BY <1>1, <2>2 DEF ForkFits
    <2>4. n \in Id /\ View(p)[n] = ws[p][n]
      BY <2>3, Apart DEF View
    <2>5. i = n
      BY <2>1, <2>3, <2>4, SafeTypes DEF CollisionFree, Collide, SameSpecificity
    <2>6. PICK f : f = [tx[p] EXCEPT !.page = i]
      OBVIOUS
    <2>7. /\ f \in Frame /\ f.page = i /\ f.key = tx[p].key /\ f.scope = tx[p].scope
          /\ f.generic = tx[p].generic /\ f.source = NoRow
      BY <1>1, <1>3, <2>1, <2>6 DEF Frame
    <2>8. /\ tx'[p].pc = "fork.menus" /\ tx'[p].page = i /\ tx'[p].key = tx[p].key
          /\ tx'[p].scope = tx[p].scope /\ tx'[p].generic = tx[p].generic
          /\ tx'[p].source = NoRow
      BY <1>1, <1>5, <2>6, <2>7, GotoFields
    <2>9. LocalsFit(tx'[p], db)
      BY <1>1, <1>3, <2>8 DEF LocalsFit, Forking, Fanning, Copying, Ends
    <2>10. \A j \in (PageIds \cup MenuIds \cup Sites) \ {i} : ws[p][j] = NoRow
      BY <1>1, <2>2, <2>3, <2>5 DEF ForkFits
    <2>11. Fits(tx'[p], ws'[p], db)
      BY <1>5, <2>3, <2>5, <2>8, <2>9, <2>10, MadeFits, OwnPlaced
    <2>12. Named(tx'[p].generic)
      BY <1>1, <1>3, <2>8 DEF LocalsFit, Named
    <2> QED
      BY <1>5, <2>8, <2>11, <2>12, OwnPlaced DEF Lands
  <1> QED
    BY <1>2, <1>4, <1>5 DEF ForkReselect

\* The menus that a request re-points, in its write set.
LEMMA MenusWritten ==
    ASSUME Safe, NEW p \in Procs, NEW w, DOMAIN w \subseteq MenuIds, Write(p, w)
    PROVE  /\ \A i \in PageIds \cup Sites : ws'[p][i] = ws[p][i]
           /\ \A m \in MenuIds : ws'[p][m] = IF m \in DOMAIN w THEN w[m] ELSE ws[p][m]
  <1>1. \A i \in Id : ws'[p][i] = IF i \in DOMAIN w THEN w[i] ELSE ws[p][i]
    BY WroteAt
  <1> QED
    BY <1>1, Apart

\* A menu row that is bound to another page.
LEMMA MenuMoves ==
    ASSUME NEW r \in MenuRow, NEW i \in PageIds
    PROVE  Moved(r, [r EXCEPT !.page = i], i)
  <1>1. PICK s : s = [r EXCEPT !.page = i]
    OBVIOUS
  <1>2. s \in MenuRow /\ s.page = i /\ s.site = r.site /\ s.live = r.live
    BY <1>1 DEF MenuRow
  <1>3. s # NoRow
    BY <1>2, NoRowAssumption DEF Row
  <1> QED
    BY <1>1, <1>2, <1>3 DEF Moved

\* A handler that has written no menu sees the menus of the table.
LEMMA MenusSeen ==
    ASSUME Safe, NEW p \in Procs, \A m \in MenuIds : ws[p][m] = NoRow
    PROVE  /\ LiveMenus(View(p)) = LiveMenus(db)
           /\ \A m \in LiveMenus(db) : /\ m \in MenuIds /\ View(p)[m] = db[m]
                                       /\ db[m] \in MenuRow
  <1>1. \A m \in MenuIds : View(p)[m] = db[m] /\ db[m] \in MenuRow \cup {NoRow}
    BY Apart, SafeTypes DEF View, TableState
  <1> QED
    BY <1>1 DEF LiveMenus

\* The fork re-points its website's menus.
LEMMA ForkRepointLands ==
    ASSUME Safe, NEW p \in Procs, ForkRepointMenus(p)
    PROVE  Lands(p)
  <1> DEFINE f == tx[p]
             v == View(p)
             bound == {m \in LiveMenus(v) : v[m].site = f.scope /\ v[m].page = f.generic}
  <1>1. /\ f.pc = "fork.menus" /\ LocalsFit(f, db) /\ tx \in [Procs -> Frame]
        /\ f \in Frame /\ ForkFits(f, ws[p], db) /\ Finish(p, f, "Created")
    BY SafeTypes DEF ForkRepointMenus, At, Safe, Fits
  <1>2. PICK w : w = [m \in bound |-> [v[m] EXCEPT !.page = f.page]]
    OBVIOUS
  <1>3. Write(p, w) /\ DOMAIN w = bound /\ \A m \in bound : w[m] = [v[m] EXCEPT !.page = f.page]
    BY <1>2 DEF ForkRepointMenus
  <1>4. Made(f) /\ ~Ends(f, "Created") /\ f.source = NoRow /\ HoldsGeneric(f)
    BY <1>1 DEF Made, Ends, LocalsFit, HoldsGeneric
  <1>5. /\ \A x \in Sites : ws[p][x] = NoRow
        /\ \A m \in MenuIds : ws[p][m] = NoRow
    BY <1>1, <1>4 DEF ForkFits
  <1>6. PICK i \in PageIds :
          /\ ws[p][i] # NoRow /\ ws[p][i].live /\ ws[p][i].key = f.key
          /\ ws[p][i].scope = f.scope /\ db[i] = NoRow
          /\ \A j \in PageIds \ {i} : ws[p][j] = NoRow
          /\ f.page = i
    BY <1>1, <1>4 DEF ForkFits
  <1>7. /\ LiveMenus(v) = LiveMenus(db)
        /\ \A m \in LiveMenus(db) : m \in MenuIds /\ v[m] = db[m] /\ db[m] \in MenuRow
    BY <1>5, MenusSeen
  <1>8. bound \subseteq MenuIds /\ bound = {m \in BoundTo(db, f.generic) : db[m].site = f.scope}
    BY <1>7 DEF BoundTo
  <1>9. ASSUME NEW m \in bound
        PROVE  w[m] # NoRow /\ Moved(db[m], w[m], f.page)
    <2>1. v[m] = db[m] /\ db[m] \in MenuRow
      BY <1>7
    <2>2. Moved(db[m], [db[m] EXCEPT !.page = f.page], f.page)
      BY <1>6, <2>1, MenuMoves
    <2>3. w[m] = [db[m] EXCEPT !.page = f.page]
      BY <1>3, <2>1
    <2> QED
      BY <2>2, <2>3 DEF Moved
  <1>10. /\ \A j \in PageIds \cup Sites : ws'[p][j] = ws[p][j]
         /\ \A m \in MenuIds : ws'[p][m] = IF m \in bound THEN w[m] ELSE NoRow
    BY <1>3, <1>5, <1>8, MenusWritten
  <1>11. /\ tx'[p].pc = "commit" /\ tx'[p].answer = "Created" /\ tx'[p].key = f.key
         /\ tx'[p].scope = f.scope /\ tx'[p].page = f.page /\ tx'[p].generic = f.generic
         /\ tx'[p].source = NoRow
    BY <1>1, <1>4, FinishFields
  <1>12. /\ Made(tx'[p]) /\ ~Copying(tx'[p]) /\ ~Editing(tx'[p]) /\ tx'[p].pc # "fork.reselect"
         /\ Ends(tx'[p], "Created")
    BY <1>11 DEF Made, Copying, Editing, Ends
  <1>13. LocalsFit(tx'[p], db) /\ Named(tx'[p].generic)
    <2>1. f.key \in Keys /\ f.scope \in Sites
      BY <1>1 DEF LocalsFit, Forking
    <2>2. LocalsFit(tx'[p], db)
      BY <1>1, <1>4, <1>11, <2>1 DEF LocalsFit, Forking, Fanning, Copying, Ends
    <2> QED
      BY <1>1, <1>4, <1>11, <2>2 DEF LocalsFit, Named
  <1> HIDE DEF bound
  <1>14. ForkFits(tx'[p], ws'[p], db)
    <2>1. \A x \in Sites : ws'[p][x] = NoRow
      BY <1>5, <1>10
    <2>2. /\ ws'[p][i] # NoRow /\ ws'[p][i].live /\ ws'[p][i].key = tx'[p].key
          /\ ws'[p][i].scope = tx'[p].scope /\ tx'[p].page = i
          /\ \A j \in PageIds \ {i} : ws'[p][j] = NoRow
      BY <1>6, <1>10, <1>11
    <2>3. \A m \in MenuIds : ws'[p][m] # NoRow =>
            /\ m \in BoundTo(db, tx'[p].generic) /\ db[m].site = tx'[p].scope
            /\ Moved(db[m], ws'[p][m], tx'[p].page)
      BY <1>8, <1>9, <1>10, <1>11
    <2>4. \A m \in BoundTo(db, tx'[p].generic) : db[m].site = tx'[p].scope => ws'[p][m] # NoRow
      BY <1>8, <1>9, <1>10, <1>11
    <2> QED
      BY <1>6, <1>12, <2>1, <2>2, <2>3, <2>4 DEF ForkFits
  <1>15. Fits(tx'[p], ws'[p], db)
    BY <1>12, <1>13, <1>14 DEF Fits, FanoutFits, EditFits
  <1>16. \A j \in LivePages(ws'[p]) : j \in LivePages(ws[p]) /\ ws'[p][j] = ws[p][j]
    BY <1>10 DEF LivePages
  <1> QED
    BY <1>11, <1>13, <1>15, <1>16 DEF Lands, Placed

\* Every statement of the fork.
LEMMA ForkLands ==
    ASSUME Safe, NEW p \in Procs, Fork(p)
    PROVE  Lands(p)
  BY ForkResolveLands, ForkConfirmLands, ForkLoadGenericLands, ForkSelectLands, ForkInsertLands,
     ForkReselectLands, ForkRepointLands DEF Fork

\* The fanout reads the generic.
LEMMA FanoutLoadGenericLands ==
    ASSUME Safe, NEW p \in Procs, FanoutLoadGeneric(p)
    PROVE  Lands(p)
  <1>1. tx[p].pc = "fanout.generic" /\ LocalsFit(tx[p], db)
    BY DEF FanoutLoadGeneric, At, Safe, Fits
  <1>2. /\ ~Made(tx[p]) /\ ~Copying(tx[p]) /\ ~Editing(tx[p]) /\ tx[p].source = NoRow
        /\ tx[p].key \in Keys
    BY <1>1 DEF Made, Copying, Editing, Ends, LocalsFit, Fanning
  <1>3. CASE Fail(p, "ForkSourceMissing")
    BY <1>3, FailLands DEF Answers
  <1>4. ASSUME NEW g \in ResolveGeneric(View(p), tx[p].key), UNCHANGED storeVars,
               Goto(p, [tx[p] EXCEPT !.generic = g], "fanout.targets")
        PROVE  Lands(p)
    <2>1. PICK f : f = [tx[p] EXCEPT !.generic = g]
      OBVIOUS
    <2>2. /\ g \in PageIds /\ db[g] # NoRow /\ db[g].live /\ db[g].key = tx[p].key
          /\ db[g].scope = Generic /\ Named(g)
          /\ f \in Frame /\ f.generic = g /\ f.key = tx[p].key
          /\ f.source = NoRow /\ Goto(p, f, "fanout.targets")
      BY <1>2, <1>4, <2>1, GenericRead
    <2>3. /\ tx'[p].pc = "fanout.targets" /\ tx'[p].generic = g /\ tx'[p].key = tx[p].key
          /\ tx'[p].source = NoRow
      BY <2>2, GotoFields, SafeTypes
    <2>4. /\ ~Made(tx'[p]) /\ ~Copying(tx'[p]) /\ ~Editing(tx'[p])
          /\ LocalsFit(tx'[p], db) /\ tx'[p].pc # "fork.reselect"
      BY <1>2, <2>2, <2>3 DEF Made, Copying, Editing, Ends, HoldsGeneric, LocalsFit, Forking,
                              Fanning
    <2> QED
      BY <1>2, <1>4, <2>2, <2>3, <2>4, CleanFits, CleanSees, OwnPlaced DEF Lands
  <1> QED
    BY <1>3, <1>4 DEF FanoutLoadGeneric

\* Between two turns of the loop over the websites T, for the generic g of key k.
Loops(T, k, g, u, t) ==
    /\ T \subseteq LiveSites(t)
    /\ \A w \in LiveSites(t) \ T : Holds(Over(u, t), k, w)
    /\ \A i \in MenuIds \cup Sites : u[i] = NoRow
    /\ u[g] = NoRow
    /\ \A i \in PageIds : u[i] # NoRow =>
         t[i] = NoRow /\ u[i].live /\ u[i].key = k /\ u[i].scope \in LiveSites(t)

\* The fanout goes on, to another website or to the menus.
LEMMA FanoutNextLands ==
    ASSUME Safe, NEW p \in Procs, NEW f \in Frame, FanoutNext(p, f), HoldsGeneric(tx[p]),
           Fanning(tx[p]), f.key = tx[p].key, f.generic = tx[p].generic, f.source = NoRow,
           Loops(f.targets, f.key, f.generic, ws'[p], db),
           \A i \in LivePages(ws'[p]) : Placed(ws'[p][i].url, ws'[p][i].key)
    PROVE  Lands(p)
  <1>1. LocalsFit(tx[p], db) /\ tx \in [Procs -> Frame]
    BY SafeTypes DEF Safe, Fits
  <1>2. /\ tx'[p].pc \in {"fanout.select", "fanout.menus"}
        /\ tx'[p].pc = "fanout.menus" => tx'[p].targets = {}
        /\ tx'[p].key = f.key /\ tx'[p].generic = f.generic /\ tx'[p].source = NoRow
        /\ tx'[p].targets = f.targets
    BY <1>1, GotoFields DEF FanoutNext
  <1>3. /\ Copying(tx'[p]) /\ ~Made(tx'[p]) /\ ~Editing(tx'[p]) /\ ~Ends(tx'[p], "FannedOut")
        /\ ~Rebound(tx'[p]) /\ tx'[p].pc # "fork.reselect" /\ ~Ends(tx'[p], "Created")
    BY <1>2 DEF Copying, Made, Editing, Ends, Rebound
  <1>4. LocalsFit(tx'[p], db) /\ Named(tx'[p].generic)
    BY <1>1, <1>2 DEF LocalsFit, Forking, Fanning, HoldsGeneric, Copying, Made, Editing, Ends, Named
  <1>5. FanoutFits(tx'[p], ws'[p], db)
    BY <1>2, <1>3 DEF FanoutFits, Loops
  <1>6. Fits(tx'[p], ws'[p], db)
    BY <1>3, <1>4, <1>5 DEF Fits, ForkFits, EditFits
  <1> QED
    BY <1>2, <1>4, <1>6 DEF Lands

\* The fanout lists the live websites that lack the key.
LEMMA FanoutTargetsLands ==
    ASSUME Safe, NEW p \in Procs, FanoutTargets(p)
    PROVE  Lands(p)
  <1> DEFINE v == View(p)
             lacking == {w \in LiveSites(v) : ResolveSpecificEntity(v, tx[p].key, w) = {}}
  <1>1. /\ tx[p].pc = "fanout.targets" /\ LocalsFit(tx[p], db) /\ tx[p] \in Frame
        /\ UNCHANGED storeVars
    BY SafeTypes DEF FanoutTargets, At, Safe, Fits
  <1>2. /\ ~Made(tx[p]) /\ ~Copying(tx[p]) /\ ~Editing(tx[p]) /\ tx[p].source = NoRow
        /\ HoldsGeneric(tx[p]) /\ Fanning(tx[p])
    BY <1>1 DEF Made, Copying, Editing, Ends, LocalsFit, Fanning, HoldsGeneric
  <1>3. PICK f : f = [tx[p] EXCEPT !.targets = lacking]
    OBVIOUS
  <1>4. lacking \subseteq Sites
    BY DEF LiveSites
  <1>5. /\ f \in Frame /\ f.targets = lacking /\ f.key = tx[p].key /\ f.generic = tx[p].generic
        /\ f.source = NoRow
    <2> HIDE DEF lacking
    <2> QED
      BY <1>1, <1>2, <1>3, <1>4 DEF Frame
  <1>6. FanoutNext(p, f)
    BY <1>3 DEF FanoutTargets
  <1>7. /\ \A i \in Id : ws'[p][i] = NoRow
        /\ LiveSites(v) = LiveSites(db) /\ v = Over(ws'[p], db)
    BY <1>1, <1>2, CleanSees, OwnPlaced, SafeTypes
  <1>8. \A w \in LiveSites(db) \ lacking : Holds(v, tx[p].key, w)
    BY <1>7 DEF ResolveSpecificEntity, Holds
  <1>9. tx[p].generic \in PageIds
    BY <1>1, <1>2 DEF LocalsFit
  <1>10. Loops(lacking, tx[p].key, tx[p].generic, ws'[p], db)
    <2>1. lacking \subseteq LiveSites(db)
      BY <1>7
    <2> HIDE DEF lacking
    <2> QED
      BY <1>7, <1>8, <1>9, <2>1, Apart DEF Loops
  <1> HIDE DEF lacking
  <1> QED
    BY <1>1, <1>2, <1>5, <1>6, <1>10, OwnPlaced, FanoutNextLands

\* The fanout reads its source.
LEMMA FanoutSelectLands ==
    ASSUME Safe, NEW p \in Procs, FanoutSelect(p)
    PROVE  Lands(p)
  <1>1. /\ tx[p].pc = "fanout.select" /\ LocalsFit(tx[p], db) /\ SelectSource(p, "fanout.insert")
        /\ FanoutFits(tx[p], ws[p], db)
    BY DEF FanoutSelect, At, Safe, Fits
  <1>2. Copying(tx[p]) /\ HoldsGeneric(tx[p]) /\ Fanning(tx[p])
    BY <1>1 DEF HoldsGeneric, Copying, Fanning
  <1>3. /\ tx'[p].pc = "fanout.insert" /\ tx'[p].key = tx[p].key
        /\ tx'[p].generic = tx[p].generic /\ tx'[p].targets = tx[p].targets
        /\ tx'[p].source = NoRow => ~db[tx[p].generic].live
        /\ tx'[p].source # NoRow => tx'[p].source.live /\ tx'[p].source.key = tx[p].key
        /\ UNCHANGED storeVars
    BY <1>1, SourceRead
  <1>4. /\ Copying(tx'[p]) /\ ~Made(tx'[p]) /\ ~Editing(tx'[p]) /\ ~Ends(tx'[p], "FannedOut")
        /\ ~Rebound(tx'[p]) /\ tx'[p].pc # "fork.reselect" /\ ~Ends(tx'[p], "Created")
        /\ ~Rebound(tx[p]) /\ ~Ends(tx[p], "FannedOut")
    BY <1>1, <1>3 DEF Copying, Made, Editing, Ends, Rebound
  <1>5. LocalsFit(tx'[p], db)
    BY <1>1, <1>2, <1>3, <1>4 DEF LocalsFit, Forking, Fanning, Ends
  <1>6. ws'[p] = ws[p]
    BY <1>3, OwnPlaced
  <1>7. FanoutFits(tx'[p], ws'[p], db)
    BY <1>1, <1>2, <1>3, <1>4, <1>6 DEF FanoutFits
  <1>8. Fits(tx'[p], ws'[p], db)
    BY <1>4, <1>5, <1>7 DEF Fits, ForkFits, EditFits
  <1> QED
    BY <1>1, <1>3, <1>8, OwnPlaced, SourceRead DEF Lands

\* The fanout inserts the copy of its first website.
LEMMA FanoutInsertLands ==
    ASSUME Safe, NEW p \in Procs, FanoutInsert(p)
    PROVE  Lands(p)
  <1>1. /\ tx[p].pc = "fanout.insert" /\ LocalsFit(tx[p], db) /\ tx[p] \in Frame
        /\ FanoutFits(tx[p], ws[p], db)
    BY SafeTypes DEF FanoutInsert, At, Safe, Fits
  <1>2. /\ Copying(tx[p]) /\ HoldsGeneric(tx[p]) /\ Fanning(tx[p]) /\ ~Rebound(tx[p])
        /\ ~Ends(tx[p], "FannedOut") /\ tx[p].generic \in PageIds /\ db[tx[p].generic] # NoRow
    BY <1>1 DEF HoldsGeneric, Copying, Fanning, Rebound, Ends, LocalsFit
  <1>3. PICK w \in First(tx[p].targets), landed \in BOOLEAN :
          /\ InsertSpecificCopy(p, w, landed)
          /\ FanoutNext(p, [tx[p] EXCEPT !.targets = tx[p].targets \ {w}, !.source = NoRow])
    BY DEF FanoutInsert
  <1>4. PICK f : f = [tx[p] EXCEPT !.targets = tx[p].targets \ {w}, !.source = NoRow]
    OBVIOUS
  <1>5. /\ f \in Frame /\ f.targets = tx[p].targets \ {w} /\ f.key = tx[p].key
        /\ f.generic = tx[p].generic /\ f.source = NoRow
    BY <1>1, <1>4 DEF Frame
  <1>6. FanoutNext(p, f)
    BY <1>3, <1>4
  <1>7. Loops(tx[p].targets, tx[p].key, tx[p].generic, ws[p], db)
    BY <1>1, <1>2 DEF FanoutFits, Loops
  <1>8. w \in LiveSites(db) /\ w \in Sites
    BY <1>7 DEF Loops, First, LiveSites
  <1>9. CASE landed
    <2>1. PICK i \in PageIds : Inserts(p, w, i)
      BY <1>1, <1>3, <1>8, <1>9, InsertCopyMeans
    <2>2. i # tx[p].generic /\ i \in Id
      BY <1>2, <2>1, Apart DEF Inserts
    <2>3. \A j \in PageIds \cup MenuIds \cup Sites : j # i => ws'[p][j] = ws[p][j]
      BY <2>1, Apart DEF Inserts
    <2>4. \A j \in LivePages(Over(ws[p], db)) :
            j \in LivePages(Over(ws'[p], db)) /\ Over(ws'[p], db)[j] = Over(ws[p], db)[j]
      <3>1. \A j \in PageIds : j # i => Over(ws'[p], db)[j] = Over(ws[p], db)[j]
        BY <2>3, Apart DEF Over
      <3>2. Over(ws[p], db)[i] = NoRow
        BY <2>1, <2>2 DEF Over, Inserts
      <3> QED
        BY <3>1, <3>2 DEF LivePages
    <2>5. Holds(Over(ws'[p], db), tx[p].key, w)
      BY <2>1, <2>2 DEF Inserts, Over, Holds, LivePages
    <2>6. \A x \in LiveSites(db) \ f.targets : Holds(Over(ws'[p], db), tx[p].key, x)
      BY <1>5, <1>7, <2>4, <2>5 DEF Loops, Holds
    <2>7. /\ \A j \in MenuIds \cup Sites : ws'[p][j] = NoRow
          /\ ws'[p][tx[p].generic] = NoRow
      BY <1>2, <1>7, <2>1, <2>2, <2>3, Apart DEF Loops
    <2>8. \A j \in PageIds : ws'[p][j] # NoRow =>
            /\ db[j] = NoRow /\ ws'[p][j].live /\ ws'[p][j].key = tx[p].key
            /\ ws'[p][j].scope \in LiveSites(db)
      BY <1>7, <1>8, <2>1, <2>3 DEF Loops, Inserts
    <2>9. Loops(f.targets, f.key, f.generic, ws'[p], db)
      BY <1>5, <1>7, <2>6, <2>7, <2>8 DEF Loops
    <2>10. \A j \in LivePages(ws'[p]) : Placed(ws'[p][j].url, ws'[p][j].key)
      BY <2>1, <2>3 DEF Inserts, Placed, LivePages
    <2> QED
      BY <1>2, <1>5, <1>6, <2>9, <2>10, FanoutNextLands
  <1>10. CASE ~landed
    <2>1. UNCHANGED storeVars /\ Holds(View(p), tx[p].key, w)
      BY <1>1, <1>3, <1>8, <1>10, InsertCopyMeans
    <2>2. ws'[p] = ws[p] /\ View(p) = Over(ws[p], db)
      BY <2>1, OwnPlaced, SafeTypes
    <2>3. Loops(f.targets, f.key, f.generic, ws'[p], db)
      BY <1>5, <1>7, <2>1, <2>2 DEF Loops
    <2> QED
      BY <1>2, <1>5, <1>6, <2>1, <2>3, OwnPlaced, FanoutNextLands
  <1> QED
    BY <1>9, <1>10

\* The fanout re-points the menus.
LEMMA FanoutRepointLands ==
    ASSUME Safe, NEW p \in Procs, FanoutRepointMenus(p)
    PROVE  Lands(p)
  <1> DEFINE f == tx[p]
             v == View(p)
             Specific(m) == ResolveSpecificEntity(v, f.key, v[m].site)
             bound == {m \in LiveMenus(v) : v[m].page = f.generic /\ Specific(m) # {}}
             to == [m \in MenuIds |-> CHOOSE i \in Specific(m) : TRUE]
  <1>1. /\ f.pc = "fanout.menus" /\ LocalsFit(f, db) /\ tx \in [Procs -> Frame] /\ f \in Frame
        /\ FanoutFits(f, ws[p], db) /\ Goto(p, f, "fanout.delete")
    BY SafeTypes DEF FanoutRepointMenus, At, Safe, Fits
  <1>2. PICK w : w = [m \in bound |-> [v[m] EXCEPT !.page = CHOOSE i \in Specific(m) : TRUE]]
    OBVIOUS
  <1>3. /\ Write(p, w) /\ DOMAIN w = bound
        /\ \A m \in bound : m \in MenuIds /\ w[m] = [v[m] EXCEPT !.page = to[m]]
    BY <1>2 DEF FanoutRepointMenus, LiveMenus
  <1>4. /\ Copying(f) /\ ~Rebound(f) /\ ~Ends(f, "FannedOut") /\ f.source = NoRow
        /\ HoldsGeneric(f) /\ Fanning(f)
    BY <1>1 DEF Copying, Rebound, Ends, LocalsFit, HoldsGeneric, Fanning
  <1>5. Loops({}, f.key, f.generic, ws[p], db) /\ f.targets = {}
    BY <1>1, <1>4 DEF FanoutFits, Loops
  <1>6. /\ LiveMenus(v) = LiveMenus(db)
        /\ \A m \in LiveMenus(db) : m \in MenuIds /\ v[m] = db[m] /\ db[m] \in MenuRow
    BY <1>5, MenusSeen DEF Loops
  <1>7. v = Over(ws[p], db)
    BY SafeTypes
  <1>8. ASSUME NEW m \in LiveMenus(db), Specific(m) # {}
        PROVE  /\ to[m] \in LivePages(v) /\ v[to[m]].key = f.key /\ v[to[m]].scope = db[m].site
    <2>1. m \in MenuIds /\ v[m] = db[m]
      BY <1>6
    <2>2. to[m] \in Specific(m)
      BY <1>8, <2>1
    <2> QED
      BY <2>1, <2>2 DEF ResolveSpecificEntity
  <1>9. \A m \in LiveMenus(db) : Specific(m) # {} <=> Holds(v, f.key, db[m].site)
    BY <1>6 DEF ResolveSpecificEntity, Holds
  <1>10. bound = {m \in BoundTo(db, f.generic) : Holds(v, f.key, db[m].site)}
    BY <1>6, <1>9 DEF BoundTo
  <1> HIDE DEF Specific, to, bound
  <1>11. ASSUME NEW m \in bound
         PROVE  w[m] # NoRow /\ Moved(db[m], w[m], to[m]) /\ to[m] \in PageIds
    <2>1. m \in LiveMenus(db) /\ Specific(m) # {} /\ to[m] \in PageIds
      BY <1>8, <1>9, <1>10 DEF BoundTo, LivePages
    <2>2. Moved(db[m], [db[m] EXCEPT !.page = to[m]], to[m])
      BY <1>6, <2>1, MenuMoves
    <2>3. w[m] = [db[m] EXCEPT !.page = to[m]]
      BY <1>3, <1>6, <2>1
    <2> QED
      BY <2>1, <2>2, <2>3 DEF Moved
  <1>12. /\ \A j \in PageIds \cup Sites : ws'[p][j] = ws[p][j]
         /\ \A m \in MenuIds : ws'[p][m] = IF m \in bound THEN w[m] ELSE NoRow
    <2>1. DOMAIN w \subseteq MenuIds
      BY <1>3
    <2> QED
      BY <1>3, <1>5, <2>1, MenusWritten DEF Loops
  <1>13. /\ tx'[p].pc = "fanout.delete" /\ tx'[p].key = f.key /\ tx'[p].generic = f.generic
         /\ tx'[p].source = NoRow /\ tx'[p].targets = {}
    BY <1>1, <1>4, <1>5, GotoFields
  <1>14. /\ Copying(tx'[p]) /\ ~Made(tx'[p]) /\ ~Editing(tx'[p]) /\ ~Ends(tx'[p], "FannedOut")
         /\ Rebound(tx'[p]) /\ tx'[p].pc # "fork.reselect" /\ ~Ends(tx'[p], "Created")
    BY <1>13 DEF Copying, Made, Editing, Ends, Rebound
  <1>15. LocalsFit(tx'[p], db) /\ Named(tx'[p].generic)
    BY <1>1, <1>4, <1>13 DEF LocalsFit, Forking, Fanning, HoldsGeneric, Copying, Made, Editing,
                             Ends, Named
  <1>16. /\ LivePages(Over(ws'[p], db)) = LivePages(v)
         /\ \A j \in LivePages(v) : Over(ws'[p], db)[j] = v[j]
    <2>1. \A j \in PageIds : Over(ws'[p], db)[j] = v[j]
      BY <1>7, <1>12, Apart DEF Over
    <2> QED
      BY <2>1 DEF LivePages
  <1>17. FanoutFits(tx'[p], ws'[p], db)
    <2>1. \A x \in LiveSites(db) : Holds(Over(ws'[p], db), f.key, x)
      BY <1>5, <1>7, <1>16 DEF Loops, Holds
    <2>2. \A m \in MenuIds : ws'[p][m] # NoRow =>
            /\ m \in BoundTo(db, f.generic)
            /\ \E i \in LivePages(Over(ws'[p], db)) :
                 /\ Over(ws'[p], db)[i].key = f.key /\ Over(ws'[p], db)[i].scope = db[m].site
                 /\ Moved(db[m], ws'[p][m], i)
      <3> SUFFICES ASSUME NEW m \in MenuIds, ws'[p][m] # NoRow
                   PROVE  /\ m \in BoundTo(db, f.generic)
                          /\ to[m] \in LivePages(Over(ws'[p], db))
                          /\ Over(ws'[p], db)[to[m]].key = f.key
                          /\ Over(ws'[p], db)[to[m]].scope = db[m].site
                          /\ Moved(db[m], ws'[p][m], to[m])
        OBVIOUS
      <3>1. m \in bound /\ ws'[p][m] = w[m]
        BY <1>12
      <3>2. m \in LiveMenus(db) /\ Specific(m) # {} /\ m \in BoundTo(db, f.generic)
        BY <1>9, <1>10, <3>1 DEF BoundTo
      <3> QED
        BY <1>8, <1>11, <1>16, <3>1, <3>2
    <2>3. \A m \in BoundTo(db, f.generic) :
            Holds(Over(ws'[p], db), f.key, db[m].site) => ws'[p][m] # NoRow
      <3> SUFFICES ASSUME NEW m \in BoundTo(db, f.generic),
                          Holds(Over(ws'[p], db), f.key, db[m].site)
                   PROVE  ws'[p][m] # NoRow
        OBVIOUS
      <3>1. Holds(v, f.key, db[m].site)
        BY <1>16 DEF Holds
      <3>2. m \in bound /\ m \in MenuIds
        BY <1>6, <1>10, <3>1 DEF BoundTo
      <3> QED
        BY <1>11, <1>12, <3>2
    <2>4. /\ \A x \in Sites : ws'[p][x] = NoRow
          /\ ws'[p][f.generic] = NoRow
          /\ \A i \in PageIds : ws'[p][i] # NoRow =>
               /\ db[i] = NoRow /\ ws'[p][i].live /\ ws'[p][i].key = f.key
               /\ ws'[p][i].scope \in LiveSites(db)
      BY <1>1, <1>4, <1>5, <1>12 DEF Loops, LocalsFit
    <2> QED
      BY <1>13, <1>14, <2>1, <2>2, <2>3, <2>4 DEF FanoutFits
  <1>18. Fits(tx'[p], ws'[p], db)
    BY <1>14, <1>15, <1>17 DEF Fits, ForkFits, EditFits
  <1>19. \A j \in LivePages(ws'[p]) : j \in LivePages(ws[p]) /\ ws'[p][j] = ws[p][j]
    BY <1>12 DEF LivePages
  <1> QED
    BY <1>13, <1>15, <1>18, <1>19 DEF Lands, Placed

\* A new version of one page, in the write set of its request.
LEMMA PageWritten ==
    ASSUME Safe, NEW p \in Procs, NEW i \in PageIds, NEW row, Write(p, Version(i, row))
    PROVE  \A j \in Id : ws'[p][j] = IF j = i THEN row ELSE ws[p][j]
  <1>1. DOMAIN Version(i, row) = {i} /\ Version(i, row)[i] = row
    BY DEF Version
  <1> QED
    BY <1>1, WroteAt

\* The fanout deletes the generic.
LEMMA FanoutDeleteLands ==
    ASSUME Safe, NEW p \in Procs, FanoutDelete(p)
    PROVE  Lands(p)
  <1> DEFINE f == tx[p]
             g == tx[p].generic
  <1>1. /\ f.pc = "fanout.delete" /\ LocalsFit(f, db) /\ tx \in [Procs -> Frame] /\ f \in Frame
        /\ FanoutFits(f, ws[p], db)
    BY SafeTypes DEF FanoutDelete, At, Safe, Fits
  <1>2. CASE StampRefused(p)
    BY <1>2, FailLands DEF StampRefused, Answers
  <1>3. CASE Tombstone(p, g) /\ Finish(p, f, "FannedOut")
    <2>1. /\ Copying(f) /\ Rebound(f) /\ ~Ends(f, "FannedOut") /\ f.source = NoRow
          /\ HoldsGeneric(f) /\ Fanning(f)
      BY <1>1 DEF Copying, Rebound, Ends, LocalsFit, HoldsGeneric, Fanning
    <2>2. /\ g \in PageIds /\ g \in Id /\ db[g] # NoRow /\ db[g].scope = Generic
          /\ ws[p][g] = NoRow /\ f.targets = {}
      BY <1>1, <2>1, Apart DEF LocalsFit, FanoutFits
    <2>3. View(p)[g] = db[g] /\ db[g] \in PageRow
      BY <2>2, SafeTypes DEF View, TableState
    <2>4. PICK row : row = [db[g] EXCEPT !.live = FALSE]
      OBVIOUS
    <2>5. row \in PageRow /\ ~row.live /\ SamePlace(row, db[g])
      BY <2>3, <2>4 DEF PageRow, SamePlace
    <2>6. row # NoRow
      BY <2>5, NoRowAssumption DEF Row
    <2>7. Write(p, Version(g, row))
      BY <1>3, <2>3, <2>4 DEF Tombstone
    <2>8. \A j \in Id : ws'[p][j] = IF j = g THEN row ELSE ws[p][j]
      BY <2>2, <2>7, PageWritten
    <2>9. /\ tx'[p].pc = "commit" /\ tx'[p].answer = "FannedOut" /\ tx'[p].key = f.key
          /\ tx'[p].generic = g /\ tx'[p].source = NoRow /\ tx'[p].targets = {}
      BY <1>1, <1>3, <2>1, <2>2, FinishFields
    <2>10. /\ Copying(tx'[p]) /\ ~Made(tx'[p]) /\ ~Editing(tx'[p]) /\ Ends(tx'[p], "FannedOut")
           /\ Rebound(tx'[p]) /\ tx'[p].pc # "fork.reselect" /\ ~Ends(tx'[p], "Created")
      BY <2>9 DEF Copying, Made, Editing, Ends, Rebound
    <2>11. LocalsFit(tx'[p], db) /\ Named(tx'[p].generic)
      BY <1>1, <2>1, <2>9 DEF LocalsFit, Forking, Fanning, HoldsGeneric, Copying, Made, Editing,
                              Ends, Named
    <2>12. \A j \in Id : j # g => Over(ws'[p], db)[j] = Over(ws[p], db)[j]
      BY <2>8 DEF Over
    <2>13. Over(ws'[p], db)[g].scope = Generic /\ Over(ws[p], db)[g].scope = Generic
      BY <2>2, <2>5, <2>6, <2>8 DEF Over, SamePlace
    <2>14. \A j : Over(ws'[p], db)[j].scope # Generic /\ j \in LivePages(Over(ws'[p], db)) =>
                    /\ j \in LivePages(Over(ws[p], db))
                    /\ Over(ws'[p], db)[j] = Over(ws[p], db)[j]
      BY <2>12, <2>13, Apart DEF LivePages
    <2>15. \A j : Over(ws[p], db)[j].scope # Generic /\ j \in LivePages(Over(ws[p], db)) =>
                    /\ j \in LivePages(Over(ws'[p], db))
                    /\ Over(ws'[p], db)[j] = Over(ws[p], db)[j]
      BY <2>12, <2>13, Apart DEF LivePages
    <2>16. \A k, w : w # Generic => (Holds(Over(ws'[p], db), k, w) <=> Holds(Over(ws[p], db), k, w))
      BY <2>14, <2>15 DEF Holds
    <2>17. \A m \in LiveMenus(db) : m \in MenuIds /\ db[m].site # Generic
      BY SafeTypes, Apart DEF LiveMenus, TableState, MenuRow
    <2>18. FanoutFits(tx'[p], ws'[p], db)
      <3>1. \A w \in LiveSites(db) : Holds(Over(ws'[p], db), f.key, w)
        BY <1>1, <2>1, <2>2, <2>16, Apart DEF FanoutFits, LiveSites
      <3>2. \A w \in Sites : ws'[p][w] = NoRow
        BY <1>1, <2>1, <2>2, <2>8, Apart DEF FanoutFits
      <3>3. \A i \in PageIds : i # g /\ ws'[p][i] # NoRow =>
              /\ db[i] = NoRow /\ ws'[p][i].live /\ ws'[p][i].key = f.key
              /\ ws'[p][i].scope \in LiveSites(db)
        BY <1>1, <2>1, <2>8, Apart DEF FanoutFits
      <3>4. ws'[p][g] # NoRow /\ ~ws'[p][g].live /\ SamePlace(ws'[p][g], db[g])
        BY <2>2, <2>5, <2>6, <2>8
      <3>5. ASSUME NEW m \in MenuIds, ws'[p][m] # NoRow
            PROVE  /\ m \in BoundTo(db, g)
                   /\ \E i \in LivePages(Over(ws'[p], db)) :
                        /\ Over(ws'[p], db)[i].key = f.key
                        /\ Over(ws'[p], db)[i].scope = db[m].site
                        /\ Moved(db[m], ws'[p][m], i)
        <4>1. ws[p][m] # NoRow /\ ws'[p][m] = ws[p][m]
          BY <2>2, <2>8, <3>5, Apart
        <4>2. m \in BoundTo(db, g) /\ m \in LiveMenus(db)
          BY <1>1, <2>1, <4>1 DEF FanoutFits, BoundTo
        <4>3. PICK i \in LivePages(Over(ws[p], db)) :
                /\ Over(ws[p], db)[i].key = f.key
                /\ Over(ws[p], db)[i].scope = db[m].site
                /\ Moved(db[m], ws[p][m], i)
          BY <1>1, <2>1, <4>1 DEF FanoutFits
        <4> QED
          BY <2>15, <2>17, <4>1, <4>2, <4>3
      <3>6. ASSUME NEW m \in BoundTo(db, g), Holds(Over(ws'[p], db), f.key, db[m].site)
            PROVE  ws'[p][m] # NoRow
        <4>1. m \in LiveMenus(db) /\ m \in MenuIds /\ m \in Id /\ m # g
          BY <2>2, <2>17, Apart DEF BoundTo
        <4>2. Holds(Over(ws[p], db), f.key, db[m].site)
          BY <2>16, <2>17, <3>6, <4>1
        <4>3. ws[p][m] # NoRow
          BY <1>1, <2>1, <4>2 DEF FanoutFits
        <4> QED
          BY <2>8, <4>1, <4>3
      <3> QED
        BY <2>9, <2>10, <3>1, <3>2, <3>3, <3>4, <3>5, <3>6 DEF FanoutFits
    <2>19. Fits(tx'[p], ws'[p], db)
      BY <2>10, <2>11, <2>18 DEF Fits, ForkFits, EditFits
    <2>20. \A j \in LivePages(ws'[p]) : j \in LivePages(ws[p]) /\ ws'[p][j] = ws[p][j]
      BY <2>5, <2>8, Apart DEF LivePages
    <2> QED
      BY <2>9, <2>11, <2>19, <2>20 DEF Lands, Placed
  <1> QED
    BY <1>2, <1>3 DEF FanoutDelete

\* Every statement of the fanout.
LEMMA FanoutLands ==
    ASSUME Safe, NEW p \in Procs, Fanout(p)
    PROVE  Lands(p)
  BY FanoutLoadGenericLands, FanoutTargetsLands, FanoutSelectLands, FanoutInsertLands,
     FanoutRepointLands, FanoutDeleteLands DEF Fanout

-----------------------------------------------------------------------------
\* Publishing and unpublishing.

\* The update that leaves a page in its place.
LEMMA FlagLands ==
    ASSUME Safe, NEW p \in Procs, tx[p].pc \in {"publish.update", "unpublish.update"},
           tx[p].page \in LivePages(View(p)), NEW row,
           SamePlace(row, View(p)[tx[p].page]), row.live = View(p)[tx[p].page].live,
           Write(p, Version(tx[p].page, row)),
           NEW done \in {"Published", "Unpublished"}, Finish(p, tx[p], done)
    PROVE  Lands(p)
  <1> DEFINE i == tx[p].page
  <1>1. ~Made(tx[p]) /\ ~Copying(tx[p]) /\ ~Editing(tx[p])
    BY DEF Made, Copying, Editing, Ends
  <1>2. /\ \A j \in Id : ws[p][j] = NoRow
        /\ i \in LivePages(db) /\ View(p)[i] = db[i]
    BY <1>1, CleanSees
  <1>3. i \in PageIds /\ db[i] # NoRow /\ db[i].live
    BY <1>2 DEF LivePages
  <1>4. \A j \in Id : ws'[p][j] = IF j = i THEN row ELSE NoRow
    BY <1>2, <1>3, PageWritten
  <1>5. tx[p].source = NoRow /\ tx[p] \in Frame /\ tx \in [Procs -> Frame]
    BY SafeTypes DEF Safe, Fits, LocalsFit
  <1>6. tx'[p].pc = "commit" /\ tx'[p].answer = done /\ tx'[p].source = NoRow
    BY <1>5, FinishFields
  <1>7. /\ Editing(tx'[p]) /\ ~Made(tx'[p]) /\ ~Copying(tx'[p]) /\ tx'[p].pc # "fork.reselect"
        /\ ~Ends(tx'[p], "Created") /\ ~HoldsGeneric(tx'[p])
    BY <1>6 DEF Editing, Made, Copying, Ends, HoldsGeneric
  <1>8. LocalsFit(tx'[p], db)
    BY <1>6, <1>7 DEF LocalsFit, Forking, Fanning, Ends
  <1>9. EditFits(tx'[p], ws'[p], db)
    BY <1>2, <1>3, <1>4, Apart DEF EditFits
  <1>10. Fits(tx'[p], ws'[p], db)
    BY <1>7, <1>8, <1>9 DEF Fits, ForkFits, FanoutFits
  <1>11. \A j \in LivePages(ws'[p]) : j = i /\ ws'[p][j] = row
    BY <1>4, Apart DEF LivePages
  <1>12. row.url = db[i].url /\ row.key = db[i].key
    BY <1>2 DEF SamePlace
  <1> QED
    BY <1>2, <1>6, <1>7, <1>10, <1>11, <1>12 DEF Lands, Placed

\* Every one-statement verb that these calls reach.
LEMMA EditLands ==
    ASSUME Safe, NEW p \in Procs, Edit(p)
    PROVE  Lands(p)
  <1> DEFINE i == tx[p].page
  <1>1. LocalsFit(tx[p], db)
    BY DEF Safe, Fits
  <1>2. ~CreateInsert(p) /\ ~PatchUpdate(p)
    BY <1>1 DEF CreateInsert, PatchUpdate, At, LocalsFit, Forking, Fanning, Copying, Editing, Ends
  <1>3. ASSUME i \in LivePages(View(p))
        PROVE  View(p)[i] \in PageRow
    BY <1>3, SafeTypes DEF LivePages, TableState
  <1>4. CASE PublishUpdate(p)
    <2>1. CASE Fail(p, "SpecificityConflict") \/ Fail(p, "NotFound")
      BY <2>1, FailLands DEF Answers
    <2>2. CASE i \in LivePages(View(p)) /\ ~Fail(p, "SpecificityConflict") /\ ~Fail(p, "NotFound")
      <3>1. PICK row : row = [View(p)[i] EXCEPT !.published = TRUE]
        OBVIOUS
      <3>2. SamePlace(row, View(p)[i]) /\ row.live = View(p)[i].live
        BY <1>3, <2>2, <3>1 DEF PageRow, SamePlace
      <3>3. /\ Write(p, Version(i, row)) /\ Finish(p, tx[p], "Published")
            /\ tx[p].pc = "publish.update"
        BY <1>4, <2>2, <3>1 DEF PublishUpdate, UpdateLive, At
      <3> QED
        BY <2>2, <3>2, <3>3, FlagLands
    <2> QED
      BY <1>4, <2>1, <2>2 DEF PublishUpdate, UpdateLive
  <1>5. CASE UnpublishUpdate(p)
    <2>1. CASE Fail(p, "SpecificityConflict") \/ Fail(p, "NotFound")
      BY <2>1, FailLands DEF Answers
    <2>2. CASE i \in LivePages(View(p)) /\ ~Fail(p, "SpecificityConflict") /\ ~Fail(p, "NotFound")
      <3>1. PICK row : row = [View(p)[i] EXCEPT !.published = FALSE]
        OBVIOUS
      <3>2. SamePlace(row, View(p)[i]) /\ row.live = View(p)[i].live
        BY <1>3, <2>2, <3>1 DEF PageRow, SamePlace
      <3>3. /\ Write(p, Version(i, row)) /\ Finish(p, tx[p], "Unpublished")
            /\ tx[p].pc = "unpublish.update"
        BY <1>5, <2>2, <3>1 DEF UnpublishUpdate, UpdateLive, At
      <3> QED
        BY <2>2, <3>2, <3>3, FlagLands
    <2> QED
      BY <1>5, <2>1, <2>2 DEF UnpublishUpdate, UpdateLive
  <1> QED
    BY <1>2, <1>4, <1>5 DEF Edit

-----------------------------------------------------------------------------
\* Every step.

\* A request that goes on leaves the table and the other requests alone.
LEMMA OwnStep ==
    ASSUME Safe, NEW p \in Procs, NEW f, Step(p, f), TameStep(p), ~Commit(p)
    PROVE  /\ tx' = [tx EXCEPT ![p] = f] /\ db' = db
           /\ \A q \in Procs \ {p} : tx'[q] = tx[q] /\ ws'[q] = ws[q]
  BY SafeTypes DEF Step, TameStep, RollbackTx, Write, storeVars

\* No handler of these calls renames or deletes.
LEMMA NoRename ==
    ASSUME Safe, NEW p \in Procs
    PROVE  ~Rename(p) /\ ~Delete(p)
  <1>1. LocalsFit(tx[p], db)
    BY DEF Safe, Fits
  <1>2. \A l : At(p, l) => l \in {"idle", "commit", "publish.update", "unpublish.update",
            "fork.resolve", "fork.confirm", "fork.generic", "fork.select",
            "fork.insert", "fork.reselect", "fork.menus",
            "fanout.generic", "fanout.targets", "fanout.select", "fanout.insert",
            "fanout.menus", "fanout.delete"}
    BY <1>1 DEF At, LocalsFit, Forking, Fanning, Copying, Editing, Ends
  <1>3. ~Rename(p)
    BY <1>2 DEF Rename, RenameLoad, RenameMove, RenameMenus, RenameHomepage, RenameRedirect
  <1>4. ~Delete(p)
    BY <1>2 DEF Delete, DeleteLoad, DeleteTombstone, DeleteLoadGeneric, DeleteRepoint,
                DeleteUnbind
  <1> QED
    BY <1>3, <1>4

\* A step is a commit, or leaves the table and the other requests alone.
LEMMA NextSplit ==
    ASSUME Safe, VersioningOnly, Next
    PROVE  \E p \in Procs :
             \/ Commit(p)
             \/ /\ Start(p) \/ Fork(p) \/ Fanout(p) \/ Edit(p) \/ Abort(p)
                /\ Lands(p) /\ db' = db
                /\ \A q \in Procs \ {p} : tx'[q] = tx[q] /\ ws'[q] = ws[q]
  <1>1. PICK p \in Procs : Start(p) \/ Fork(p) \/ Fanout(p) \/ Edit(p) \/ Rename(p)
                           \/ Delete(p) \/ Commit(p) \/ Abort(p)
    BY DEF Next
  <1>2. CASE Start(p) \/ Fork(p) \/ Fanout(p) \/ Edit(p) \/ Abort(p)
    <2>1. \E f : Step(p, f)
      BY <1>2, SafeTypes, StartStep, ForkStep, FanoutStep, EditStep, AbortStep
    <2>2. Lands(p)
      BY <1>2, StartLands, ForkLands, FanoutLands, EditLands, FailLands DEF Abort, Answers
    <2>3. TameStep(p)
      BY <1>2, SafeTypes, StartTame, VersioningTame, EditTame, EndTame DEF Safe
    <2> QED
      BY <1>2, <2>1, <2>2, <2>3, OwnStep
  <1> QED
    BY <1>1, <1>2, NoRename

\* The invariant holds of every tidy catalog.
LEMMA InitSafe ==
    ASSUME TidyCatalogs, Init
    PROVE  Safe
  <1>1. LineageInv
    BY InitLineage
  <1>2. Tidy(db)
    BY DEF Init, TidyCatalogs
  <1>3. \A p \in Procs : tx[p] = Idle("none") /\ \A i \in Id : ws[p][i] = NoRow
    BY DEF Init, NoWrites
  <1>4. \A p \in Procs : /\ Fits(tx[p], ws[p], db) /\ ~HoldsGeneric(tx[p])
                         /\ tx[p].source = NoRow
    BY <1>3, IdleFits DEF Answers
  <1>5. MenusBoundToLive
    BY <1>2 DEF Tidy, MenusBoundToLive
  <1>6. \A p \in Procs : LivePages(ws[p]) = {}
    BY <1>3, Apart DEF LivePages
  <1>7. OneKeyPerUrl
    BY <1>2, <1>4, <1>6 DEF OneKeyPerUrl, Placed, Tidy
  <1>8. OneGeneric
    BY <1>2, <1>4 DEF OneGeneric, Named, Tidy, Standing
  <1> QED
    BY <1>1, <1>4, <1>5, <1>7, <1>8 DEF Safe

\* Every step keeps the invariant.
LEMMA NextSafe ==
    ASSUME VersioningOnly, Safe, [Next]_vars
    PROVE  Safe'
  <1>1. LineageInv'
    BY NextLineage DEF Safe
  <1>2. CASE Next
    <2>1. PICK p \in Procs :
             \/ Commit(p)
             \/ /\ Lands(p) /\ db' = db
                /\ \A q \in Procs \ {p} : tx'[q] = tx[q] /\ ws'[q] = ws[q]
      BY <1>2, NextSplit
    <2>2. CASE Commit(p)
      <3>1. MenusBoundToLive' /\ OneGeneric' /\ OneKeyPerUrl'
        BY <2>2, CommitBound, CommitNames
      <3>2. \A q \in Procs : Fits(tx'[q], ws'[q], db')
        BY <2>2, CommitFits
      <3> QED
        BY <1>1, <3>1, <3>2 DEF Safe
    <2>3. CASE ~Commit(p)
      <3>1. /\ MenusBoundToLive' /\ OneKeyPerUrl' /\ OneGeneric'
            /\ \A q \in Procs : Fits(tx'[q], ws'[q], db')
        BY <2>1, <2>3, LandsKeeps
      <3> QED
        BY <1>1, <3>1 DEF Safe
    <2> QED
      BY <2>2, <2>3
  <1>3. CASE UNCHANGED vars
    <2>1. db' = db /\ ws' = ws /\ tx' = tx
      BY <1>3 DEF vars
    <2>2. MenusBoundToLive' /\ OneGeneric' /\ OneKeyPerUrl'
      BY <2>1 DEF Safe, MenusBoundToLive, OneGeneric, OneKeyPerUrl, Named, Placed
    <2>3. \A q \in Procs : Fits(tx'[q], ws'[q], db')
      BY <2>1 DEF Safe
    <2> QED
      BY <1>1, <2>2, <2>3 DEF Safe
  <1> QED
    BY <1>2, <1>3

\* What the versioning verbs keep, they keep in every behaviour.
LEMMA SafeAlways ==
    ASSUME TidyCatalogs, VersioningOnly
    PROVE  Spec => []Safe
  <1>1. Init => Safe
    BY InitSafe
  <1>2. Safe /\ [Next]_vars => Safe'
    BY NextSafe
  <1> QED
    BY <1>1, <1>2, PTL DEF Spec

\* A bound menu of a live website names a live page, whatever forks and fanouts do between one
\* another's statements.
THEOREM BoundMenusLive ==
    ASSUME TidyCatalogs, VersioningOnly
    PROVE  Spec => []MenusBoundToLive
  <1>1. Safe => MenusBoundToLive
    BY DEF Safe
  <1> QED
    BY <1>1, SafeAlways, PTL

-----------------------------------------------------------------------------
\* What the websites can resolve.

\* A website resolves a key to its own page, or to the generic.
LEMMA Resolves ==
    ASSUME NEW t, NEW k, NEW w
    PROVE  ResolveSpecific(t, k, w) # {} <=> Holds(t, k, w) \/ Holds(t, k, Generic)
  <1> DEFINE S == {i \in LiveScope(t, w) : t[i].key = k}
  <1>1. ResolveSpecific(t, k, w) # {} => S # {}
    BY DEF ResolveSpecific, PreferSpecific
  <1>2. S # {} => Holds(t, k, w) \/ Holds(t, k, Generic)
    BY DEF LiveScope, Holds
  <1>3. ASSUME Holds(t, k, w)
        PROVE  ResolveSpecific(t, k, w) # {}
    <2>1. PICK i \in S : t[i].scope = w
      BY <1>3 DEF Holds, LiveScope
    <2> QED
      BY <2>1 DEF ResolveSpecific, PreferSpecific
  <1>4. ASSUME Holds(t, k, Generic), ~Holds(t, k, w)
        PROVE  ResolveSpecific(t, k, w) # {}
    <2>1. PICK i \in S : t[i].scope = Generic
      BY <1>4 DEF Holds, LiveScope
    <2>2. \A j \in S : t[j].scope = Generic
      BY <1>4 DEF Holds, LiveScope
    <2> QED
      BY <2>1, <2>2 DEF ResolveSpecific, PreferSpecific
  <1> QED
    BY <1>1, <1>2, <1>3, <1>4

\* A commit takes a key from no live website.
LEMMA CommitServes ==
    ASSUME Safe, NEW p \in Procs, Commit(p), NEW w \in LiveSites(db), NEW k,
           Holds(db, k, w) \/ Holds(db, k, Generic)
    PROVE  Holds(db', k, w) \/ Holds(db', k, Generic)
  <1>1. TableState(db) /\ TableState(db') /\ Grows(db, db')
    BY SafeTypes, CommitTable
  <1>2. w # Generic /\ w \in LiveSites(db')
    BY <1>1, GrowsKeeps, Apart DEF LiveSites
  <1>3. CASE Holds(db, k, w)
    BY <1>1, <1>2, <1>3, GrowsKeeps
  <1>4. CASE Holds(db, k, Generic)
    <2>1. PICK g \in LivePages(db) : db[g].key = k /\ db[g].scope = Generic
      BY <1>4 DEF Holds
    <2>2. g \in PageIds /\ db[g] # NoRow /\ db[g].live /\ Named(g)
      BY <2>1 DEF LivePages, Named
    <2>3. db'[g] # NoRow /\ db'[g].key = k /\ db'[g].scope = Generic
      BY <1>1, <2>1, <2>2 DEF Grows, SamePlace
    <2>4. CASE db'[g].live
      BY <2>2, <2>3, <2>4 DEF Holds, LivePages
    <2>5. CASE ~db'[g].live
      <3>1. Succeeded(db', g, k)
        BY <2>1, <2>2, <2>5, CommitTable DEF Hands
      <3> QED
        BY <1>2, <3>1 DEF Succeeded
    <2> QED
      BY <2>4, <2>5
  <1> QED
    BY <1>3, <1>4

\* Deleting a generic takes its key from no live website: what a website could resolve it
\* still can, after any step.
THEOREM NoPageLost ==
    ASSUME TidyCatalogs, VersioningOnly
    PROVE  Spec => NoSiteLosesAPage
  <1>1. Safe /\ [Next]_vars =>
          [\A w \in LiveSites(db), k \in Keys :
             ResolveSpecific(db, k, w) # {} => ResolveSpecific(db', k, w) # {}]_vars
    <2> SUFFICES ASSUME Safe, [Next]_vars, NEW w \in LiveSites(db), NEW k \in Keys,
                        ResolveSpecific(db, k, w) # {}
                 PROVE  ResolveSpecific(db', k, w) # {}
      OBVIOUS
    <2>1. Holds(db, k, w) \/ Holds(db, k, Generic)
      BY Resolves
    <2>2. CASE db' = db
      BY <2>1, <2>2, Resolves
    <2>3. CASE \E p \in Procs : Commit(p)
      BY <2>1, <2>3, CommitServes, Resolves
    <2> QED
      BY <2>2, <2>3, NextSplit DEF vars
  <1> QED
    BY <1>1, SafeAlways, PTL DEF Spec, NoSiteLosesAPage

-----------------------------------------------------------------------------
\* How a call fails.

\* Neither Goto nor Finish leads to idle.
LEMMA Proceeds ==
    ASSUME tx \in [Procs -> Frame], NEW p \in Procs, NEW f, "pc" \in DOMAIN f,
           tx'[p].pc = "idle"
    PROVE  /\ \A a : ~Finish(p, f, a)
           /\ \A l : l # "idle" => ~Goto(p, f, l)
  <1>1. ASSUME NEW a, Finish(p, f, a)
        PROVE  FALSE
    <2>1. tx'[p] = [f EXCEPT !.pc = "commit", !.answer = a]
      BY <1>1 DEF Finish
    <2> QED
      BY <2>1
  <1>2. ASSUME NEW l, l # "idle", Goto(p, f, l)
        PROVE  FALSE
    <2>1. tx'[p] = [f EXCEPT !.pc = l]
      BY <1>2 DEF Goto
    <2> QED
      BY <1>2, <2>1
  <1> QED
    BY <1>1, <1>2

\* A handler that becomes idle has failed, and only the two re-reads of the fork find nothing
\* where there should be a page.
LEMMA Failures ==
    ASSUME tx \in [Procs -> Frame], NEW p \in Procs, Fork(p) \/ Fanout(p), tx'[p].pc = "idle"
    PROVE  \/ tx'[p].answer # "Internal"
           \/ /\ tx[p].pc \in {"fork.confirm", "fork.reselect"}
              /\ ResolveSpecificEntity(View(p), tx[p].key, tx[p].scope) = {}
  <1>1. "pc" \in DOMAIN tx[p]
    <2>1. tx[p] \in Frame
      OBVIOUS
    <2> QED
      BY <2>1 DEF Frame
  <1>4. \A a : Fail(p, a) => tx'[p].answer = a
    BY DEF Fail, Idle
  <1>5. /\ \A l : l # "idle" => ~Goto(p, tx[p], l)
        /\ \A a : ~Finish(p, tx[p], a)
    BY <1>1, Proceeds
  <1>7. CASE ForkResolve(p)
    BY <1>5, <1>7 DEF ForkResolve
  <1>8. CASE ForkConfirm(p)
    <2>1. ASSUME NEW i
          PROVE  ~Finish(p, [tx[p] EXCEPT !.page = i], "Existing")
      BY <1>1, Proceeds
    <2> QED
      BY <1>8, <2>1 DEF ForkConfirm, At
  <1>9. CASE ForkLoadGeneric(p)
    <2>1. ASSUME NEW g
          PROVE  ~Goto(p, [tx[p] EXCEPT !.generic = g], "fork.select")
      BY <1>1, Proceeds
    <2> QED
      BY <1>4, <1>9, <2>1 DEF ForkLoadGeneric
  <1>10. CASE ForkSelect(p) \/ FanoutSelect(p)
    <2>1. ASSUME NEW r, NEW l, l # "idle"
          PROVE  ~Goto(p, [tx[p] EXCEPT !.source = r], l)
      BY <1>1, <2>1, Proceeds
    <2> QED
      BY <1>10, <2>1 DEF ForkSelect, FanoutSelect, SelectSource
  <1>11. CASE ForkInsert(p)
    <2>1. ASSUME NEW b
          PROVE  ~Goto(p, [tx[p] EXCEPT !.created = b, !.source = NoRow], "fork.reselect")
      BY <1>1, Proceeds
    <2> QED
      BY <1>11, <2>1 DEF ForkInsert
  <1>12. CASE ForkReselect(p)
    <2>1. ASSUME NEW i
          PROVE  /\ ~Finish(p, [tx[p] EXCEPT !.page = i], "Existing")
                 /\ ~Goto(p, [tx[p] EXCEPT !.page = i], "fork.menus")
      BY <1>1, Proceeds
    <2> QED
      BY <1>12, <2>1 DEF ForkReselect, At
  <1>13. CASE ForkRepointMenus(p)
    BY <1>5, <1>13 DEF ForkRepointMenus
  <1>14. CASE FanoutLoadGeneric(p)
    <2>1. ASSUME NEW g
          PROVE  ~Goto(p, [tx[p] EXCEPT !.generic = g], "fanout.targets")
      BY <1>1, Proceeds
    <2> QED
      BY <1>4, <1>14, <2>1 DEF FanoutLoadGeneric
  <1>15. CASE FanoutTargets(p)
    <2>1. ASSUME NEW T
          PROVE  ~FanoutNext(p, [tx[p] EXCEPT !.targets = T])
      BY <1>1, Proceeds DEF FanoutNext
    <2> QED
      BY <1>15, <2>1 DEF FanoutTargets
  <1>16. CASE FanoutInsert(p)
    <2>1. ASSUME NEW T
          PROVE  ~FanoutNext(p, [tx[p] EXCEPT !.targets = T, !.source = NoRow])
      BY <1>1, Proceeds DEF FanoutNext
    <2> QED
      BY <1>16, <2>1 DEF FanoutInsert
  <1>17. CASE FanoutRepointMenus(p)
    BY <1>5, <1>17 DEF FanoutRepointMenus
  <1>18. CASE FanoutDelete(p)
    BY <1>4, <1>5, <1>18 DEF FanoutDelete, StampRefused
  <1> QED
    BY <1>7, <1>8, <1>9, <1>10, <1>11, <1>12, <1>13, <1>14, <1>15, <1>16, <1>17, <1>18
       DEF Fork, Fanout

\* The two re-reads find a page, when the website is live.
LEMMA RereadsFind ==
    ASSUME Safe, NEW p \in Procs, tx[p].pc \in {"fork.confirm", "fork.reselect"},
           tx[p].scope \in LiveSites(db)
    PROVE  ResolveSpecificEntity(View(p), tx[p].key, tx[p].scope) # {}
  <1>1. LocalsFit(tx[p], db) /\ ForkFits(tx[p], ws[p], db) /\ View(p) = Over(ws[p], db)
    BY SafeTypes DEF Safe, Fits
  <1>2. CASE tx[p].pc = "fork.confirm"
    <2>1. ~Made(tx[p]) /\ ~Copying(tx[p]) /\ ~Editing(tx[p])
      BY <1>2 DEF Made, Copying, Editing, Ends
    <2>2. Holds(db, tx[p].key, tx[p].scope)
      BY <1>1, <1>2 DEF LocalsFit
    <2> QED
      BY <2>1, <2>2, CleanSees DEF Holds, ResolveSpecificEntity
  <1>3. CASE tx[p].pc = "fork.reselect"
    BY <1>1, <1>3 DEF ForkFits, Holds, ResolveSpecificEntity
  <1> QED
    BY <1>2, <1>3

\* A fork that raced another fork or a fanout finds its row: the internal errors of the
\* re-select are for dead websites only.
THEOREM RacedForkAnswers ==
    ASSUME TidyCatalogs, VersioningOnly
    PROVE  Spec => ForkNeverInternal
  <1>1. Safe /\ [Next]_vars =>
          [\A p \in Procs : (tx[p].pc # "idle" /\ tx'[p] = Idle("Internal"))
                              => tx[p].scope \notin LiveSites(db)]_vars
    <2> SUFFICES ASSUME Safe, [Next]_vars, NEW p \in Procs, tx[p].pc # "idle",
                        tx'[p] = Idle("Internal"), tx[p].scope \in LiveSites(db)
                 PROVE  FALSE
      OBVIOUS
    <2>1. tx'[p].pc = "idle" /\ tx'[p].answer = "Internal" /\ tx \in [Procs -> Frame]
      BY SafeTypes DEF Idle
    <2>2. tx' # tx
      BY <2>1
    <2>3. PICK q \in Procs :
             \/ Commit(q)
             \/ /\ Start(q) \/ Fork(q) \/ Fanout(q) \/ Edit(q) \/ Abort(q)
                /\ \A r \in Procs \ {q} : tx'[r] = tx[r]
      BY <2>2, NextSplit DEF vars
    <2>4. q = p
      BY <2>1, <2>3 DEF Commit
    <2>5. CASE Commit(p)
      <3>1. tx[p].answer = "Internal" /\ tx[p].pc = "commit"
        BY <2>1, <2>5 DEF Commit, At, Idle
      <3> QED
        BY <3>1 DEF Safe, Fits, LocalsFit, Forking, Fanning, Copying, Editing, Ends
    <2>6. ~Start(p)
      BY DEF Start, BeginFork, BeginFanout, BeginCreate, BeginPatch, BeginPublish, BeginRename,
             BeginDelete, Begin
    <2>7. CASE Fork(p) \/ Fanout(p)
      BY <2>1, <2>7, Failures, RereadsFind
    <2>8. CASE Edit(p)
      <3>1. \A a : Fail(p, a) => a = "Internal"
        BY <2>1 DEF Fail, Idle
      <3>2. \A a : ~Finish(p, tx[p], a)
        <4>1. tx[p] \in Frame
          BY <2>1
        <4>2. "pc" \in DOMAIN tx[p]
          BY <4>1 DEF Frame
        <4> QED
          BY <2>1, <4>2, Proceeds
      <3> QED
        BY <2>8, <3>1, <3>2 DEF Edit, CreateInsert, PatchUpdate, PublishUpdate, UnpublishUpdate,
                                UpdateLive, StampRefused
    <2>9. CASE Abort(p)
      BY <2>1, <2>9 DEF Abort, Fail, Idle
    <2> QED
      BY <2>3, <2>4, <2>5, <2>6, <2>7, <2>8, <2>9
  <1> QED
    BY <1>1, SafeAlways, PTL DEF Spec, ForkNeverInternal

-----------------------------------------------------------------------------
\* The atomic catalog.

\* The scopes that hold a key in the table t, and the binding of a menu in it.
ScopesOf(t, k) == {s \in Scopes : Holds(t, k, s)}
BoundPage(t, m) ==
    IF m \in LiveMenus(t) /\ t[m].page # None
      THEN <<t[t[m].page].key, t[t[m].page].scope>>
      ELSE None

\* The refinement mapping, by these.
LEMMA Mapped ==
    /\ \A k : HoldersOf(k) = ScopesOf(db, k)
    /\ \A m : BindingOf(m) = BoundPage(db, m)
    /\ \A k : HoldersOf(k)' = ScopesOf(db', k)
    /\ \A m : BindingOf(m)' = BoundPage(db', m)
  <1>1. \A t, k, s : ResolveSpecificEntity(t, k, s) # {} <=> Holds(t, k, s)
    BY DEF ResolveSpecificEntity, Holds
  <1>2. \A k : HoldersOf(k) = ScopesOf(db, k)
    BY <1>1 DEF HoldersOf, ScopesOf
  <1>3. \A k : HoldersOf(k)' = ScopesOf(db', k)
    BY <1>1 DEF HoldersOf, ScopesOf
  <1>4. \A m : BindingOf(m) = BoundPage(db, m) /\ BindingOf(m)' = BoundPage(db', m)
    BY DEF BindingOf, BoundPage
  <1> QED
    BY <1>2, <1>3, <1>4

\* Every state of the invariant is a state of the catalog with its bindings held.
LEMMA CatalogState ==
    ASSUME Safe
    PROVE  Atomic!TypeOK /\ Atomic!BindingsHeld
  <1>1. TableState(db) /\ BoundLocally(db)
    BY SafeTypes
  <1>2. Atomic!Scopes = Scopes /\ Atomic!Generic = Generic
    BY DEF Atomic!Scopes, Atomic!Generic, Scopes, Generic
  <1>3. ASSUME NEW m \in LiveMenus(db), db[m].page # None
        PROVE  /\ m \in MenuIds /\ db[m] # NoRow /\ db[m].site \in Sites
               /\ db[m].page \in PageIds /\ db[db[m].page] # NoRow
               /\ db[db[m].page].key \in Keys /\ db[db[m].page].scope \in Scopes
               /\ db[db[m].page].scope \in {db[m].site, Generic}
               /\ db[m].site \in LiveSites(db) => db[db[m].page].live
    <2>1. m \in MenuIds /\ db[m] # NoRow /\ db[m] \in MenuRow
      BY <1>1 DEF LiveMenus, TableState
    <2>2. db[m].site \in Sites /\ db[m].page \in PageIds
      BY <1>3, <2>1 DEF MenuRow
    <2>3. db[db[m].page] # NoRow /\ db[db[m].page].scope \in {db[m].site, Generic}
      BY <1>1, <1>3 DEF BoundLocally
    <2>4. db[db[m].page] \in PageRow
      BY <1>1, <2>2, <2>3 DEF TableState
    <2>5. db[m].site \in LiveSites(db) => db[db[m].page].live
      BY <1>3 DEF Safe, MenusBoundToLive
    <2> QED
      BY <2>1, <2>2, <2>3, <2>4, <2>5 DEF PageRow
  <1>4. Atomic!TypeOK
    <2>1. LiveSites(db) \subseteq Sites
      BY DEF LiveSites
    <2>2. [m \in MenuIds |-> IF db[m] = NoRow THEN None ELSE db[m].site]
            \in [MenuIds -> Sites \cup {None}]
      BY <1>1 DEF TableState, MenuRow
    <2>3. [k \in Keys |-> HoldersOf(k)] \in [Keys -> SUBSET Scopes]
      BY DEF HoldersOf
    <2>4. \A m \in MenuIds : BoundPage(db, m) \in (Keys \X Scopes) \cup {None}
      BY <1>3 DEF BoundPage
    <2>5. [m \in MenuIds |-> BindingOf(m)] \in [MenuIds -> (Keys \X Scopes) \cup {None}]
      BY <2>4, Mapped
    <2> QED
      BY <1>2, <2>1, <2>2, <2>3, <2>5 DEF Atomic!TypeOK
  <1>5. Atomic!BindingsHeld
    <2> SUFFICES ASSUME NEW m \in MenuIds,
                        (IF db[m] = NoRow THEN None ELSE db[m].site) \in LiveSites(db),
                        BoundPage(db, m) # None
                 PROVE  \E k \in Keys, s \in {IF db[m] = NoRow THEN None ELSE db[m].site, Generic} :
                          BoundPage(db, m) = <<k, s>> /\ s \in HoldersOf(k)
      BY <1>2, Mapped DEF Atomic!BindingsHeld
    <2>1. m \in LiveMenus(db) /\ db[m].page # None
      BY DEF BoundPage
    <2> DEFINE i == db[m].page
    <2>2. /\ db[m] # NoRow /\ i \in PageIds /\ db[i] # NoRow /\ db[i].live
          /\ db[i].key \in Keys /\ db[i].scope \in Scopes /\ db[i].scope \in {db[m].site, Generic}
      BY <1>3, <2>1
    <2>3. BoundPage(db, m) = <<db[i].key, db[i].scope>>
      BY <2>1 DEF BoundPage
    <2>4. db[i].scope \in HoldersOf(db[i].key)
      BY <2>2, Mapped DEF ScopesOf, Holds, LivePages
    <2> QED
      BY <2>2, <2>3, <2>4
  <1> QED
    BY <1>4, <1>5

\* A step that leaves the table alone is no step of the catalog.
LEMMA StaysPut ==
    ASSUME db' = db
    PROVE  UNCHANGED Atomic!vars
  BY Mapped DEF Atomic!vars, LiveSites

\* The website of the menu m in the table t.
SiteOf(t, m) == IF t[m] = NoRow THEN None ELSE t[m].site

\* Websites and menus stay what they are.
SitesStay ==
    /\ LiveSites(db') = LiveSites(db)
    /\ \A m \in MenuIds : SiteOf(db', m) = SiteOf(db, m)

\* A table in which w gets the key k is one fork away.
LEMMA AsFork ==
    ASSUME NEW k \in Keys, NEW w \in Sites, SitesStay, w \notin ScopesOf(db, k),
           Generic \in ScopesOf(db, k) \/ w \notin LiveSites(db),
           \A kk \in Keys : ScopesOf(db', kk) = IF kk = k THEN ScopesOf(db, kk) \cup {w}
                                                ELSE ScopesOf(db, kk),
           \A m \in MenuIds :
             BoundPage(db', m) = IF SiteOf(db, m) = w /\ BoundPage(db, m) = <<k, Generic>>
                                 THEN <<k, w>> ELSE BoundPage(db, m)
    PROVE  Atomic!Fork(k, w)
  <1>1. Atomic!Generic = Generic
    BY DEF Atomic!Generic, Generic
  <1>2. [kk \in Keys |-> HoldersOf(kk)]' =
          [[kk \in Keys |-> HoldersOf(kk)] EXCEPT ![k] = @ \cup {w}]
    BY Mapped
  <1>3. [m \in MenuIds |-> BindingOf(m)]' =
          [m \in MenuIds |->
             IF SiteOf(db, m) \in {w} /\ [x \in MenuIds |-> BindingOf(x)][m] = <<k, Generic>>
             THEN <<k, SiteOf(db, m)>> ELSE [x \in MenuIds |-> BindingOf(x)][m]]
    BY Mapped
  <1>4. [m \in MenuIds |-> SiteOf(db, m)]' = [m \in MenuIds |-> SiteOf(db, m)]
    BY DEF SitesStay
  <1>5. w \notin [kk \in Keys |-> HoldersOf(kk)][k]
    BY Mapped
  <1>6. Generic \in [kk \in Keys |-> HoldersOf(kk)][k] \/ w \notin LiveSites(db)
    BY Mapped
  <1> QED
    BY <1>1, <1>2, <1>3, <1>4, <1>5, <1>6 DEF Atomic!Fork, Atomic!Rebound, SiteOf, SitesStay

\* A table in which the live websites get the key k in place of the generic is one fanout away.
LEMMA AsFanout ==
    ASSUME NEW k \in Keys, SitesStay, Generic \in ScopesOf(db, k),
           \A kk \in Keys : ScopesOf(db', kk) =
                              IF kk = k THEN (ScopesOf(db, kk) \ {Generic}) \cup LiveSites(db)
                              ELSE ScopesOf(db, kk),
           \A m \in MenuIds :
             BoundPage(db', m) =
               IF SiteOf(db, m) \in ScopesOf(db', k) /\ BoundPage(db, m) = <<k, Generic>>
               THEN <<k, SiteOf(db, m)>> ELSE BoundPage(db, m)
    PROVE  Atomic!Fanout(k)
  <1>1. Atomic!Generic = Generic
    BY DEF Atomic!Generic, Generic
  <1>2. [kk \in Keys |-> HoldersOf(kk)]' =
          [[kk \in Keys |-> HoldersOf(kk)] EXCEPT ![k] = (@ \ {Generic}) \cup LiveSites(db)]
    BY Mapped
  <1>3. [m \in MenuIds |-> BindingOf(m)]' =
          [m \in MenuIds |->
             IF /\ SiteOf(db, m) \in ([kk \in Keys |-> HoldersOf(kk)]')[k]
                /\ [x \in MenuIds |-> BindingOf(x)][m] = <<k, Generic>>
             THEN <<k, SiteOf(db, m)>> ELSE [x \in MenuIds |-> BindingOf(x)][m]]
    BY Mapped
  <1>4. [m \in MenuIds |-> SiteOf(db, m)]' = [m \in MenuIds |-> SiteOf(db, m)]
    BY DEF SitesStay
  <1>5. Generic \in [kk \in Keys |-> HoldersOf(kk)][k]
    BY Mapped
  <1> QED
    BY <1>1, <1>2, <1>3, <1>4, <1>5 DEF Atomic!Fanout, Atomic!Rebound, SiteOf, SitesStay

\* A table with the same holders and bindings is the same catalog.
LEMMA AsStutter ==
    ASSUME SitesStay, \A k \in Keys : ScopesOf(db', k) = ScopesOf(db, k),
           \A m \in MenuIds : BoundPage(db', m) = BoundPage(db, m)
    PROVE  UNCHANGED Atomic!vars
  BY Mapped DEF Atomic!vars, SiteOf, SitesStay

\* No commit touches a website, or moves a menu to another.
LEMMA CommitSites ==
    ASSUME Safe, NEW p \in Procs, Commit(p)
    PROVE  SitesStay
  <1>1. TableState(db) /\ TableState(db') /\ Grows(db, db')
    BY SafeTypes, CommitTable
  <1>2. LiveSites(db') = LiveSites(db)
    BY <1>1, GrowsKeeps
  <1>3. ASSUME NEW m \in MenuIds
        PROVE  SiteOf(db', m) = SiteOf(db, m)
    BY <1>1 DEF Grows, Moved, LiveMenus, SiteOf
  <1> QED
    BY <1>2, <1>3 DEF SitesStay

\* A menu that a commit does not touch keeps its binding.
LEMMA SameBinding ==
    ASSUME Safe, NEW p \in Procs, Commit(p), NEW m \in MenuIds, db'[m] = db[m]
    PROVE  BoundPage(db', m) = BoundPage(db, m)
  <1>1. TableState(db) /\ Grows(db, db') /\ BoundLocally(db)
    BY SafeTypes, CommitTable
  <1>2. m \in LiveMenus(db') <=> m \in LiveMenus(db)
    BY DEF LiveMenus
  <1>3. ASSUME m \in LiveMenus(db), db[m].page # None
        PROVE  db'[db[m].page].key = db[db[m].page].key /\ db'[db[m].page].scope = db[db[m].page].scope
    <2>1. db[m].page \in PageIds /\ db[db[m].page] # NoRow
      BY <1>1, <1>3 DEF LiveMenus, TableState, MenuRow, BoundLocally
    <2> QED
      BY <1>1, <2>1 DEF Grows, SamePlace
  <1> QED
    BY <1>2, <1>3 DEF BoundPage

\* The menus bound to the generic of a key.
LEMMA GenericBinding ==
    ASSUME Safe, PairsAreNotNone, NEW g \in PageIds, Named(g), NEW m \in MenuIds
    PROVE  BoundPage(db, m) = <<db[g].key, Generic>> <=> m \in BoundTo(db, g)
  <1>1. TableState(db) /\ BoundLocally(db)
    BY SafeTypes
  <1>2. db[g] # NoRow /\ db[g].scope = Generic /\ db[g].key \in Keys
    BY <1>1 DEF Named, TableState, PageRow
  <1>3. <<db[g].key, Generic>> # None
    BY <1>2 DEF PairsAreNotNone, Scopes
  <1>4. ASSUME m \in BoundTo(db, g)
        PROVE  BoundPage(db, m) = <<db[g].key, Generic>>
    BY <1>2, <1>4, Apart DEF BoundTo, BoundPage
  <1>5. ASSUME BoundPage(db, m) = <<db[g].key, Generic>>
        PROVE  m \in BoundTo(db, g)
    <2>1. m \in LiveMenus(db) /\ db[m].page # None
      BY <1>3, <1>5 DEF BoundPage
    <2> DEFINE j == db[m].page
    <2>2. j \in PageIds /\ db[j] # NoRow
      BY <1>1, <2>1 DEF LiveMenus, TableState, MenuRow, BoundLocally
    <2>3. db[j].key = db[g].key /\ db[j].scope = Generic
      BY <1>5, <2>1 DEF BoundPage
    <2>4. m \in BoundTo(db, j)
      BY <2>1 DEF BoundTo
    <2>5. Named(j)
      BY <2>2, <2>3, <2>4 DEF Named
    <2>6. j = g
      BY <2>2, <2>3, <2>5 DEF Safe, OneGeneric
    <2> QED
      BY <2>4, <2>6
  <1> QED
    BY <1>4, <1>5

\* A commit that leaves every page in its place and every menu on its page.
LEMMA QuietCommit ==
    ASSUME Safe, NEW p \in Procs, Commit(p),
           \A i \in PageIds : ws[p][i] # NoRow =>
             db[i] # NoRow /\ SamePlace(ws[p][i], db[i]) /\ ws[p][i].live = db[i].live,
           \A m \in MenuIds : ws[p][m] = NoRow
    PROVE  UNCHANGED Atomic!vars
  <1>1. \A i \in Id : db'[i] = IF ws[p][i] # NoRow THEN ws[p][i] ELSE db[i]
    BY CommitTable, OverAt
  <1>2. \A m \in MenuIds : db'[m] = db[m]
    BY <1>1, Apart
  <1>3. \A i \in PageIds :
          \/ db'[i] = db[i]
          \/ db'[i] # NoRow /\ db[i] # NoRow /\ SamePlace(db'[i], db[i]) /\ db'[i].live = db[i].live
    BY <1>1, Apart
  <1>4. \A k, s : Holds(db', k, s) <=> Holds(db, k, s)
    BY <1>3 DEF Holds, LivePages, SamePlace
  <1>5. \A k \in Keys : ScopesOf(db', k) = ScopesOf(db, k)
    BY <1>4 DEF ScopesOf
  <1>6. \A m \in MenuIds : BoundPage(db', m) = BoundPage(db, m)
    BY <1>2, SameBinding
  <1> QED
    BY <1>5, <1>6, CommitSites, AsStutter

\* A fork that commits its copy is a fork of the catalog.
LEMMA ForkCommit ==
    ASSUME Safe, PairsAreNotNone, NEW p \in Procs, Commit(p), Ends(tx[p], "Created")
    PROVE  \E k \in Keys, w \in Sites : Atomic!Fork(k, w)
  <1> DEFINE f == tx[p]
             g == tx[p].generic
             k == tx[p].key
             w == tx[p].scope
             u == ws[p]
  <1>1. /\ LocalsFit(f, db) /\ ForkFits(f, u, db) /\ TableState(db) /\ Grows(db, db')
        /\ TableState(db') /\ BoundLocally(db)
    BY SafeTypes, CommitTable DEF Safe, Fits
  <1>2. Made(f) /\ HoldsGeneric(f) /\ Forking(f) /\ f.pc # "fork.reselect"
    BY DEF Made, HoldsGeneric, Forking, Ends
  <1>3. /\ k \in Keys /\ w \in Sites /\ w # Generic /\ g \in PageIds /\ db[g] # NoRow
        /\ db[g].key = k /\ db[g].scope = Generic
        /\ ~db[g].live => Succeeded(db, g, k)
    BY <1>1, <1>2, Apart DEF LocalsFit
  <1>4. Named(g)
    BY <1>2, <1>3 DEF Named
  <1>5. PICK i \in PageIds :
          /\ u[i] # NoRow /\ u[i].live /\ u[i].key = k /\ u[i].scope = w /\ db[i] = NoRow
          /\ \A j \in PageIds \ {i} : u[j] = NoRow
          /\ f.page = i
    BY <1>1, <1>2 DEF ForkFits
  <1>6. \A j \in Id : db'[j] = IF u[j] # NoRow THEN u[j] ELSE db[j]
    BY CommitTable, OverAt
  <1>7. /\ db'[i] = u[i] /\ \A j \in PageIds \ {i} : db'[j] = db[j]
    BY <1>5, <1>6, Apart
  <1>8. ~Holds(db, k, w)
    <2>1. SUFFICES ASSUME NEW j \in LivePages(db), db[j].key = k, db[j].scope = w PROVE FALSE
      BY DEF Holds
    <2>2. j \in PageIds /\ j # i /\ j \in Id /\ i \in Id /\ db[j] # NoRow /\ db[j].live
      BY <1>5, Apart DEF LivePages
    <2>3. View(p)[j] = db[j] /\ View(p)[i] = u[i]
      BY <1>5, <2>2 DEF View
    <2>4. Collide(i, View(p)[i], j, View(p)[j])
      BY <1>5, <2>1, <2>2, <2>3 DEF Collide, SameSpecificity
    <2> QED
      BY <2>2, <2>4, SafeTypes DEF CollisionFree
  <1>9. w \notin ScopesOf(db, k)
    BY <1>8 DEF ScopesOf
  <1>10. Generic \in ScopesOf(db, k) \/ w \notin LiveSites(db)
    <2>1. CASE db[g].live
      BY <1>3, <2>1 DEF ScopesOf, Holds, LivePages, Scopes
    <2>2. CASE ~db[g].live
      BY <1>3, <1>8, <2>2 DEF Succeeded
    <2> QED
      BY <2>1, <2>2
  <1>11. \A kk, s : Holds(db', kk, s) <=> Holds(db, kk, s) \/ (kk = k /\ s = w)
    <2>1. \A j : j \in LivePages(db') <=> j \in LivePages(db) \/ j = i
      BY <1>5, <1>7 DEF LivePages
    <2>2. i \notin LivePages(db)
      BY <1>5 DEF LivePages
    <2>3. \A j \in LivePages(db) : db'[j] = db[j]
      BY <1>7, <2>2 DEF LivePages
    <2> QED
      BY <1>5, <1>7, <2>1, <2>2, <2>3 DEF Holds
  <1>12. \A kk \in Keys : ScopesOf(db', kk) = IF kk = k THEN ScopesOf(db, kk) \cup {w}
                                              ELSE ScopesOf(db, kk)
    BY <1>3, <1>11 DEF ScopesOf, Scopes
  <1>13. ASSUME NEW m \in MenuIds
         PROVE  BoundPage(db', m) = IF SiteOf(db, m) = w /\ BoundPage(db, m) = <<k, Generic>>
                                    THEN <<k, w>> ELSE BoundPage(db, m)
    <2>1. BoundPage(db, m) = <<k, Generic>> <=> m \in BoundTo(db, g)
      BY <1>3, <1>4, GenericBinding
    <2>2. m \in BoundTo(db, g) => db[m] # NoRow /\ SiteOf(db, m) = db[m].site
      BY DEF BoundTo, LiveMenus, SiteOf
    <2>3. CASE m \in BoundTo(db, g) /\ db[m].site = w
      <3>1. u[m] # NoRow /\ Moved(db[m], u[m], i) /\ db'[m] = u[m]
        BY <1>1, <1>2, <1>5, <1>6, <2>3, Apart DEF ForkFits
      <3>2. m \in LiveMenus(db') /\ db'[m].page = i /\ i # None
        BY <2>3, <3>1, Apart DEF Moved, BoundTo, LiveMenus
      <3>3. BoundPage(db', m) = <<k, w>>
        BY <1>5, <1>7, <3>2 DEF BoundPage
      <3> QED
        BY <2>1, <2>2, <2>3, <3>3
    <2>4. CASE ~(m \in BoundTo(db, g) /\ db[m].site = w)
      <3>1. u[m] = NoRow
        BY <1>1, <2>4 DEF ForkFits
      <3>2. db'[m] = db[m]
        BY <1>6, <3>1, Apart
      <3> QED
        BY <2>1, <2>2, <2>4, <3>2, SameBinding
    <2> QED
      BY <2>3, <2>4
  <1> HIDE DEF k, w
  <1>14. Atomic!Fork(k, w)
    BY <1>3, <1>9, <1>10, <1>12, <1>13, CommitSites, AsFork
  <1> QED
    BY <1>3, <1>14

\* A fanout that commits the death of its generic is a fanout of the catalog; one that comes
\* after another fanout of the same generic changes nothing.
LEMMA FanoutCommit ==
    ASSUME Safe, PairsAreNotNone, NEW p \in Procs, Commit(p), Ends(tx[p], "FannedOut")
    PROVE  UNCHANGED Atomic!vars \/ \E k \in Keys : Atomic!Fanout(k)
  <1> DEFINE f == tx[p]
             g == tx[p].generic
             k == tx[p].key
             u == ws[p]
  <1>1. /\ LocalsFit(f, db) /\ FanoutFits(f, u, db) /\ TableState(db) /\ Grows(db, db')
        /\ TableState(db') /\ BoundLocally(db) /\ db' = Over(u, db)
    BY SafeTypes, CommitTable DEF Safe, Fits
  <1>2. Copying(f) /\ Rebound(f) /\ HoldsGeneric(f) /\ Fanning(f)
    BY DEF Copying, Rebound, HoldsGeneric, Fanning
  <1>3. /\ k \in Keys /\ g \in PageIds /\ g \in Id /\ db[g] # NoRow
        /\ db[g].key = k /\ db[g].scope = Generic
        /\ ~db[g].live => Succeeded(db, g, k)
    BY <1>1, <1>2, Apart DEF LocalsFit
  <1>4. Named(g)
    BY <1>2, <1>3 DEF Named
  <1>5. \A j \in Id : db'[j] = IF u[j] # NoRow THEN u[j] ELSE db[j]
    BY CommitTable, OverAt
  <1>6. db'[g] = u[g] /\ u[g] # NoRow /\ ~u[g].live /\ SamePlace(u[g], db[g])
    BY <1>1, <1>2, <1>3, <1>5 DEF FanoutFits
  <1>7. \A w \in LiveSites(db) : Holds(db', k, w)
    BY <1>1, <1>2 DEF FanoutFits, Ends
  <1>8. ASSUME NEW m \in MenuIds, u[m] # NoRow
        PROVE  /\ db'[m] = u[m] /\ m \in BoundTo(db, g)
               /\ \E i \in LivePages(db') : /\ db'[i].key = k /\ db'[i].scope = db[m].site
                                            /\ Moved(db[m], u[m], i)
    BY <1>1, <1>2, <1>5, <1>8, Apart DEF FanoutFits
  <1>9. \A i \in PageIds : i # g /\ u[i] # NoRow =>
          /\ db'[i] = u[i] /\ db[i] = NoRow /\ u[i].live /\ u[i].key = k
          /\ u[i].scope \in LiveSites(db)
    BY <1>1, <1>2, <1>5, Apart DEF FanoutFits
  <1>10. \A i \in PageIds : u[i] = NoRow => db'[i] = db[i]
    BY <1>5, Apart
  <1>11. CASE ~db[g].live
    <2>1. Succeeded(db, g, k)
      BY <1>3, <1>11
    <2>2. \A i \in PageIds : i # g => u[i] = NoRow
      <3>1. SUFFICES ASSUME NEW i \in PageIds, i # g, u[i] # NoRow PROVE FALSE
        OBVIOUS
      <3>2. u[i].scope \in LiveSites(db) /\ u[i].live /\ u[i].key = k /\ db[i] = NoRow
        BY <1>9, <3>1
      <3>3. PICK j \in LivePages(db) : db[j].key = k /\ db[j].scope = u[i].scope
        BY <2>1, <3>2 DEF Succeeded, Holds
      <3>4. j \in PageIds /\ j \in Id /\ i \in Id /\ db[j] # NoRow /\ db[j].live /\ j # i
        BY <3>2, <3>3, Apart DEF LivePages
      <3>5. j # g
        BY <1>11, <3>4
      <3>6. u[j] = NoRow
        BY <1>9, <3>4, <3>5
      <3>7. View(p)[j] = db[j] /\ View(p)[i] = u[i]
        BY <3>1, <3>4, <3>6 DEF View
      <3>8. Collide(i, View(p)[i], j, View(p)[j])
        BY <3>1, <3>2, <3>3, <3>4, <3>7 DEF Collide, SameSpecificity
      <3> QED
        BY <3>4, <3>8, SafeTypes DEF CollisionFree
    <2>3. \A m \in MenuIds : u[m] = NoRow
      <3>1. SUFFICES ASSUME NEW m \in MenuIds, u[m] # NoRow PROVE FALSE
        OBVIOUS
      <3>2. m \in BoundTo(db, g)
        BY <1>8, <3>1
      <3>3. PICK i \in LivePages(db') : db'[i].key = k /\ db'[i].scope = db[m].site
        BY <1>8, <3>1
      <3>4. i \in PageIds /\ i # g
        BY <1>6, <3>3 DEF LivePages
      <3>5. Holds(db, k, db[m].site)
        BY <1>10, <2>2, <3>3, <3>4 DEF Holds, LivePages
      <3> QED
        BY <2>1, <3>2, <3>5 DEF Succeeded
    <2>4. \A i \in PageIds : u[i] # NoRow =>
            db[i] # NoRow /\ SamePlace(u[i], db[i]) /\ u[i].live = db[i].live
      <3>1. u[g].live = db[g].live
        <4>1. u[g] \in PageRow /\ db[g] \in PageRow
          BY <1>1, <1>3, <1>6 DEF TableState
        <4> QED
          BY <1>6, <1>11, <4>1 DEF PageRow
      <3> QED
        BY <1>3, <1>6, <2>2, <3>1
    <2> QED
      BY <2>3, <2>4, QuietCommit
  <1>12. CASE db[g].live
    <2>1. Generic \in ScopesOf(db, k)
      BY <1>3, <1>12 DEF ScopesOf, Holds, LivePages, Scopes
    <2>2. ~Holds(db', k, Generic)
      <3>1. SUFFICES ASSUME NEW j \in LivePages(db'), db'[j].key = k, db'[j].scope = Generic
                     PROVE  FALSE
        BY DEF Holds
      <3>2. j \in PageIds /\ j # g /\ db'[j] # NoRow /\ db'[j].live
        BY <1>6, <3>1 DEF LivePages
      <3>3. u[j] = NoRow
        BY <1>9, <3>1, <3>2, Apart DEF LiveSites
      <3>4. db[j] = db'[j]
        BY <1>10, <3>2, <3>3
      <3>5. Named(j)
        BY <3>1, <3>2, <3>4 DEF Named
      <3> QED
        BY <1>3, <1>4, <3>1, <3>2, <3>4, <3>5 DEF Safe, OneGeneric
    <2>3. \A kk, s : Holds(db', kk, s) =>
            Holds(db, kk, s) \/ (kk = k /\ s \in LiveSites(db))
      <3>1. ASSUME NEW j \in LivePages(db')
            PROVE  \/ j \in LivePages(db) /\ db[j] = db'[j]
                   \/ db'[j].key = k /\ db'[j].scope \in LiveSites(db)
        <4>1. j \in PageIds /\ j # g /\ db'[j] # NoRow /\ db'[j].live
          BY <1>6 DEF LivePages
        <4> QED
          BY <1>9, <1>10, <4>1 DEF LivePages
      <3> QED
        BY <3>1 DEF Holds
    <2>4. \A kk, s : Holds(db, kk, s) => Holds(db', kk, s) \/ (kk = k /\ s = Generic)
      <3>1. ASSUME NEW j \in LivePages(db), j # g
            PROVE  j \in LivePages(db') /\ db'[j] = db[j]
        <4>1. j \in PageIds /\ db[j] # NoRow /\ db[j].live
          BY DEF LivePages
        <4>2. u[j] = NoRow
          BY <1>9, <3>1, <4>1
        <4> QED
          BY <1>10, <4>1, <4>2 DEF LivePages
      <3> QED
        BY <1>3, <3>1 DEF Holds
    <2>5. LiveSites(db) \subseteq Sites /\ Generic \notin LiveSites(db)
      BY Apart DEF LiveSites
    <2>6. ASSUME NEW kk \in Keys
          PROVE  ScopesOf(db', kk) = IF kk = k THEN (ScopesOf(db, kk) \ {Generic}) \cup LiveSites(db)
                                     ELSE ScopesOf(db, kk)
      <3>1. CASE kk = k
        BY <1>7, <2>2, <2>3, <2>4, <2>5, <3>1 DEF ScopesOf, Scopes
      <3>2. CASE kk # k
        BY <2>3, <2>4, <3>2 DEF ScopesOf
      <3> QED
        BY <3>1, <3>2
    <2>7. ASSUME NEW m \in MenuIds
          PROVE  BoundPage(db', m) =
                   IF SiteOf(db, m) \in ScopesOf(db', k) /\ BoundPage(db, m) = <<k, Generic>>
                   THEN <<k, SiteOf(db, m)>> ELSE BoundPage(db, m)
      <3>1. BoundPage(db, m) = <<k, Generic>> <=> m \in BoundTo(db, g)
        BY <1>3, <1>4, GenericBinding
      <3>2. m \in BoundTo(db, g) => SiteOf(db, m) = db[m].site /\ db[m].site \in Scopes
        BY <1>1 DEF BoundTo, LiveMenus, SiteOf, TableState, MenuRow, Scopes
      <3>3. CASE u[m] # NoRow
        <4>1. PICK i \in LivePages(db') : /\ db'[i].key = k /\ db'[i].scope = db[m].site
                                          /\ Moved(db[m], u[m], i)
          BY <1>8, <3>3
        <4>2. m \in BoundTo(db, g) /\ db'[m] = u[m]
          BY <1>8, <3>3
        <4>3. m \in LiveMenus(db') /\ db'[m].page = i /\ i # None
          BY <4>1, <4>2, Apart DEF Moved, BoundTo, LiveMenus, LivePages
        <4>4. BoundPage(db', m) = <<k, db[m].site>>
          BY <4>1, <4>3 DEF BoundPage
        <4>5. db[m].site \in ScopesOf(db', k)
          BY <3>2, <4>1, <4>2 DEF ScopesOf, Holds
        <4> QED
          BY <3>1, <3>2, <4>2, <4>4, <4>5
      <3>4. CASE u[m] = NoRow
        <4>1. BoundPage(db', m) = BoundPage(db, m)
          BY <1>5, <3>4, Apart, SameBinding
        <4>2. m \in BoundTo(db, g) => ~Holds(db', k, db[m].site)
          BY <1>1, <1>2, <3>4 DEF FanoutFits
        <4> QED
          BY <3>1, <3>2, <4>1, <4>2 DEF ScopesOf
      <3> QED
        BY <3>3, <3>4
    <2> HIDE DEF k
    <2>8. Atomic!Fanout(k)
      BY <1>3, <2>1, <2>6, <2>7, CommitSites, AsFanout
    <2> QED
      BY <1>3, <2>8
  <1> QED
    BY <1>11, <1>12

\* Every commit is a step of the catalog, or none.
LEMMA CommitImplements ==
    ASSUME Safe, PairsAreNotNone, NEW p \in Procs, Commit(p)
    PROVE  Atomic!Next \/ UNCHANGED Atomic!vars
  <1>1. Fits(tx[p], ws[p], db) /\ tx[p].pc = "commit"
    BY DEF Safe, Commit, At
  <1>2. CASE Ends(tx[p], "Created")
    BY <1>2, ForkCommit DEF Atomic!Next
  <1>3. CASE Ends(tx[p], "FannedOut")
    BY <1>3, FanoutCommit DEF Atomic!Next
  <1>4. CASE Editing(tx[p])
    <2>1. /\ \A i \in PageIds : ws[p][i] # NoRow =>
               db[i] # NoRow /\ SamePlace(ws[p][i], db[i]) /\ ws[p][i].live = db[i].live
          /\ \A m \in MenuIds : ws[p][m] = NoRow
      BY <1>1, <1>4 DEF Fits, EditFits
    <2> QED
      BY <2>1, QuietCommit
  <1>5. CASE \A i \in Id : ws[p][i] = NoRow
    <2>1. /\ \A i \in PageIds : ws[p][i] = NoRow
          /\ \A m \in MenuIds : ws[p][m] = NoRow
      BY <1>5, Apart
    <2> QED
      BY <2>1, QuietCommit
  <1> QED
    BY <1>1, <1>2, <1>3, <1>4, <1>5, AtCommit

\* Fork and fanout, interleaved with one another and with publishing, with lost connections at
\* any statement, implement the atomic catalog.
THEOREM Refines ==
    ASSUME TidyCatalogs, VersioningOnly, PairsAreNotNone
    PROVE  Spec => ImplementsCatalog
  <1>1. Init => Atomic!Init
    BY InitSafe, CatalogState DEF Atomic!Init
  <1>2. Safe /\ [Next]_vars => [Atomic!Next]_(Atomic!vars)
    <2> SUFFICES ASSUME Safe, [Next]_vars PROVE Atomic!Next \/ UNCHANGED Atomic!vars
      OBVIOUS
    <2>1. CASE \E p \in Procs : Commit(p)
      BY <2>1, CommitImplements
    <2>2. CASE db' = db
      BY <2>2, StaysPut
    <2> QED
      BY <2>1, <2>2, NextSplit DEF vars
  <1> QED
    BY <1>1, <1>2, SafeAlways, PTL DEF Spec, ImplementsCatalog, Atomic!Spec
-----------------------------------------------------------------------------
(***************************************************************************)
(* What the catalog promises by itself, whatever implements it.            *)
(***************************************************************************)

\* Each menu of a live website is bound to a page that exists and is the website's own or
\* generic: L, S, H and B are the live websites, the website of each menu, the scopes that
\* hold each key, and the binding of each menu.
AllBound(L, S, H, B) ==
    \A m \in MenuIds : (S[m] \in L /\ B[m] # None) =>
        \E k \in Keys, s \in {S[m], Generic} : B[m] = <<k, s>> /\ s \in H[k]

\* Key k is now held by the scopes `to`, the other keys by the scopes they were.
Reassigns(H, k, to, after) ==
    after[k] = to /\ \A kk \in Keys : kk # k => after[kk] = H[kk]

\* The menus of the websites W leave the generic of k for the page of their website.
Rebinds(S, B, k, W, bound) ==
    \A m \in MenuIds :
        bound[m] = IF S[m] \in W /\ B[m] = <<k, Generic>> THEN <<k, S[m]>> ELSE B[m]

\* A fork re-points only the menus of its own website, to the copy it has made.
LEMMA ForkKeepsBindings ==
    ASSUME NEW L, NEW S, NEW H, NEW B, AllBound(L, S, H, B), NEW k \in Keys, NEW w, NEW after,
           NEW bound, Reassigns(H, k, H[k] \cup {w}, after), Rebinds(S, B, k, {w}, bound)
    PROVE  AllBound(L, S, after, bound)
  <1> USE DEF Reassigns, Rebinds
  <1>1. w \in after[k] /\ \A kk \in Keys : H[kk] \subseteq after[kk]
    OBVIOUS
  <1>2. ASSUME NEW m \in MenuIds, S[m] \in L, bound[m] # None
        PROVE  \E kk \in Keys, s \in {S[m], Generic} : bound[m] = <<kk, s>> /\ s \in after[kk]
    <2>1. CASE S[m] \in {w} /\ B[m] = <<k, Generic>>
      <3>1. bound[m] = <<k, w>>
        BY <2>1
      <3> QED
        BY <1>1, <2>1, <3>1
    <2>2. CASE ~(S[m] \in {w} /\ B[m] = <<k, Generic>>)
      <3>1. bound[m] = B[m]
        BY <2>2
      <3>2. PICK kk \in Keys, s \in {S[m], Generic} : B[m] = <<kk, s>> /\ s \in H[kk]
        BY <1>2, <3>1 DEF AllBound
      <3> QED
        BY <1>1, <3>1, <3>2
    <2> QED
      BY <2>1, <2>2
  <1> QED
    BY <1>2 DEF AllBound

\* A fanout leaves the key to every live website before the generic goes.
LEMMA FanoutKeepsBindings ==
    ASSUME NEW L, NEW S, NEW H, NEW B, AllBound(L, S, H, B), NEW k \in Keys, NEW after,
           NEW bound, Reassigns(H, k, (H[k] \ {Generic}) \cup L, after),
           Rebinds(S, B, k, after[k], bound)
    PROVE  AllBound(L, S, after, bound)
  <1> USE DEF Reassigns, Rebinds
  <1>1. ASSUME NEW m \in MenuIds, S[m] \in L, bound[m] # None
        PROVE  \E kk \in Keys, s \in {S[m], Generic} : bound[m] = <<kk, s>> /\ s \in after[kk]
    <2>1. CASE B[m] = <<k, Generic>>
      <3>1. bound[m] = <<k, S[m]>> /\ S[m] \in after[k]
        BY <1>1, <2>1
      <3> QED
        BY <3>1
    <2>2. CASE B[m] # <<k, Generic>>
      <3>1. bound[m] = B[m]
        BY <2>2
      <3>2. PICK kk \in Keys, s \in {S[m], Generic} : B[m] = <<kk, s>> /\ s \in H[kk]
        BY <1>1, <3>1 DEF AllBound
      <3>3. s \in after[kk]
        BY <1>1, <2>2, <3>2
      <3> QED
        BY <3>1, <3>2, <3>3
    <2> QED
      BY <2>1, <2>2
  <1> QED
    BY <1>1 DEF AllBound

\* Whatever implements the catalog keeps every menu of a live website bound to a page that
\* exists and is the website's own or generic.
THEOREM CatalogBindings == ImplementsCatalog => []Atomic!BindingsHeld
  <1> DEFINE L == LiveSites(db)
             S == [m \in MenuIds |-> IF db[m] = NoRow THEN None ELSE db[m].site]
             H == [k \in Keys |-> HoldersOf(k)]
             B == [m \in MenuIds |-> BindingOf(m)]
             Inv == L \in SUBSET Sites /\ H \in [Keys -> SUBSET Scopes] /\ AllBound(L, S, H, B)
  <1>1. Atomic!Generic = Generic /\ Atomic!Scopes = Scopes
    BY DEF Atomic!Generic, Atomic!Scopes, Generic, Scopes
  <1>2. Atomic!BindingsHeld <=> AllBound(L, S, H, B)
    BY <1>1 DEF Atomic!BindingsHeld, AllBound
  <1>3. Atomic!Init => Inv
    BY <1>1, <1>2 DEF Atomic!Init, Atomic!TypeOK
  <1>4. Inv /\ [Atomic!Next]_(Atomic!vars) => Inv'
    <2> SUFFICES ASSUME Inv, [Atomic!Next]_(Atomic!vars) PROVE Inv'
      OBVIOUS
    <2>1. ASSUME NEW k \in Keys, NEW w \in Sites, Atomic!Fork(k, w)
          PROVE  Inv'
      <3>1. /\ H' = [H EXCEPT ![k] = @ \cup {w}] /\ L' = L /\ S' = S
            /\ B' = [m \in MenuIds |-> IF S[m] \in {w} /\ B[m] = <<k, Generic>>
                                         THEN <<k, S[m]>> ELSE B[m]]
        BY <1>1, <2>1 DEF Atomic!Fork, Atomic!Rebound
      <3> HIDE DEF L, S, H, B
      <3>2. PICK l, s, h, b, after, bound :
              l = L /\ s = S /\ h = H /\ b = B /\ after = H' /\ bound = B'
        OBVIOUS
      <3>3. l \in SUBSET Sites /\ h \in [Keys -> SUBSET Scopes] /\ AllBound(l, s, h, b)
        BY <3>2
      <3>4. after \in [Keys -> SUBSET Scopes] /\ Reassigns(h, k, h[k] \cup {w}, after)
        BY <3>1, <3>2, <3>3 DEF Scopes, Reassigns
      <3>5. Rebinds(s, b, k, {w}, bound)
        BY <3>1, <3>2 DEF Rebinds
      <3>6. AllBound(l, s, after, bound)
        BY <3>3, <3>4, <3>5, ForkKeepsBindings
      <3>7. L' = l /\ S' = s /\ H' = after /\ B' = bound
        BY <3>1, <3>2
      <3> QED
        BY <3>3, <3>4, <3>6, <3>7
    <2>2. ASSUME NEW k \in Keys, Atomic!Fanout(k)
          PROVE  Inv'
      <3>1. /\ H' = [H EXCEPT ![k] = (@ \ {Generic}) \cup L] /\ L' = L /\ S' = S
            /\ B' = [m \in MenuIds |-> IF S[m] \in (H')[k] /\ B[m] = <<k, Generic>>
                                         THEN <<k, S[m]>> ELSE B[m]]
        BY <1>1, <2>2 DEF Atomic!Fanout, Atomic!Rebound
      <3> HIDE DEF L, S, H, B
      <3>2. PICK l, s, h, b, after, bound :
              l = L /\ s = S /\ h = H /\ b = B /\ after = H' /\ bound = B'
        OBVIOUS
      <3>3. l \in SUBSET Sites /\ h \in [Keys -> SUBSET Scopes] /\ AllBound(l, s, h, b)
        BY <3>2
      <3>4. after \in [Keys -> SUBSET Scopes] /\ Reassigns(h, k, (h[k] \ {Generic}) \cup l, after)
        BY <3>1, <3>2, <3>3 DEF Scopes, Reassigns
      <3>5. Rebinds(s, b, k, after[k], bound)
        BY <3>1, <3>2 DEF Rebinds
      <3>6. AllBound(l, s, after, bound)
        BY <3>3, <3>4, <3>5, FanoutKeepsBindings
      <3>7. L' = l /\ S' = s /\ H' = after /\ B' = bound
        BY <3>1, <3>2
      <3> QED
        BY <3>3, <3>4, <3>6, <3>7
    <2>3. CASE UNCHANGED Atomic!vars
      <3>1. H' = H /\ L' = L /\ S' = S /\ B' = B
        BY <2>3 DEF Atomic!vars
      <3> HIDE DEF L, S, H, B
      <3> QED
        BY <3>1 DEF AllBound
    <2> QED
      BY <2>1, <2>2, <2>3 DEF Atomic!Next
  <1> HIDE DEF Inv
  <1>5. Inv => Atomic!BindingsHeld
    BY <1>2 DEF Inv
  <1> QED
    BY <1>3, <1>4, <1>5, PTL DEF ImplementsCatalog, Atomic!Spec
=============================================================================
