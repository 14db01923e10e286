----------------------------- MODULE MenusProofs -----------------------------
(***************************************************************************)
(* Menus, for any number of requests, websites, menus and patches: the     *)
(* handlers keep to what they loaded, a patch writes the columns it names  *)
(* and no other, and the copies of a fan-out land together, each on its    *)
(* own website.                                                            *)
(***************************************************************************)
EXTENDS Menus, TLAPS, FiniteSetTheorems, WellFoundedInduction

\* The write set of one statement: versions of the right table, never NoRow.
WriteSet(w) ==
    /\ DOMAIN w \subseteq Id
    /\ \A i \in DOMAIN w :
         /\ w[i] # NoRow
         /\ i \in PageIds => w[i] \in PageRow
         /\ i \in MenuIds => w[i] \in MenuRow
         /\ i \in Sites => w[i] \in SiteRow
         /\ i \in RedirectIds => w[i] \in RedirectRow

\* What the transaction of p may do in one step.
StoreStep(p) ==
    \/ UNCHANGED storeVars
    \/ \E w : WriteSet(w) /\ Write(p, w)
    \/ CommitTx(p)
    \/ RollbackTx(p)

\* The tables of these verbs have no unique index that a menu could violate.
StoreInv == StoreTypeOK /\ LocksExclusive

\* Every row of a table state is a row of its own table.
LEMMA RowOfTable ==
    ASSUME NEW t, TableState(t), NEW i \in Id, t[i] # NoRow
    PROVE  /\ t[i] \in Row
           /\ i \in PageIds => t[i] \in PageRow
           /\ i \in MenuIds => t[i] \in MenuRow
           /\ i \in Sites => t[i] \in SiteRow
           /\ i \in RedirectIds => t[i] \in RedirectRow
  BY DEF TableState

\* A transaction that wrote nothing has a typed write set.
LEMMA EmptyTable == TableState(NoWrites)
  BY DEF TableState, NoWrites, Id

\* What a statement reads is typed.
LEMMA ViewTyped ==
    ASSUME StoreTypeOK, NEW p \in Procs
    PROVE  TableState(View(p))
  <1>1. TableState(db) /\ TableState(ws[p])
    BY DEF StoreTypeOK
  <1>2. View(p) \in [Id -> Row \cup {NoRow}]
    BY <1>1 DEF View, TableState
  <1>3. \A i \in Id : View(p)[i] = IF ws[p][i] # NoRow THEN ws[p][i] ELSE db[i]
    BY DEF View
  <1> QED
    BY <1>1, <1>2, <1>3 DEF TableState, Id

\* Writing a typed set over a typed state gives a typed state.
LEMMA OverlayTyped ==
    ASSUME NEW t, TableState(t), NEW w, WriteSet(w)
    PROVE  TableState(Overlay(t, w))
  <1>1. \A i \in Id : Overlay(t, w)[i] = IF i \in DOMAIN w THEN w[i] ELSE t[i]
    BY DEF Overlay
  <1>2. \A i \in DOMAIN w : w[i] \in Row
    BY DEF WriteSet, Row, Id
  <1>3. Overlay(t, w) \in [Id -> Row \cup {NoRow}]
    BY <1>2 DEF Overlay, TableState
  <1> QED
    BY <1>1, <1>3 DEF TableState, WriteSet, Id

\* Transactions that end or write what no other has locked keep the locks exclusive.
LEMMA StoreStepSafe ==
    ASSUME StoreInv, NEW p \in Procs, StoreStep(p)
    PROVE  StoreInv'
  <1> USE DEF StoreInv
  <1>1. CASE UNCHANGED storeVars
    BY <1>1 DEF storeVars, StoreTypeOK, TableState, LocksExclusive
  <1>2. CASE \E w : WriteSet(w) /\ Write(p, w)
    <2>1. PICK w : WriteSet(w) /\ Write(p, w)
      BY <1>2
    <2>2. db' = db /\ ws' = [ws EXCEPT ![p] = Overlay(ws[p], w)] /\ ~Waits(p, w)
      BY <2>1 DEF Write
    <2>3. TableState(Overlay(ws[p], w))
      BY <2>1, OverlayTyped DEF StoreTypeOK
    <2>4. /\ ws' \in [Procs -> [Id -> Row \cup {NoRow}]] /\ ws'[p] = Overlay(ws[p], w)
          /\ \A q \in Procs \ {p} : ws'[q] = ws[q]
      BY <2>2, <2>3 DEF StoreTypeOK, TableState
    <2>5. TableState(db') /\ \A q \in Procs : TableState(ws'[q])
      BY <2>2, <2>3, <2>4 DEF StoreTypeOK
    <2>6. \A i \in Id : ws'[p][i] = IF i \in DOMAIN w THEN w[i] ELSE ws[p][i]
      BY <2>4 DEF Overlay
    <2>7. \A i \in DOMAIN w, q \in Procs \ {p} : ws[q][i] = NoRow
      BY <2>2 DEF Waits
    <2>8. LocksExclusive'
      BY <2>4, <2>6, <2>7 DEF LocksExclusive
    <2> QED
      BY <2>4, <2>5, <2>8 DEF StoreTypeOK, TableState
  <1>3. CASE CommitTx(p) \/ RollbackTx(p)
    <2>1. ws' = [ws EXCEPT ![p] = NoWrites] /\ db' \in {db, View(p)}
      BY <1>3 DEF CommitTx, RollbackTx
    <2>2. /\ ws' \in [Procs -> [Id -> Row \cup {NoRow}]] /\ ws'[p] = NoWrites
          /\ \A q \in Procs \ {p} : ws'[q] = ws[q]
      BY <2>1, EmptyTable DEF StoreTypeOK, TableState
    <2>3. TableState(db') /\ \A q \in Procs : TableState(ws'[q])
      BY <2>1, <2>2, EmptyTable, ViewTyped DEF StoreTypeOK
    <2>4. \A i \in Id : ws'[p][i] = NoRow
      BY <2>2 DEF NoWrites
    <2>5. LocksExclusive'
      BY <2>2, <2>4 DEF LocksExclusive
    <2> QED
      BY <2>2, <2>3, <2>5 DEF StoreTypeOK, TableState
  <1> QED
    BY <1>1, <1>2, <1>3 DEF StoreStep
-----------------------------------------------------------------------------

CreateLabels == {"create.depth", "create.insert"}
PatchLabels == {"patch.load", "patch.depth", "patch.mega", "patch.update"}
DeleteLabels == {"delete.load", "delete.tombstone"}
LoopLabels == {"fanout.root", "fanout.page", "fanout.insert"}
FanoutLabels == {"fanout.load", "fanout.key", "fanout.targets"} \cup LoopLabels

\* Labels before the first write.
QuietLabels == (Labels \ {"commit"}) \ LoopLabels

\* No officer moves a node: the host offers patches that detach at most.
NoMoves == \A c \in Patches : c.parent \in {Keep, None}

\* What the frame of a handler holds, in a table state t.
Held(f, t) ==
    /\ f.menu # None => t[f.menu] # NoRow
    /\ f.pc \in PatchLabels \cup DeleteLabels \cup FanoutLabels => f.menu \in MenuIds
    /\ f.pc \in CreateLabels \cup LoadedLabels => f.row \in MenuRow
    /\ f.pc \in PatchLabels => f.patch \in Patches
    /\ f.pc = "patch.depth" => f.root \in MenuIds
    /\ f.pc = "fanout.load" => f.key = None
    /\ f.pc = "fanout.key" => f.row.page \in PageIds

\* r was a root of w, and still is unless it was moved.
Rooted(t, r, w) ==
    /\ r \in MenuIds /\ t[r] # NoRow /\ t[r].site = w
    /\ NoMoves => t[r].parent = None

\* Page i serves w under the key of page `source`.
Serves(t, i, w, source) ==
    /\ i \in PageIds /\ source \in PageIds /\ t[i] # NoRow /\ t[source] # NoRow
    /\ t[i].scope \in {w, Generic} /\ t[i].key = t[source].key

\* The websites that a menu of `source` is copied to.
Others(t, source) == LiveSites(t) \ {source.site}

\* What the fan-out found for its next website.
Aimed(f, t) ==
    /\ f.pc \in {"fanout.targets"} \cup LoopLabels /\ f.key # None =>
         f.row.page \in PageIds /\ t[f.row.page] # NoRow /\ t[f.row.page].key = f.key
    /\ f.pc \in LoopLabels => f.targets # {} /\ f.targets \subseteq Others(t, f.row)
    /\ f.pc = "fanout.page" => f.key # None
    /\ f.pc \in {"fanout.page", "fanout.insert"} /\ f.root # None => Rooted(t, f.root, Target(f))
    /\ f.pc = "fanout.insert" /\ f.page # None => Serves(t, f.page, Target(f), f.row.page)

\* The patch is the only version written, over the row as committed.
PatchedBy(f, own, t) ==
    LET m == f.menu
    IN  /\ m \in MenuIds /\ own[m] # NoRow /\ \A i \in Id \ {m} : own[i] = NoRow
        /\ own[m].live = t[m].live
        /\ f.patch.parent = Keep => own[m].parent = t[m].parent
        /\ f.patch.mega = Keep => own[m].mega = t[m].mega
        /\ f.patch.tier = Keep => own[m].tier = t[m].tier

\* One copy, well placed, on every website that the loop is done with.
CopiedBy(f, own, t) ==
    LET done == Others(t, f.row) \ f.targets
    IN  /\ \A m \in MenuIds : own[m] # NoRow =>
             /\ t[m] = NoRow /\ own[m].site \in done
             /\ own[m].parent # None => Rooted(t, own[m].parent, own[m].site)
             /\ own[m].page # None => Serves(t, own[m].page, own[m].site, f.row.page)
        /\ \A w \in done : \E m \in MenuIds : \A x \in MenuIds :
             own[x] # NoRow /\ own[x].site = w <=> x = m

\* The versions a transaction has written are menus, and none changes its website.
Written(f, own, t) ==
    /\ \A i \in Id : own[i] # NoRow => i \in MenuIds
    /\ \A m \in MenuIds : own[m] # NoRow /\ t[m] # NoRow =>
         /\ own[m].site = t[m].site
         /\ NoMoves /\ t[m].parent = None => own[m].parent = None
    /\ f.pc \in QuietLabels => \A i \in Id : own[i] = NoRow
    /\ f.pc = "commit" /\ f.answer = "MenuPatched" => PatchedBy(f, own, t)
    /\ f.pc \in LoopLabels => CopiedBy(f, own, t)
    /\ f.pc = "commit" /\ f.answer = "MenusFannedOut" => CopiedBy(f, own, t) /\ f.targets = {}

Fits(f, own, t) == Held(f, t) /\ Aimed(f, t) /\ Written(f, own, t)

\* The inductive invariant.
Safe ==
    /\ StoreInv /\ tx \in [Procs -> Frame] /\ calls \in 0 .. MaxCalls
    /\ \A p \in Procs : Fits(tx[p], ws[p], db)
-----------------------------------------------------------------------------
\* A menu is its own primary key, and no identifier is NULL.
LEMMA MenuIdsApart ==
    /\ \A m \in MenuIds : m \in Id /\ m # None /\ m \notin PageIds /\ m \notin Sites
    /\ \A i \in PageIds : i \in Id /\ i # None
    /\ \A w \in Sites : w \in Id
    /\ \A k \in Keys : k # None
  BY IdsAssumption, NoneAssumption DEF Id

\* The websites come in an order that has a first one.
LEMMA LeastSite ==
    ASSUME NEW T \in SUBSET Sites, T # {}
    PROVE  \E w \in T : \A x \in T : w <= x
  <1> DEFINE R == OpToRel(<, Nat)
  <1>1. IsWellFoundedOn(R, Nat)
    BY NatLessThanWellFounded
  <1>2. \A x, y \in Nat : <<x, y>> \in R <=> x < y
    BY DEF OpToRel
  <1> HIDE DEF R
  <1>3. T \subseteq Nat
    BY SitesAssumption
  <1>4. PICK w \in T : \A y \in T : ~(<<y, w>> \in R)
    BY <1>1, <1>3, WFMin
  <1>5. ASSUME NEW y \in T
        PROVE  w <= y
    <2>1. w \in Nat /\ y \in Nat
      BY <1>3
    <2>2. ~(y < w)
      BY <1>2, <1>4, <2>1
    <2> QED
      BY <2>1, <2>2
  <1> QED
    BY <1>4, <1>5

\* The loop takes one of its websites.
LEMMA TargetIsOne ==
    ASSUME NEW f, f.targets \in SUBSET Sites, f.targets # {}
    PROVE  Target(f) \in f.targets
  BY LeastSite DEF Target

\* The fields of a frame.
LEMMA FrameFields ==
    ASSUME NEW f \in Frame
    PROVE  /\ f.pc \in Labels /\ f.menu \in MenuIds \cup {None} /\ f.row \in MenuRow \cup {NoRow}
           /\ f.patch \in Patch \cup {None} /\ f.key \in Keys \cup {None}
           /\ f.targets \in SUBSET Sites /\ f.root \in MenuIds \cup {None}
           /\ f.page \in PageIds \cup {None} /\ f.answer \in Answers
  BY DEF Frame

\* An answer leaves an idle frame that fits a transaction that wrote nothing.
LEMMA IdleFits ==
    ASSUME NEW a \in Answers, NEW t
    PROVE  Idle(a) \in Frame /\ Fits(Idle(a), NoWrites, t)
  <1>1. /\ Idle(a).pc = "idle" /\ Idle(a).menu = None /\ Idle(a).key = None
        /\ Idle(a) \in Frame
    BY DEF Idle, Frame, Labels
  <1>2. \A i \in Id : NoWrites[i] = NoRow
    BY DEF NoWrites
  <1>3. \A m \in MenuIds : NoWrites[m] = NoRow
    BY <1>2, MenuIdsApart
  <1> HIDE DEF Idle
  <1>4. Held(Idle(a), t) /\ Aimed(Idle(a), t) /\ Written(Idle(a), NoWrites, t)
    BY <1>1, <1>2, <1>3 DEF Held, Aimed, Written, PatchLabels, DeleteLabels, FanoutLabels, CreateLabels,
           LoadedLabels, LoopLabels
  <1> QED
    BY <1>1, <1>4 DEF Fits

\* What a commit of another request may do to the rows that a frame holds.
LEMMA FitsLater ==
    ASSUME NEW f, NEW own, NEW t, NEW u, Fits(f, own, t),
           \A i \in Id : t[i] # NoRow => u[i] # NoRow,
           \A i \in Id \ MenuIds : u[i] = t[i],
           \A m \in MenuIds : own[m] # NoRow => u[m] = t[m],
           \A m \in MenuIds : t[m] # NoRow =>
             u[m].site = t[m].site /\ (NoMoves /\ t[m].parent = None => u[m].parent = None),
           f \in Frame
    PROVE  Fits(f, own, u)
  <1>1. LiveSites(u) = LiveSites(t)
    BY MenuIdsApart DEF LiveSites
  <1>2. \A s : Others(u, s) = Others(t, s)
    BY <1>1 DEF Others
  <1>3. \A r, w : Rooted(t, r, w) => Rooted(u, r, w)
    BY MenuIdsApart DEF Rooted
  <1>4. \A i, w, s : Serves(t, i, w, s) => Serves(u, i, w, s)
    BY MenuIdsApart DEF Serves
  <1>5. Held(f, u)
    BY FrameFields, MenuIdsApart DEF Fits, Held
  <1>6. Aimed(f, u)
    BY <1>2, <1>3, <1>4, MenuIdsApart DEF Fits, Aimed
  <1>7. PatchedBy(f, own, t) => PatchedBy(f, own, u)
    BY DEF PatchedBy
  <1>8. CopiedBy(f, own, t) => CopiedBy(f, own, u)
    BY <1>2, <1>3, <1>4 DEF CopiedBy
  <1>9. Written(f, own, u)
    <2>1. Written(f, own, t)
      BY DEF Fits
    <2>2. \A m \in MenuIds : own[m] # NoRow /\ u[m] # NoRow => t[m] # NoRow /\ u[m] = t[m]
      OBVIOUS
    <2> QED
      BY <1>7, <1>8, <2>1, <2>2 DEF Written
  <1> QED
    BY <1>5, <1>6, <1>9 DEF Fits
-----------------------------------------------------------------------------
\* A step of p that leaves the others' versions and the committed rows alone.
LEMMA OwnStep ==
    ASSUME Safe, NEW p \in Procs, NEW g \in Frame, tx' = [tx EXCEPT ![p] = g],
           StoreStep(p), db' = db, \A q \in Procs \ {p} : ws'[q] = ws[q],
           Fits(g, ws'[p], db), calls' \in 0 .. MaxCalls
    PROVE  Safe'
  <1>1. StoreInv'
    BY StoreStepSafe DEF Safe
  <1>2. tx' \in [Procs -> Frame] /\ tx'[p] = g /\ \A q \in Procs \ {p} : tx'[q] = tx[q]
    BY DEF Safe
  <1>3. \A q \in Procs : Fits(tx'[q], ws'[q], db')
    BY <1>2 DEF Safe
  <1> QED
    BY <1>1, <1>2, <1>3 DEF Safe

\* A statement that only reads.
LEMMA ReadStep ==
    ASSUME Safe, NEW p \in Procs, NEW g \in Frame, tx' = [tx EXCEPT ![p] = g],
           UNCHANGED storeVars, Fits(g, ws[p], db), calls' \in 0 .. MaxCalls
    PROVE  Safe'
  <1>1. db' = db /\ ws' = ws /\ StoreStep(p)
    BY DEF storeVars, StoreStep
  <1> QED
    BY <1>1, OwnStep

\* A verb that gives up.
LEMMA FailStep ==
    ASSUME Safe, NEW p \in Procs, NEW a \in Answers, Fail(p, a), UNCHANGED calls
    PROVE  Safe'
  <1>1. /\ RollbackTx(p) /\ tx' = [tx EXCEPT ![p] = Idle(a)] /\ calls' \in 0 .. MaxCalls
    BY DEF Fail, Safe
  <1>2. db' = db /\ ws'[p] = NoWrites /\ \A q \in Procs \ {p} : ws'[q] = ws[q]
    BY <1>1 DEF RollbackTx, Safe, StoreInv, StoreTypeOK
  <1>3. Idle(a) \in Frame /\ Fits(Idle(a), ws'[p], db) /\ StoreStep(p)
    BY <1>1, <1>2, IdleFits DEF StoreStep
  <1> QED
    BY <1>1, <1>2, <1>3, OwnStep

\* A statement that writes one menu.
LEMMA WriteStep ==
    ASSUME Safe, NEW p \in Procs, NEW m \in MenuIds, NEW r \in MenuRow,
           Write(p, Version(m, r)), NEW g \in Frame, tx' = [tx EXCEPT ![p] = g],
           Fits(g, Overlay(ws[p], Version(m, r)), db), calls' \in 0 .. MaxCalls
    PROVE  Safe'
  <1>1. /\ db' = db /\ ws' = [ws EXCEPT ![p] = Overlay(ws[p], Version(m, r))]
    BY DEF Write
  <1>2. ws'[p] = Overlay(ws[p], Version(m, r)) /\ \A q \in Procs \ {p} : ws'[q] = ws[q]
    BY <1>1 DEF Safe, StoreInv, StoreTypeOK
  <1>3. WriteSet(Version(m, r))
    BY MenuIdsApart, NoRowAssumption, IdsAssumption DEF WriteSet, Version, Row
  <1>4. StoreStep(p)
    BY <1>3 DEF StoreStep
  <1> QED
    BY <1>1, <1>2, <1>4, OwnStep

\* The versions after one more menu was written.
LEMMA OneMore ==
    ASSUME NEW own, NEW m \in MenuIds, NEW r, NEW i \in Id
    PROVE  Overlay(own, Version(m, r))[i] = IF i = m THEN r ELSE own[i]
  BY DEF Overlay, Version

\* A commit publishes the menus of its transaction.
LEMMA CommitStep ==
    ASSUME Safe, NEW p \in Procs, Commit(p)
    PROVE  Safe'
  <1>1. /\ CommitTx(p) /\ tx' = [tx EXCEPT ![p] = Idle(tx[p].answer)] /\ calls' = calls
        /\ tx[p].answer \in Answers
    BY FrameFields DEF Commit, At, Safe
  <1>2. /\ db' = View(p) /\ ws'[p] = NoWrites /\ \A q \in Procs \ {p} : ws'[q] = ws[q]
    BY <1>1 DEF CommitTx, Safe, StoreInv, StoreTypeOK
  <1>3. StoreInv'
    BY <1>1, StoreStepSafe DEF Safe, StoreStep
  <1>4. /\ tx' \in [Procs -> Frame] /\ tx'[p] = Idle(tx[p].answer)
        /\ \A q \in Procs \ {p} : tx'[q] = tx[q]
    BY <1>1, IdleFits DEF Safe
  <1>5. \A i \in Id : View(p)[i] = IF ws[p][i] # NoRow THEN ws[p][i] ELSE db[i]
    BY DEF View
  <1>6. Written(tx[p], ws[p], db)
    BY DEF Safe, Fits
  <1>7. ASSUME NEW q \in Procs \ {p}
        PROVE  Fits(tx'[q], ws'[q], db')
    <2>1. tx[q] \in Frame /\ Fits(tx[q], ws[q], db)
      BY DEF Safe
    <2>2. \A i \in Id : db[i] # NoRow => View(p)[i] # NoRow
      BY <1>5
    <2>3. \A i \in Id \ MenuIds : View(p)[i] = db[i]
      BY <1>5, <1>6 DEF Written
    <2>4. \A m \in MenuIds : ws[q][m] # NoRow => View(p)[m] = db[m]
      BY <1>5, MenuIdsApart DEF Safe, StoreInv, LocksExclusive
    <2>5. \A m \in MenuIds : db[m] # NoRow =>
             View(p)[m].site = db[m].site
             /\ (NoMoves /\ db[m].parent = None => View(p)[m].parent = None)
      BY <1>5, <1>6, MenuIdsApart DEF Written
    <2>6. Fits(tx[q], ws[q], View(p))
      BY <2>1, <2>2, <2>3, <2>4, <2>5, FitsLater
    <2> QED
      BY <1>2, <1>4, <2>6
  <1>8. Fits(tx'[p], ws'[p], db')
    BY <1>1, <1>2, <1>4, IdleFits
  <1> QED
    BY <1>1, <1>3, <1>4, <1>7, <1>8 DEF Safe
-----------------------------------------------------------------------------
\* What p holds when it is at a label.
LEMMA AtLabel ==
    ASSUME Safe, NEW p \in Procs
    PROVE  /\ tx[p] \in Frame /\ Held(tx[p], db) /\ Aimed(tx[p], db)
           /\ Written(tx[p], ws[p], db) /\ TableState(db) /\ TableState(View(p))
           /\ \A i \in Id : View(p)[i] = IF ws[p][i] # NoRow THEN ws[p][i] ELSE db[i]
  BY ViewTyped DEF Safe, Fits, StoreInv, StoreTypeOK, View

\* Before the first write p sees the committed rows.
LEMMA QuietView ==
    ASSUME Safe, NEW p \in Procs, tx[p].pc \in QuietLabels
    PROVE  (\A i \in Id : ws[p][i] = NoRow) /\ View(p) = db
  <1>1. \A i \in Id : ws[p][i] = NoRow
    BY AtLabel DEF Written
  <1>2. db = [i \in Id |-> db[i]]
    BY AtLabel DEF TableState
  <1>3. View(p) = [i \in Id |-> db[i]]
    BY <1>1 DEF View
  <1> QED
    BY <1>1, <1>2, <1>3

\* A new primary key names no row that anybody sees.
LEMMA NewIdFresh ==
    ASSUME Unused # {}
    PROVE  NewId \in MenuIds /\ db[NewId] = NoRow /\ \A q \in Procs : ws[q][NewId] = NoRow
  BY DEF NewId, Unused

\* The fields of a frame that moved on.
LEMMA MovedFields ==
    ASSUME NEW f \in Frame, NEW label \in Labels
    PROVE  LET g == [f EXCEPT !.pc = label]
           IN  /\ g \in Frame /\ g.pc = label /\ g.menu = f.menu /\ g.row = f.row
               /\ g.patch = f.patch /\ g.key = f.key /\ g.targets = f.targets
               /\ g.root = f.root /\ g.page = f.page /\ g.answer = f.answer
  BY DEF Frame

\* The fields of a frame that is done.
LEMMA FinishedFields ==
    ASSUME NEW f \in Frame, NEW a \in Answers
    PROVE  LET g == [f EXCEPT !.pc = "commit", !.answer = a]
           IN  /\ g \in Frame /\ g.pc = "commit" /\ g.menu = f.menu /\ g.row = f.row
               /\ g.patch = f.patch /\ g.key = f.key /\ g.targets = f.targets
               /\ g.root = f.root /\ g.page = f.page /\ g.answer = a
  BY DEF Frame, Labels

\* A start: calls that begin hold rows of the table.
LEMMA StartSafe ==
    ASSUME Safe, NEW p \in Procs, Start(p)
    PROVE  Safe'
  <1>1. tx[p].pc = "idle" /\ UNCHANGED storeVars /\ calls' \in 0 .. MaxCalls
    <2>1. /\ tx[p].pc = "idle" /\ UNCHANGED storeVars /\ calls' = calls - 1 /\ calls > 0
      BY DEF Start, BeginCreate, BeginPatch, BeginDelete, BeginFanout, Begin
    <2> QED
      BY <2>1, InputsAssumption DEF Safe
  <1>2. \A i \in Id : ws[p][i] = NoRow
    BY <1>1, QuietView DEF QuietLabels, Labels, LoopLabels
  <1>3. \A m \in MenuIds : ws[p][m] = NoRow
    BY <1>2, MenuIdsApart
  <1>4. /\ Idle("none") \in Frame /\ Idle("none").menu = None /\ Idle("none").key = None
        /\ "none" \in Answers
    BY IdleFits DEF Idle, Answers
  <1>5. CASE BeginCreate(p)
    <2>1. PICK w \in {x \in Sites : db[x] # NoRow}, d \in Drafts,
               parent \in {m \in MenuIds : db[m] # NoRow} \cup {None} :
        Begin(p, "create", IF parent = None THEN "create.insert" ELSE "create.depth",
              [Idle("none") EXCEPT !.row =
                 [site |-> w, page |-> None, url |-> None, parent |-> parent,
                  mega |-> d[2], tier |-> d[1], live |-> TRUE]])
      BY <1>5 DEF BeginCreate
    <2> DEFINE row == [site |-> w, page |-> None, url |-> None, parent |-> parent,
                       mega |-> d[2], tier |-> d[1], live |-> TRUE]
               label == IF parent = None THEN "create.insert" ELSE "create.depth"
               g == [[Idle("none") EXCEPT !.row = row] EXCEPT !.pc = label]
    <2>2. d \in Tiers \X BOOLEAN /\ w \in Sites
      BY InputsAssumption
    <2>3. row \in MenuRow
      BY <2>2 DEF MenuRow
    <2>4. label \in CreateLabels /\ label \in Labels /\ label \notin {"commit"}
      BY DEF CreateLabels, Labels
    <2>5. tx' = [tx EXCEPT ![p] = g]
      BY <2>1 DEF Begin, Goto
    <2> HIDE DEF row, label
    <2>6. g \in Frame /\ g.pc = label /\ g.row = row /\ g.menu = None /\ g.key = None
      BY <1>4, <2>3, <2>4 DEF Idle, Frame
    <2> HIDE DEF g
    <2>7. Fits(g, ws[p], db)
      BY <1>2, <1>3, <2>3, <2>4, <2>6
         DEF Fits, Held, Aimed, Written, CreateLabels, PatchLabels, DeleteLabels, FanoutLabels,
             LoopLabels, LoadedLabels
    <2> QED
      BY <1>1, <2>5, <2>6, <2>7, ReadStep
  <1>6. CASE BeginPatch(p)
    <2>1. PICK m \in {x \in MenuIds : db[x] # NoRow}, c \in Patches, a \in Actors :
        Begin(p, "patch", "patch.load",
              [Idle("none") EXCEPT !.menu = m, !.patch = c, !.actor = a])
      BY <1>6 DEF BeginPatch
    <2> DEFINE g == [[Idle("none") EXCEPT !.menu = m, !.patch = c, !.actor = a]
                       EXCEPT !.pc = "patch.load"]
    <2>2. tx' = [tx EXCEPT ![p] = g]
      BY <2>1 DEF Begin, Goto
    <2>3. c \in Patch /\ a \in {"officer", "system"}
      BY InputsAssumption
    <2>4. g \in Frame /\ g.pc = "patch.load" /\ g.menu = m /\ g.patch = c
      BY <1>4, <2>3 DEF Idle, Frame, Labels
    <2> HIDE DEF g
    <2>5. Fits(g, ws[p], db)
      BY <1>2, <1>3, <2>4
         DEF Fits, Held, Aimed, Written, CreateLabels, PatchLabels, DeleteLabels, FanoutLabels,
             LoopLabels, LoadedLabels
    <2> QED
      BY <1>1, <2>2, <2>4, <2>5, ReadStep
  <1>7. CASE BeginDelete(p)
    <2>1. PICK m \in {x \in MenuIds : db[x] # NoRow}, a \in Actors :
        Begin(p, "delete", "delete.load", [Idle("none") EXCEPT !.menu = m, !.actor = a])
      BY <1>7 DEF BeginDelete
    <2> DEFINE g == [[Idle("none") EXCEPT !.menu = m, !.actor = a] EXCEPT !.pc = "delete.load"]
    <2>2. tx' = [tx EXCEPT ![p] = g]
      BY <2>1 DEF Begin, Goto
    <2>3. a \in {"officer", "system"}
      BY InputsAssumption
    <2>4. g \in Frame /\ g.pc = "delete.load" /\ g.menu = m
      BY <1>4, <2>3 DEF Idle, Frame, Labels
    <2> HIDE DEF g
    <2>5. Fits(g, ws[p], db)
      BY <1>2, <1>3, <2>4
         DEF Fits, Held, Aimed, Written, CreateLabels, PatchLabels, DeleteLabels, FanoutLabels,
             LoopLabels, LoadedLabels
    <2> QED
      BY <1>1, <2>2, <2>4, <2>5, ReadStep
  <1>8. CASE BeginFanout(p)
    <2>1. PICK m \in {x \in MenuIds : db[x] # NoRow} :
        Begin(p, "fanout", "fanout.load", [Idle("none") EXCEPT !.menu = m])
      BY <1>8 DEF BeginFanout
    <2> DEFINE g == [[Idle("none") EXCEPT !.menu = m] EXCEPT !.pc = "fanout.load"]
    <2>2. tx' = [tx EXCEPT ![p] = g]
      BY <2>1 DEF Begin, Goto
    <2>4. g \in Frame /\ g.pc = "fanout.load" /\ g.menu = m /\ g.key = None
      BY <1>4 DEF Idle, Frame, Labels
    <2> HIDE DEF g
    <2>5. Fits(g, ws[p], db)
      BY <1>2, <1>3, <2>4
         DEF Fits, Held, Aimed, Written, CreateLabels, PatchLabels, DeleteLabels, FanoutLabels,
             LoopLabels, LoadedLabels
    <2> QED
      BY <1>1, <2>2, <2>4, <2>5, ReadStep
  <1> QED
    BY <1>5, <1>6, <1>7, <1>8 DEF Start
-----------------------------------------------------------------------------
\* A handler reads, and has written nothing yet.
LEMMA QuietStep ==
    ASSUME Safe, NEW p \in Procs, tx[p].pc \in QuietLabels, NEW g \in Frame,
           tx' = [tx EXCEPT ![p] = g], g.pc \in QuietLabels, Held(g, db), Aimed(g, db),
           UNCHANGED <<db, ws, calls>>
    PROVE  Safe'
  <1>1. \A i \in Id : ws[p][i] = NoRow
    BY QuietView
  <1>2. Written(g, ws[p], db)
    BY <1>1, MenuIdsApart DEF Written, QuietLabels
  <1>3. calls' \in 0 .. MaxCalls /\ UNCHANGED storeVars
    BY DEF Safe, storeVars
  <1> QED
    BY <1>2, <1>3, ReadStep DEF Fits

\* The one write of create, patch and delete ends the verb.
LEMMA OnlyWrite ==
    ASSUME Safe, NEW p \in Procs, tx[p].pc \in QuietLabels, NEW m \in MenuIds, NEW r \in MenuRow,
           Write(p, Version(m, r)), UNCHANGED calls, NEW a \in Answers, Finish(p, tx[p], a),
           db[m] # NoRow => r.site = db[m].site /\ (NoMoves /\ db[m].parent = None => r.parent = None),
           a # "MenusFannedOut",
           a = "MenuPatched" => PatchedBy(tx[p], Overlay(ws[p], Version(m, r)), db)
    PROVE  Safe'
  <1> DEFINE own == Overlay(ws[p], Version(m, r))
             g == [tx[p] EXCEPT !.pc = "commit", !.answer = a]
  <1>1. \A i \in Id : ws[p][i] = NoRow
    BY QuietView
  <1>2. \A i \in Id : own[i] = IF i = m THEN r ELSE NoRow
    BY <1>1, OneMore
  <1>3. tx' = [tx EXCEPT ![p] = g]
    BY DEF Finish
  <1>4. tx[p] \in Frame /\ Held(tx[p], db)
    BY AtLabel
  <1>5. /\ g \in Frame /\ g.pc = "commit" /\ g.menu = tx[p].menu /\ g.patch = tx[p].patch /\ g.answer = a
    BY <1>4, FinishedFields
  <1> HIDE DEF own, g
  <1>6. Held(g, db) /\ Aimed(g, db)
    BY <1>4, <1>5 DEF Held, Aimed, CreateLabels, PatchLabels, DeleteLabels, FanoutLabels,
             LoopLabels, LoadedLabels
  <1>7. Written(g, own, db)
    <2>1. a = "MenuPatched" => PatchedBy(g, own, db)
      BY <1>5 DEF PatchedBy, own
    <2>2. \A i \in Id : own[i] # NoRow => i \in MenuIds
      BY <1>2
    <2>3. \A i \in MenuIds : own[i] # NoRow /\ db[i] # NoRow =>
            /\ own[i].site = db[i].site
            /\ NoMoves /\ db[i].parent = None => own[i].parent = None
      BY <1>2, MenuIdsApart
    <2> QED
      BY <1>5, <2>1, <2>2, <2>3 DEF Written, QuietLabels, LoopLabels
  <1>8. calls' \in 0 .. MaxCalls
    BY DEF Safe
  <1> QED
    BY <1>3, <1>5, <1>6, <1>7, <1>8, WriteStep DEF Fits, own

\* A handler that gives up, at any label.
LEMMA Quits ==
    ASSUME Safe, NEW p \in Procs, UNCHANGED calls, \E a \in Answers : Fail(p, a)
    PROVE  Safe'
  BY FailStep

\* The labels of each verb.
LEMMA VerbLabels ==
    /\ CreateLabels \cup PatchLabels \cup DeleteLabels \subseteq QuietLabels
    /\ {"fanout.load", "fanout.key", "fanout.targets"} \subseteq QuietLabels
    /\ QuietLabels \subseteq Labels /\ LoopLabels \subseteq Labels
  BY DEF CreateLabels, PatchLabels, DeleteLabels, QuietLabels, Labels, LoopLabels

\* create_menu
LEMMA CreateSafe ==
    ASSUME Safe, NEW p \in Procs, Create(p)
    PROVE  Safe'
  <1>1. /\ tx[p] \in Frame /\ Held(tx[p], db)
    BY AtLabel
  <1>2. CASE CreateDepth(p)
    <2>1. /\ tx[p].pc = "create.depth" /\ UNCHANGED calls
          /\ \/ \E a \in Answers : Fail(p, a)
             \/ UNCHANGED storeVars /\ Goto(p, tx[p], "create.insert")
      BY <1>2 DEF CreateDepth, At, Answers
    <2>2. CASE UNCHANGED storeVars /\ Goto(p, tx[p], "create.insert")
      <3> DEFINE g == [tx[p] EXCEPT !.pc = "create.insert"]
      <3>1. tx' = [tx EXCEPT ![p] = g] /\ UNCHANGED <<db, ws, calls>>
        BY <2>1, <2>2 DEF Goto, storeVars
      <3>2. g \in Frame /\ g.pc = "create.insert" /\ g.menu = tx[p].menu /\ g.row = tx[p].row
        BY <1>1, MovedFields DEF Labels
      <3> HIDE DEF g
      <3>3. Held(g, db) /\ Aimed(g, db)
        BY <1>1, <2>1, <3>2 DEF Held, Aimed, CreateLabels, PatchLabels, DeleteLabels, FanoutLabels,
             LoopLabels, LoadedLabels
      <3>4. tx[p].pc \in QuietLabels /\ g.pc \in QuietLabels
        BY <2>1, <3>2, VerbLabels DEF CreateLabels
      <3> QED
        BY <3>1, <3>2, <3>3, <3>4, QuietStep
    <2> QED
      BY <2>1, <2>2, Quits
  <1>3. CASE CreateInsert(p)
    <2>1. /\ tx[p].pc = "create.insert" /\ UNCHANGED calls /\ Unused # {}
          /\ Write(p, Version(NewId, tx[p].row)) /\ Finish(p, tx[p], "MenuCreated")
          /\ "MenuCreated" \in Answers
      BY <1>3 DEF CreateInsert, At, Answers
    <2>2. tx[p].row \in MenuRow /\ NewId \in MenuIds /\ db[NewId] = NoRow
          /\ tx[p].pc \in QuietLabels
      BY <1>1, <2>1, NewIdFresh, VerbLabels DEF Held, CreateLabels
    <2> QED
      BY <2>1, <2>2, OnlyWrite
  <1> QED
    BY <1>2, <1>3 DEF Create

\* delete_menu
LEMMA DeleteSafe ==
    ASSUME Safe, NEW p \in Procs, Delete(p)
    PROVE  Safe'
  <1>1. /\ tx[p] \in Frame /\ Held(tx[p], db) /\ TableState(db)
    BY AtLabel
  <1>2. CASE DeleteLoad(p)
    <2>1. /\ tx[p].pc = "delete.load" /\ UNCHANGED calls
          /\ \/ \E a \in Answers : Fail(p, a)
             \/ UNCHANGED storeVars /\ Goto(p, tx[p], "delete.tombstone")
      BY <1>2 DEF DeleteLoad, LoadLive, At, Answers
    <2>2. CASE UNCHANGED storeVars /\ Goto(p, tx[p], "delete.tombstone")
      <3> DEFINE g == [tx[p] EXCEPT !.pc = "delete.tombstone"]
      <3>1. tx' = [tx EXCEPT ![p] = g] /\ UNCHANGED <<db, ws, calls>>
        BY <2>1, <2>2 DEF Goto, storeVars
      <3>2. g \in Frame /\ g.pc = "delete.tombstone" /\ g.menu = tx[p].menu
        BY <1>1, MovedFields DEF Labels
      <3> HIDE DEF g
      <3>3. Held(g, db) /\ Aimed(g, db)
        BY <1>1, <2>1, <3>2 DEF Held, Aimed, CreateLabels, PatchLabels, DeleteLabels, FanoutLabels,
             LoopLabels, LoadedLabels
      <3>4. tx[p].pc \in QuietLabels /\ g.pc \in QuietLabels
        BY <2>1, <3>2, VerbLabels DEF DeleteLabels
      <3> QED
        BY <3>1, <3>2, <3>3, <3>4, QuietStep
    <2> QED
      BY <2>1, <2>2, Quits
  <1>3. CASE DeleteTombstone(p)
    <2> DEFINE m == tx[p].menu
               r == [View(p)[m] EXCEPT !.live = FALSE]
    <2>1. /\ tx[p].pc = "delete.tombstone" /\ UNCHANGED calls
          /\ \/ \E a \in Answers : Fail(p, a)
             \/ Write(p, Version(m, r)) /\ Finish(p, tx[p], "MenuDeleted")
          /\ "MenuDeleted" \in Answers
      BY <1>3 DEF DeleteTombstone, StampRefused, At, Answers
    <2>2. tx[p].pc \in QuietLabels /\ m \in MenuIds /\ db[m] # NoRow
      BY <1>1, <2>1, VerbLabels, MenuIdsApart DEF Held, DeleteLabels
    <2>3. View(p)[m] = db[m] /\ db[m] \in MenuRow
      BY <1>1, <2>2, QuietView, MenuIdsApart, RowOfTable
    <2>4. r \in MenuRow /\ r.site = db[m].site /\ r.parent = db[m].parent
      BY <2>3 DEF MenuRow
    <2> HIDE DEF m, r
    <2> QED
      BY <2>1, <2>2, <2>4, OnlyWrite, Quits
  <1> QED
    BY <1>2, <1>3 DEF Delete

\* patch_menu
LEMMA PatchSafe ==
    ASSUME Safe, NEW p \in Procs, PatchVerb(p)
    PROVE  Safe'
  <1>1. /\ tx[p] \in Frame /\ Held(tx[p], db) /\ TableState(db)
    BY AtLabel
  <1>2. CASE PatchLoad(p)
    <2> DEFINE f == tx[p]
               current == View(p)[f.menu]
               willParent == IF f.patch.parent = Keep THEN current.parent ELSE f.patch.parent
               g(label) == [[f EXCEPT !.row = current, !.root = willParent] EXCEPT !.pc = label]
    <2>1. /\ f.pc = "patch.load" /\ UNCHANGED calls
          /\ \/ \E a \in Answers : Fail(p, a)
             \/ /\ f.menu \in LiveMenus(View(p)) /\ UNCHANGED storeVars
                /\ \/ willParent # None /\ tx' = [tx EXCEPT ![p] = g("patch.depth")]
                   \/ tx' = [tx EXCEPT ![p] = g("patch.mega")]
                   \/ tx' = [tx EXCEPT ![p] = g("patch.update")]
      BY <1>2 DEF PatchLoad, At, Answers, Goto
    <2>2. ASSUME f.menu \in LiveMenus(View(p)), UNCHANGED storeVars,
                 NEW label \in {"patch.depth", "patch.mega", "patch.update"},
                 label = "patch.depth" => willParent # None,
                 tx' = [tx EXCEPT ![p] = g(label)]
          PROVE  Safe'
      <3>1. /\ f.pc \in QuietLabels /\ f.menu \in MenuIds /\ db[f.menu] # NoRow
            /\ f.patch \in Patches
        BY <1>1, <2>1, VerbLabels, MenuIdsApart DEF Held, PatchLabels
      <3>2. current = db[f.menu] /\ current \in MenuRow
        BY <1>1, <3>1, QuietView, MenuIdsApart, RowOfTable
      <3>3. willParent \in MenuIds \cup {None}
        BY <3>1, <3>2, InputsAssumption DEF MenuRow, Patch
      <3>4. label \in Labels
        BY <2>2 DEF Labels
      <3>5. PICK y : y = g(label)
        OBVIOUS
      <3> HIDE DEF current, willParent
      <3>6. /\ y \in Frame /\ y.pc = label /\ y.menu = f.menu /\ y.row = current
            /\ y.patch = f.patch /\ y.root = willParent
        BY <1>1, <3>2, <3>3, <3>4, <3>5 DEF Frame
      <3>7. Held(y, db) /\ Aimed(y, db)
        BY <2>2, <3>1, <3>2, <3>3, <3>6
           DEF Held, Aimed, CreateLabels, PatchLabels, DeleteLabels, FanoutLabels,
               LoopLabels, LoadedLabels
      <3>8. y.pc \in QuietLabels /\ UNCHANGED <<db, ws, calls>>
        BY <2>1, <2>2, <3>6, VerbLabels DEF PatchLabels, storeVars
      <3>9. tx' = [tx EXCEPT ![p] = y]
        BY <2>2, <3>5
      <3> QED
        BY <3>1, <3>6, <3>7, <3>8, <3>9, QuietStep
    <2> HIDE DEF g, current, willParent
    <2> QED
      BY <2>1, <2>2, Quits
  <1>3. CASE PatchDepth(p) \/ PatchMega(p)
    <2>1. /\ tx[p].pc \in {"patch.depth", "patch.mega"} /\ UNCHANGED calls
          /\ \/ \E a \in Answers : Fail(p, a)
             \/ UNCHANGED storeVars /\ Goto(p, tx[p], "patch.update")
      BY <1>3 DEF PatchDepth, PatchMega, At, Answers
    <2>2. CASE UNCHANGED storeVars /\ Goto(p, tx[p], "patch.update")
      <3> DEFINE g == [tx[p] EXCEPT !.pc = "patch.update"]
      <3>1. tx' = [tx EXCEPT ![p] = g] /\ UNCHANGED <<db, ws, calls>>
        BY <2>1, <2>2 DEF Goto, storeVars
      <3>2. /\ g \in Frame /\ g.pc = "patch.update" /\ g.menu = tx[p].menu /\ g.row = tx[p].row
            /\ g.patch = tx[p].patch
        BY <1>1, MovedFields DEF Labels
      <3> HIDE DEF g
      <3>3. Held(g, db) /\ Aimed(g, db)
        BY <1>1, <2>1, <3>2 DEF Held, Aimed, CreateLabels, PatchLabels, DeleteLabels, FanoutLabels,
             LoopLabels, LoadedLabels
      <3>4. tx[p].pc \in QuietLabels /\ g.pc \in QuietLabels
        BY <2>1, <3>2, VerbLabels DEF PatchLabels
      <3> QED
        BY <3>1, <3>2, <3>3, <3>4, QuietStep
    <2> QED
      BY <2>1, <2>2, Quits
  <1>4. CASE PatchUpdate(p)
    <2> DEFINE f == tx[p]
               m == f.menu
               parent == IF f.patch.parent = Keep THEN View(p)[m].parent ELSE f.patch.parent
               mega == IF f.patch.mega = Keep THEN View(p)[m].mega ELSE f.patch.mega
               tier == IF f.patch.tier = Keep THEN View(p)[m].tier ELSE f.patch.tier
               r == [View(p)[m] EXCEPT !.parent = parent, !.mega = mega, !.tier = tier]
    <2>1. /\ f.pc = "patch.update" /\ UNCHANGED calls
          /\ \/ \E a \in Answers : Fail(p, a)
             \/ Write(p, Version(m, r)) /\ Finish(p, f, "MenuPatched")
          /\ "MenuPatched" \in Answers
      BY <1>4 DEF PatchUpdate, StampRefused, At, Answers
    <2>2. f.pc \in QuietLabels /\ m \in MenuIds /\ db[m] # NoRow /\ f.patch \in Patches
      BY <1>1, <2>1, VerbLabels, MenuIdsApart DEF Held, PatchLabels
    <2>3. View(p)[m] = db[m] /\ db[m] \in MenuRow /\ f.patch \in Patch
      BY <1>1, <2>2, QuietView, MenuIdsApart, RowOfTable, InputsAssumption
    <2>4. /\ parent \in MenuIds \cup {None} /\ mega \in BOOLEAN /\ tier \in Tiers
          /\ f.patch.parent = Keep => parent = db[m].parent
          /\ f.patch.mega = Keep => mega = db[m].mega
          /\ f.patch.tier = Keep => tier = db[m].tier
          /\ NoMoves /\ db[m].parent = None => parent = None
      BY <2>2, <2>3 DEF MenuRow, Patch, NoMoves
    <2> HIDE DEF parent, mega, tier
    <2>5. /\ r \in MenuRow /\ r.site = db[m].site /\ r.parent = parent /\ r.mega = mega
          /\ r.tier = tier /\ r.live = db[m].live
      BY <2>3, <2>4 DEF MenuRow
    <2> HIDE DEF r
    <2>6. PatchedBy(f, Overlay(ws[p], Version(m, r)), db)
      <3>1. \A i \in Id : Overlay(ws[p], Version(m, r))[i] = IF i = m THEN r ELSE NoRow
        BY <2>2, QuietView, OneMore
      <3>2. r # NoRow /\ m \in Id
        BY <2>2, <2>5, MenuIdsApart, NoRowAssumption DEF Row
      <3> QED
        BY <2>2, <2>4, <2>5, <3>1, <3>2 DEF PatchedBy
    <2> HIDE DEF m
    <2> QED
      BY <2>1, <2>2, <2>4, <2>5, <2>6, OnlyWrite, Quits
  <1> QED
    BY <1>2, <1>3, <1>4 DEF PatchVerb
-----------------------------------------------------------------------------
\* fanout_menu

\* The frame at the head of the loop, or after its last website.
LEMMA LoopMoves ==
    ASSUME NEW p \in Procs, NEW y \in Frame, FanoutNext(p, y)
    PROVE  \E g \in Frame :
             /\ tx' = [tx EXCEPT ![p] = g] /\ g.menu = y.menu /\ g.row = y.row /\ g.key = y.key
             /\ g.targets = y.targets
             /\ \/ g.pc = "fanout.root" /\ g.targets # {}
                \/ g.pc = "commit" /\ g.answer = "MenusFannedOut" /\ g.targets = {}
  <1>1. CASE y.targets # {} /\ Goto(p, y, "fanout.root")
    <2>1. PICK g : g = [y EXCEPT !.pc = "fanout.root"]
      OBVIOUS
    <2>2. /\ g \in Frame /\ g.pc = "fanout.root" /\ g.menu = y.menu /\ g.row = y.row
          /\ g.key = y.key /\ g.targets = y.targets
      BY <2>1 DEF Frame, Labels
    <2> QED
      BY <1>1, <2>1, <2>2 DEF Goto
  <1>2. CASE y.targets = {} /\ Finish(p, y, "MenusFannedOut")
    <2>1. PICK g : g = [y EXCEPT !.pc = "commit", !.answer = "MenusFannedOut"]
      OBVIOUS
    <2>2. /\ g \in Frame /\ g.pc = "commit" /\ g.menu = y.menu /\ g.row = y.row
          /\ g.key = y.key /\ g.targets = y.targets /\ g.answer = "MenusFannedOut"
      BY <2>1 DEF Frame, Labels, Answers
    <2> QED
      BY <1>2, <2>1, <2>2 DEF Finish
  <1> QED
    BY <1>1, <1>2 DEF FanoutNext

\* What such a frame needs to fit its transaction.
LEMMA LoopFits ==
    ASSUME NEW g, NEW own, NEW t,
           \/ g.pc = "fanout.root" /\ g.targets # {}
           \/ g.pc = "commit" /\ g.answer = "MenusFannedOut" /\ g.targets = {},
           g.menu \in MenuIds, t[g.menu] # NoRow, g.row \in MenuRow,
           g.targets \subseteq Others(t, g.row),
           g.key # None =>
             g.row.page \in PageIds /\ t[g.row.page] # NoRow /\ t[g.row.page].key = g.key,
           \A i \in Id : own[i] # NoRow => i \in MenuIds,
           CopiedBy(g, own, t)
    PROVE  Fits(g, own, t)
  <1>1. Held(g, t)
    BY DEF Held, CreateLabels, PatchLabels, DeleteLabels, FanoutLabels, LoopLabels, LoadedLabels
  <1>2. Aimed(g, t)
    BY DEF Aimed, LoopLabels
  <1>3. \A m \in MenuIds : own[m] # NoRow => t[m] = NoRow
    BY DEF CopiedBy
  <1>4. g.pc \notin QuietLabels
    BY DEF QuietLabels, LoopLabels
  <1>5. Written(g, own, t)
    BY <1>3, <1>4 DEF Written, LoopLabels
  <1> QED
    BY <1>1, <1>2, <1>5 DEF Fits

\* The source is loaded.
LEMMA FanoutLoadSafe ==
    ASSUME Safe, NEW p \in Procs, FanoutLoad(p)
    PROVE  Safe'
  <1> DEFINE f == tx[p]
             row == View(p)[f.menu]
             label == IF row.page = None THEN "fanout.targets" ELSE "fanout.key"
             y == [[f EXCEPT !.row = row] EXCEPT !.pc = label]
  <1>1. /\ f \in Frame /\ Held(f, db) /\ TableState(db)
    BY AtLabel
  <1>2. /\ f.pc = "fanout.load" /\ UNCHANGED calls
        /\ \/ \E a \in Answers : Fail(p, a)
           \/ f.menu \in LiveMenus(View(p)) /\ UNCHANGED storeVars /\ tx' = [tx EXCEPT ![p] = y]
    BY DEF FanoutLoad, LoadLive, Goto, At, Answers
  <1>3. CASE UNCHANGED storeVars /\ tx' = [tx EXCEPT ![p] = y]
    <2>1. f.pc \in QuietLabels /\ f.menu \in MenuIds /\ db[f.menu] # NoRow
      BY <1>1, <1>2, VerbLabels, MenuIdsApart DEF Held, FanoutLabels
    <2>2. row = db[f.menu] /\ row \in MenuRow
      BY <1>1, <2>1, QuietView, MenuIdsApart, RowOfTable
    <2>3. label \in Labels /\ label \in {"fanout.targets", "fanout.key"}
      BY DEF Labels
    <2>4. label = "fanout.key" => row.page \in PageIds
      BY <2>2 DEF MenuRow
    <2>5. PICK g : g = y
      OBVIOUS
    <2> HIDE DEF row, label
    <2>6. g \in Frame /\ g.pc = label /\ g.menu = f.menu /\ g.row = row /\ g.key = f.key
      BY <1>1, <2>2, <2>3, <2>5 DEF Frame
    <2>7. f.key = None
      BY <1>1, <1>2 DEF Held
    <2>8. Held(g, db) /\ Aimed(g, db)
      BY <2>1, <2>2, <2>3, <2>4, <2>6, <2>7
         DEF Held, Aimed, CreateLabels, PatchLabels, DeleteLabels, FanoutLabels, LoopLabels,
             LoadedLabels
    <2>9. g.pc \in QuietLabels /\ UNCHANGED <<db, ws, calls>> /\ tx' = [tx EXCEPT ![p] = g]
      BY <1>2, <1>3, <2>3, <2>5, <2>6, VerbLabels DEF storeVars
    <2> QED
      BY <2>1, <2>6, <2>8, <2>9, QuietStep
  <1> QED
    BY <1>2, <1>3, Quits

\* The key of its page is read.
LEMMA FanoutKeySafe ==
    ASSUME Safe, NEW p \in Procs, FanoutKey(p)
    PROVE  Safe'
  <1> DEFINE f == tx[p]
             page == View(p)[f.row.page]
             key == IF page = NoRow THEN None ELSE page.key
  <1>1. /\ f \in Frame /\ Held(f, db) /\ TableState(db)
    BY AtLabel
  <1>2. /\ f.pc = "fanout.key" /\ UNCHANGED <<db, ws, calls>>
        /\ tx' = [tx EXCEPT ![p] = [[f EXCEPT !.key = key] EXCEPT !.pc = "fanout.targets"]]
    BY DEF FanoutKey, Goto, At, storeVars
  <1>3. f.pc \in QuietLabels /\ f.menu \in MenuIds /\ db[f.menu] # NoRow
    BY <1>1, <1>2, VerbLabels, MenuIdsApart DEF Held, FanoutLabels
  <1>4. f.row.page \in PageIds /\ f.row \in MenuRow
    BY <1>1, <1>2 DEF Held, LoadedLabels
  <1>5. page = db[f.row.page] /\ (page # NoRow => page \in PageRow)
    BY <1>1, <1>3, <1>4, QuietView, MenuIdsApart, RowOfTable
  <1>6. key \in Keys \cup {None} /\ (key # None => db[f.row.page] # NoRow /\ key = db[f.row.page].key)
    BY <1>5 DEF PageRow
  <1> HIDE DEF key
  <1>7. PICK g : g = [[f EXCEPT !.key = key] EXCEPT !.pc = "fanout.targets"]
    OBVIOUS
  <1>8. g \in Frame /\ g.pc = "fanout.targets" /\ g.menu = f.menu /\ g.row = f.row /\ g.key = key
    BY <1>1, <1>6, <1>7 DEF Frame, Labels
  <1>9. Held(g, db) /\ Aimed(g, db)
    BY <1>3, <1>4, <1>6, <1>8
       DEF Held, Aimed, CreateLabels, PatchLabels, DeleteLabels, FanoutLabels, LoopLabels,
           LoadedLabels
  <1>10. g.pc \in QuietLabels /\ tx' = [tx EXCEPT ![p] = g]
    BY <1>2, <1>7, <1>8, VerbLabels
  <1> QED
    BY <1>2, <1>3, <1>8, <1>9, <1>10, QuietStep

\* The loop gets its websites, none of them done.
LEMMA FanoutTargetsSafe ==
    ASSUME Safe, NEW p \in Procs, FanoutTargets(p)
    PROVE  Safe'
  <1> DEFINE f == tx[p]
  <1>1. /\ f \in Frame /\ Held(f, db) /\ Aimed(f, db)
    BY AtLabel
  <1>2. f.pc = "fanout.targets" /\ UNCHANGED storeVars /\ UNCHANGED calls
    BY DEF FanoutTargets, At
  <1>3. /\ f.pc \in QuietLabels /\ f.menu \in MenuIds /\ db[f.menu] # NoRow /\ f.row \in MenuRow
        /\ View(p) = db /\ \A i \in Id : ws[p][i] = NoRow
    BY <1>1, <1>2, VerbLabels, QuietView, MenuIdsApart DEF Held, FanoutLabels, LoadedLabels
  <1>4. PICK y : y = [f EXCEPT !.targets = LiveSites(View(p)) \ {f.row.site}]
    OBVIOUS
  <1>5. Others(db, f.row) \in SUBSET Sites /\ Others(db, f.row) = LiveSites(View(p)) \ {f.row.site}
    BY <1>3 DEF Others, LiveSites
  <1>6. /\ y \in Frame /\ y.menu = f.menu /\ y.row = f.row /\ y.key = f.key
        /\ y.targets = Others(db, f.row)
    BY <1>1, <1>4, <1>5 DEF Frame
  <1>7. FanoutNext(p, y)
    BY <1>4 DEF FanoutTargets
  <1>8. PICK g \in Frame :
             /\ tx' = [tx EXCEPT ![p] = g] /\ g.menu = y.menu /\ g.row = y.row /\ g.key = y.key
             /\ g.targets = y.targets
             /\ \/ g.pc = "fanout.root" /\ g.targets # {}
                \/ g.pc = "commit" /\ g.answer = "MenusFannedOut" /\ g.targets = {}
    BY <1>6, <1>7, LoopMoves
  <1>9. CopiedBy(g, ws[p], db)
    BY <1>3, <1>6, <1>8, MenuIdsApart DEF CopiedBy
  <1>10. f.key # None =>
           f.row.page \in PageIds /\ db[f.row.page] # NoRow /\ db[f.row.page].key = f.key
    BY <1>1, <1>2 DEF Aimed
  <1>11. Fits(g, ws[p], db)
    BY <1>3, <1>6, <1>8, <1>9, <1>10, LoopFits
  <1>12. calls' \in 0 .. MaxCalls
    BY <1>2 DEF Safe
  <1> QED
    BY <1>2, <1>8, <1>11, <1>12, ReadStep

\* In the loop: the target is a live website that has no copy yet.
LEMMA InLoop ==
    ASSUME Safe, NEW p \in Procs, tx[p].pc \in LoopLabels
    PROVE  /\ tx[p] \in Frame /\ tx[p].menu \in MenuIds /\ db[tx[p].menu] # NoRow
           /\ tx[p].row \in MenuRow /\ Target(tx[p]) \in tx[p].targets
           /\ tx[p].targets \subseteq Others(db, tx[p].row) /\ Target(tx[p]) \in Sites
           /\ CopiedBy(tx[p], ws[p], db)
           /\ \A m \in MenuIds : ws[p][m] # NoRow => ws[p][m].site # Target(tx[p])
           /\ \A i \in Id : ws[p][i] # NoRow => i \in MenuIds
  <1> DEFINE f == tx[p]
  <1>1. /\ f \in Frame /\ Held(f, db) /\ Aimed(f, db) /\ Written(f, ws[p], db)
    BY AtLabel
  <1>2. f.menu \in MenuIds /\ db[f.menu] # NoRow /\ f.row \in MenuRow
    BY <1>1, MenuIdsApart DEF Held, FanoutLabels, LoadedLabels, LoopLabels
  <1>3. f.targets # {} /\ f.targets \subseteq Others(db, f.row) /\ f.targets \in SUBSET Sites
    BY <1>1, FrameFields DEF Aimed
  <1>4. Target(f) \in f.targets
    BY <1>3, TargetIsOne
  <1>5. CopiedBy(f, ws[p], db) /\ \A i \in Id : ws[p][i] # NoRow => i \in MenuIds
    BY <1>1 DEF Written
  <1>6. \A m \in MenuIds : ws[p][m] # NoRow => ws[p][m].site # Target(f)
    BY <1>4, <1>5 DEF CopiedBy
  <1> QED
    BY <1>1, <1>2, <1>3, <1>4, <1>5, <1>6

\* A step inside the loop that only reads.
LEMMA LoopRead ==
    ASSUME Safe, NEW p \in Procs, tx[p].pc \in LoopLabels, UNCHANGED <<db, ws, calls>>,
           NEW g \in Frame, tx' = [tx EXCEPT ![p] = g], g.pc \in {"fanout.page", "fanout.insert"},
           g.menu = tx[p].menu, g.row = tx[p].row, g.key = tx[p].key, g.targets = tx[p].targets,
           g.pc = "fanout.page" => g.key # None,
           g.root # None => Rooted(db, g.root, Target(tx[p])),
           g.pc = "fanout.insert" /\ g.page # None =>
             Serves(db, g.page, Target(tx[p]), g.row.page)
    PROVE  Safe'
  <1>1. /\ g.menu \in MenuIds /\ db[g.menu] # NoRow /\ g.row \in MenuRow
        /\ g.targets # {} /\ g.targets \subseteq Others(db, g.row) /\ CopiedBy(tx[p], ws[p], db)
        /\ \A i \in Id : ws[p][i] # NoRow => i \in MenuIds
    BY InLoop
  <1>2. g.pc \in LoopLabels /\ g.pc \notin QuietLabels
    BY DEF LoopLabels, QuietLabels
  <1>3. Held(g, db)
    BY <1>1, <1>2 DEF Held, CreateLabels, PatchLabels, DeleteLabels, FanoutLabels, LoopLabels,
           LoadedLabels
  <1>4. Target(g) = Target(tx[p])
    BY DEF Target
  <1>5. g.key # None =>
          g.row.page \in PageIds /\ db[g.row.page] # NoRow /\ db[g.row.page].key = g.key
    BY AtLabel DEF Aimed
  <1>6. Aimed(g, db)
    BY <1>1, <1>2, <1>4, <1>5 DEF Aimed
  <1>7. CopiedBy(g, ws[p], db)
    BY <1>1 DEF CopiedBy
  <1>8. \A m \in MenuIds : ws[p][m] # NoRow => db[m] = NoRow
    BY <1>1 DEF CopiedBy
  <1>9. Written(g, ws[p], db)
    BY <1>1, <1>2, <1>7, <1>8 DEF Written
  <1>10. calls' \in 0 .. MaxCalls /\ UNCHANGED storeVars
    BY DEF Safe, storeVars
  <1> QED
    BY <1>3, <1>6, <1>9, <1>10, ReadStep DEF Fits

\* A root of the next website is found: none of the copies is on it yet.
LEMMA FanoutRootSafe ==
    ASSUME Safe, NEW p \in Procs, FanoutRoot(p)
    PROVE  Safe'
  <1> DEFINE f == tx[p]
             roots == {m \in SiteMenus(View(p), Target(f)) : View(p)[m].parent = None}
  <1>1. f \in Frame /\ \A i \in Id : View(p)[i] = IF ws[p][i] # NoRow THEN ws[p][i] ELSE db[i]
    BY AtLabel
  <1>2. f.pc = "fanout.root" /\ f.pc \in LoopLabels /\ UNCHANGED <<db, ws, calls>>
    BY DEF FanoutRoot, At, storeVars, LoopLabels
  <1>3. PICK r \in IF roots = {} THEN {None} ELSE roots :
          \/ f.key # None /\ Goto(p, [f EXCEPT !.root = r], "fanout.page")
          \/ f.key = None /\ Goto(p, [f EXCEPT !.root = r, !.page = None], "fanout.insert")
    BY DEF FanoutRoot
  <1>4. r \in MenuIds \cup {None} /\ (r # None => r \in roots)
    BY DEF SiteMenus, LiveMenus
  <1>5. r # None => Rooted(db, r, Target(f))
    <2> SUFFICES ASSUME r # None PROVE Rooted(db, r, Target(f))
      OBVIOUS
    <2>1. /\ r \in MenuIds /\ View(p)[r] # NoRow /\ View(p)[r].site = Target(f)
          /\ View(p)[r].parent = None
      BY <1>4 DEF SiteMenus, LiveMenus
    <2>2. ws[p][r] = NoRow
      BY <1>1, <1>2, <2>1, InLoop, MenuIdsApart
    <2> QED
      BY <1>1, <2>1, <2>2, MenuIdsApart DEF Rooted
  <1> HIDE DEF roots
  <1>6. PICK g :
          /\ tx' = [tx EXCEPT ![p] = g]
          /\ \/ f.key # None /\ g = [[f EXCEPT !.root = r] EXCEPT !.pc = "fanout.page"]
             \/ f.key = None /\ g = [[f EXCEPT !.root = r, !.page = None] EXCEPT !.pc = "fanout.insert"]
    BY <1>3 DEF Goto
  <1>7. /\ g \in Frame /\ g.menu = f.menu /\ g.row = f.row /\ g.key = f.key
        /\ g.targets = f.targets /\ g.root = r
        /\ \/ g.pc = "fanout.page" /\ f.key # None
           \/ g.pc = "fanout.insert" /\ g.page = None
    BY <1>1, <1>4, <1>6 DEF Frame, Labels
  <1> QED
    BY <1>2, <1>5, <1>6, <1>7, LoopRead

\* A page is found that this website serves under the key.
LEMMA FanoutPageSafe ==
    ASSUME Safe, NEW p \in Procs, FanoutPage(p)
    PROVE  Safe'
  <1> DEFINE f == tx[p]
             found == ResolveSpecific(View(p), f.key, Target(f))
  <1>1. /\ f \in Frame /\ Aimed(f, db)
        /\ \A i \in Id : View(p)[i] = IF ws[p][i] # NoRow THEN ws[p][i] ELSE db[i]
    BY AtLabel
  <1>2. f.pc = "fanout.page" /\ f.pc \in LoopLabels /\ UNCHANGED <<db, ws, calls>>
    BY DEF FanoutPage, At, storeVars, LoopLabels
  <1>3. PICK i \in IF found = {} THEN {None} ELSE found :
          Goto(p, [f EXCEPT !.page = i], "fanout.insert")
    BY DEF FanoutPage
  <1>4. i # None => /\ i \in PageIds /\ View(p)[i] # NoRow /\ View(p)[i].key = f.key
                    /\ View(p)[i].scope \in {Target(f), Generic}
    BY DEF ResolveSpecific, PreferSpecific, LiveScope, LivePages
  <1>5. /\ f.key # None /\ f.row.page \in PageIds /\ db[f.row.page] # NoRow
        /\ db[f.row.page].key = f.key /\ (f.root # None => Rooted(db, f.root, Target(f)))
    BY <1>1, <1>2 DEF Aimed
  <1>6. i # None => Serves(db, i, Target(f), f.row.page)
    <2> SUFFICES ASSUME i # None PROVE Serves(db, i, Target(f), f.row.page)
      OBVIOUS
    <2>1. ws[p][i] = NoRow
      BY <1>2, <1>4, InLoop, MenuIdsApart
    <2>2. View(p)[i] = db[i]
      BY <1>1, <1>4, <2>1, MenuIdsApart
    <2> QED
      BY <1>4, <1>5, <2>2 DEF Serves
  <1>7. i \in PageIds \cup {None}
    BY <1>4
  <1>8. PICK g : g = [[f EXCEPT !.page = i] EXCEPT !.pc = "fanout.insert"]
    OBVIOUS
  <1>9. tx' = [tx EXCEPT ![p] = g]
    BY <1>3, <1>8 DEF Goto
  <1>10. /\ g \in Frame /\ g.pc = "fanout.insert" /\ g.menu = f.menu /\ g.row = f.row
         /\ g.key = f.key /\ g.targets = f.targets /\ g.root = f.root /\ g.page = i
    BY <1>1, <1>7, <1>8 DEF Frame, Labels
  <1> HIDE DEF found
  <1> QED
    BY <1>2, <1>5, <1>6, <1>9, <1>10, LoopRead

\* One more copy.
LEMMA OneMoreCopy ==
    ASSUME NEW f, NEW g, NEW own, NEW t, NEW w, NEW n \in MenuIds, NEW copy,
           CopiedBy(f, own, t), own[n] = NoRow, t[n] = NoRow, copy # NoRow,
           w \in f.targets, f.targets \subseteq Others(t, f.row),
           \A m \in MenuIds : own[m] # NoRow => own[m].site # w,
           copy.site = w, copy.parent # None => Rooted(t, copy.parent, w),
           copy.page # None => Serves(t, copy.page, w, f.row.page),
           g.row = f.row, g.targets = f.targets \ {w}
    PROVE  CopiedBy(g, Overlay(own, Version(n, copy)), t)
  <1> DEFINE more == Overlay(own, Version(n, copy))
             done == Others(t, f.row) \ f.targets
  <1>1. \A m \in MenuIds : more[m] = IF m = n THEN copy ELSE own[m]
    BY OneMore, MenuIdsApart
  <1>2. Others(t, g.row) \ g.targets = done \cup {w} /\ w \notin done
    OBVIOUS
  <1> HIDE DEF more
  <1>3. ASSUME NEW m \in MenuIds, more[m] # NoRow
        PROVE  /\ t[m] = NoRow /\ more[m].site \in done \cup {w}
               /\ more[m].parent # None => Rooted(t, more[m].parent, more[m].site)
               /\ more[m].page # None => Serves(t, more[m].page, more[m].site, g.row.page)
    BY <1>1, <1>3 DEF CopiedBy
  <1>4. ASSUME NEW x \in done \cup {w}
        PROVE  \E m \in MenuIds : \A y \in MenuIds :
                 more[y] # NoRow /\ more[y].site = x <=> y = m
    <2>1. CASE x = w
      BY <1>1, <2>1
    <2>2. CASE x # w
      <3>1. x \in done
        BY <1>4, <2>2
      <3>2. PICK m \in MenuIds : \A y \in MenuIds : own[y] # NoRow /\ own[y].site = x <=> y = m
        BY <3>1 DEF CopiedBy
      <3>3. m # n
        BY <3>2
      <3>4. \A y \in MenuIds : more[y] # NoRow /\ more[y].site = x <=> y = m
        BY <1>1, <2>2, <3>2, <3>3
      <3> QED
        BY <3>4
    <2> QED
      BY <2>1, <2>2
  <1> HIDE DEF done
  <1>5. CopiedBy(g, more, t)
    BY <1>2, <1>3, <1>4 DEF CopiedBy
  <1> QED
    BY <1>5 DEF more

\* The copy is written.
LEMMA FanoutInsertSafe ==
    ASSUME Safe, NEW p \in Procs, FanoutInsert(p)
    PROVE  Safe'
  <1> DEFINE f == tx[p]
             copy == [f.row EXCEPT !.site = Target(f), !.page = f.page,
                                   !.parent = IF f.row.mega THEN None ELSE f.root]
  <1>1. /\ f \in Frame /\ Aimed(f, db)
    BY AtLabel
  <1>2. /\ f.pc = "fanout.insert" /\ f.pc \in LoopLabels /\ UNCHANGED calls /\ Unused # {}
        /\ Write(p, Version(NewId, copy))
        /\ FanoutNext(p, [f EXCEPT !.targets = @ \ {Target(f)}, !.root = None, !.page = None])
    BY DEF FanoutInsert, At, LoopLabels
  <1>3. PICK w : w = Target(f)
    OBVIOUS
  <1>4. PICK n : n = NewId
    OBVIOUS
  <1>5. PICK c : c = copy
    OBVIOUS
  <1>6. /\ f.menu \in MenuIds /\ db[f.menu] # NoRow /\ f.row \in MenuRow
        /\ w \in f.targets /\ f.targets \subseteq Others(db, f.row) /\ w \in Sites
        /\ CopiedBy(f, ws[p], db) /\ \A m \in MenuIds : ws[p][m] # NoRow => ws[p][m].site # w
        /\ \A i \in Id : ws[p][i] # NoRow => i \in MenuIds
    BY <1>2, <1>3, InLoop
  <1>7. n \in MenuIds /\ db[n] = NoRow /\ ws[p][n] = NoRow
    BY <1>2, <1>4, NewIdFresh
  <1>8. f.root \in MenuIds \cup {None} /\ f.page \in PageIds \cup {None} /\ f.targets \in SUBSET Sites
    BY <1>1, FrameFields
  <1>9. /\ c \in MenuRow /\ c.site = w /\ c.page = f.page /\ c.parent \in {None, f.root}
    BY <1>3, <1>5, <1>6, <1>8 DEF MenuRow
  <1>10. c # NoRow
    BY <1>9, NoRowAssumption DEF Row
  <1>11. /\ f.root # None => Rooted(db, f.root, w)
         /\ f.page # None => Serves(db, f.page, w, f.row.page)
         /\ f.key # None =>
              f.row.page \in PageIds /\ db[f.row.page] # NoRow /\ db[f.row.page].key = f.key
    BY <1>1, <1>2, <1>3 DEF Aimed
  <1>12. PICK y : y = [f EXCEPT !.targets = @ \ {Target(f)}, !.root = None, !.page = None]
    OBVIOUS
  <1>13. /\ y \in Frame /\ y.menu = f.menu /\ y.row = f.row /\ y.key = f.key
         /\ y.targets = f.targets \ {w}
    BY <1>1, <1>3, <1>8, <1>12 DEF Frame
  <1>14. Write(p, Version(n, c)) /\ FanoutNext(p, y)
    BY <1>2, <1>4, <1>5, <1>12
  <1> HIDE DEF copy
  <1>15. PICK g \in Frame :
             /\ tx' = [tx EXCEPT ![p] = g] /\ g.menu = y.menu /\ g.row = y.row /\ g.key = y.key
             /\ g.targets = y.targets
             /\ \/ g.pc = "fanout.root" /\ g.targets # {}
                \/ g.pc = "commit" /\ g.answer = "MenusFannedOut" /\ g.targets = {}
    BY <1>13, <1>14, LoopMoves
  <1>16. PICK more : more = Overlay(ws[p], Version(n, c))
    OBVIOUS
  <1>17. CopiedBy(g, more, db)
    BY <1>6, <1>7, <1>9, <1>10, <1>11, <1>13, <1>15, <1>16, OneMoreCopy
  <1>18. \A i \in Id : more[i] # NoRow => i \in MenuIds
    BY <1>6, <1>7, <1>16, OneMore
  <1>19. Fits(g, more, db)
    BY <1>6, <1>11, <1>13, <1>15, <1>17, <1>18, LoopFits
  <1>20. calls' \in 0 .. MaxCalls
    BY <1>2 DEF Safe
  <1> QED
    BY <1>7, <1>9, <1>14, <1>15, <1>16, <1>19, <1>20, WriteStep

\* fanout_menu
LEMMA FanoutSafe ==
    ASSUME Safe, NEW p \in Procs, Fanout(p)
    PROVE  Safe'
  BY FanoutLoadSafe, FanoutKeySafe, FanoutTargetsSafe, FanoutRootSafe, FanoutPageSafe,
     FanoutInsertSafe DEF Fanout
-----------------------------------------------------------------------------
\* A request that is cut off rolls back.
LEMMA AbortSafe ==
    ASSUME Safe, NEW p \in Procs, Abort(p)
    PROVE  Safe'
  BY Quits DEF Abort, Answers

\* The invariant holds of every starting catalog.
LEMMA InitSafe == Init => Safe
  <1> SUFFICES ASSUME Init PROVE Safe
    OBVIOUS
  <1>1. TableState(db)
    BY CatalogsAssumption DEF Init
  <1>2. \A p \in Procs : ws[p] = NoWrites
    BY DEF Init
  <1>3. StoreTypeOK
    <2>1. ws \in [Procs -> [Id -> Row \cup {NoRow}]]
      BY EmptyTable DEF Init, TableState
    <2> QED
      BY <1>1, <1>2, <2>1, EmptyTable DEF StoreTypeOK
  <1>4. LocksExclusive
    BY <1>2 DEF LocksExclusive, NoWrites
  <1>5. "none" \in Answers
    BY DEF Answers
  <1>6. tx \in [Procs -> Frame] /\ \A p \in Procs : Fits(tx[p], ws[p], db)
    BY <1>2, <1>5, IdleFits DEF Init
  <1>7. calls \in 0 .. MaxCalls
    BY InputsAssumption DEF Init
  <1> QED
    BY <1>3, <1>4, <1>6, <1>7 DEF Safe, StoreInv

\* Every step of every request keeps it.
LEMMA NextSafe == Safe /\ [Next]_vars => Safe'
  <1> SUFFICES ASSUME Safe, [Next]_vars PROVE Safe'
    OBVIOUS
  <1>1. CASE Next
    <2>1. PICK p \in Procs : \/ Start(p) \/ Create(p) \/ PatchVerb(p) \/ Delete(p) \/ Fanout(p)
                             \/ Commit(p) \/ Abort(p)
      BY <1>1 DEF Next
    <2> QED
      BY <2>1, StartSafe, CreateSafe, PatchSafe, DeleteSafe, FanoutSafe, CommitStep, AbortSafe
  <1>2. CASE UNCHANGED vars
    BY <1>2 DEF vars, Safe, StoreInv, StoreTypeOK, TableState, LocksExclusive
  <1> QED
    BY <1>1, <1>2

\* The inductive invariant holds in every behaviour.
THEOREM SafeAlways == Spec => []Safe
  BY InitSafe, NextSafe, PTL DEF Spec
-----------------------------------------------------------------------------
\* What the handlers rely on follows from it.
LEMMA SafeMenus == Safe => MenusInv
  <1> SUFFICES ASSUME Safe PROVE MenusInv
    OBVIOUS
  <1>1. ASSUME NEW p \in Procs
        PROVE  LET f == tx[p]
               IN  /\ f.pc \in LoadedLabels => f.row # NoRow /\ db[f.menu] # NoRow
                   /\ f.pc = "patch.depth" => f.root \in MenuIds
                   /\ f.pc \in {"fanout.root", "fanout.page", "fanout.insert"} =>
                        f.targets # {} /\ f.row.site \notin f.targets
    <2>1. Held(tx[p], db) /\ Aimed(tx[p], db)
      BY AtLabel
    <2>2. tx[p].pc \in LoadedLabels => tx[p].row # NoRow /\ db[tx[p].menu] # NoRow
      BY <2>1, MenuIdsApart, NoRowAssumption
         DEF Held, LoadedLabels, PatchLabels, FanoutLabels, LoopLabels, Row
    <2>3. tx[p].pc \in LoopLabels => tx[p].targets # {} /\ tx[p].row.site \notin tx[p].targets
      BY <2>1 DEF Aimed, Others
    <2> QED
      BY <2>1, <2>2, <2>3 DEF Held, LoopLabels
  <1> QED
    BY <1>1 DEF MenusInv, Safe, StoreInv

\* Types and row locks hold, a row that was loaded stays in the table, and the fan-out has a
\* target at hand that is not the website it copies from.
THEOREM HandlersHoldRows == Spec => []MenusInv
  BY SafeMenus, SafeAlways, PTL
-----------------------------------------------------------------------------
\* A verb moves its own handler only, and none but Commit moves one that is at its commit.
LEMMA OwnMove ==
    ASSUME NEW p \in Procs, Start(p) \/ Create(p) \/ PatchVerb(p) \/ Delete(p) \/ Fanout(p)
    PROVE  (\E g : tx' = [tx EXCEPT ![p] = g]) /\ tx[p].pc # "commit"
  <1>1. CASE Start(p)
    BY <1>1 DEF Start, BeginCreate, BeginPatch, BeginDelete, BeginFanout, Begin, Goto
  <1>2. CASE Create(p)
    BY <1>2 DEF Create, CreateDepth, CreateInsert, At, Goto, Finish, Fail
  <1>3. CASE PatchVerb(p)
    <2>1. CASE PatchLoad(p)
      BY <2>1 DEF PatchLoad, At, Goto, Fail
    <2>2. CASE PatchDepth(p) \/ PatchMega(p)
      BY <2>2 DEF PatchDepth, PatchMega, At, Goto, Fail
    <2>3. CASE PatchUpdate(p)
      BY <2>3 DEF PatchUpdate, StampRefused, At, Finish, Fail
    <2> QED
      BY <1>3, <2>1, <2>2, <2>3 DEF PatchVerb
  <1>4. CASE Delete(p)
    BY <1>4 DEF Delete, DeleteLoad, DeleteTombstone, LoadLive, StampRefused, At, Goto, Finish, Fail
  <1>5. CASE Fanout(p)
    <2>1. CASE FanoutLoad(p) \/ FanoutKey(p)
      BY <2>1 DEF FanoutLoad, FanoutKey, LoadLive, At, Goto, Fail
    <2>2. CASE FanoutTargets(p) \/ FanoutInsert(p)
      BY <2>2 DEF FanoutTargets, FanoutInsert, FanoutNext, At, Goto, Finish
    <2>3. CASE FanoutRoot(p) \/ FanoutPage(p)
      BY <2>3 DEF FanoutRoot, FanoutPage, At, Goto
    <2> QED
      BY <1>5, <2>1, <2>2, <2>3 DEF Fanout
  <1> QED
    BY <1>1, <1>2, <1>3, <1>4, <1>5

\* An answer other than "aborted" is given by the commit.
LEMMA CommitsBy ==
    ASSUME Safe, [Next]_vars, NEW p \in Procs, NEW a, Commits(p, a), a # "aborted"
    PROVE  Commit(p)
  <1>1. /\ tx[p].pc = "commit" /\ tx'[p].pc = "idle" /\ tx'[p].answer = a
        /\ tx \in [Procs -> Frame]
    BY DEF Commits, Idle, Safe
  <1>2. tx' # tx
    BY <1>1
  <1>3. PICK q \in Procs : \/ Start(q) \/ Create(q) \/ PatchVerb(q) \/ Delete(q) \/ Fanout(q)
                           \/ Commit(q) \/ Abort(q)
    BY <1>2 DEF Next, vars
  <1>4. \E g : tx' = [tx EXCEPT ![q] = g]
    BY <1>3, OwnMove DEF Commit, Abort, Fail
  <1>5. q = p
    BY <1>1, <1>4
  <1>6. ~Abort(p)
    <2>1. SUFFICES ASSUME Abort(p) PROVE FALSE
      OBVIOUS
    <2>2. tx'[p] = Idle("aborted")
      BY <1>1, <2>1 DEF Abort, Fail
    <2> QED
      BY <1>1, <2>2 DEF Idle
  <1> QED
    BY <1>1, <1>3, <1>5, <1>6, OwnMove

\* What the commit changes is what the transaction has written.
LEMMA CommitShows ==
    ASSUME Safe, NEW p \in Procs, Commit(p)
    PROVE  /\ \A i \in Id : db'[i] = IF ws[p][i] # NoRow THEN ws[p][i] ELSE db[i]
           /\ \A i \in Changed : i \in MenuIds /\ ws[p][i] # NoRow /\ db'[i] = ws[p][i]
  <1>1. \A i \in Id : db'[i] = IF ws[p][i] # NoRow THEN ws[p][i] ELSE db[i]
    BY DEF Commit, CommitTx, View
  <1>2. Written(tx[p], ws[p], db)
    BY AtLabel
  <1> QED
    BY <1>1, <1>2 DEF Changed, Written

\* The commit of a patch publishes its one version.
LEMMA SafePatches ==
    ASSUME Safe, [Next]_vars, NEW p \in Procs, Commits(p, "MenuPatched")
    PROVE  KeepsTheRest(p)
  <1>1. Commit(p)
    BY CommitsBy
  <1>2. tx[p].pc = "commit" /\ tx[p].answer = "MenuPatched"
    BY DEF Commits
  <1>3. PatchedBy(tx[p], ws[p], db)
    BY <1>2, AtLabel DEF Written
  <1>4. Changed \subseteq {tx[p].menu}
    BY <1>1, <1>3, CommitShows, MenuIdsApart DEF PatchedBy
  <1>5. db'[tx[p].menu] = ws[p][tx[p].menu]
    BY <1>1, <1>3, CommitShows, MenuIdsApart DEF PatchedBy
  <1> QED
    BY <1>3, <1>4, <1>5 DEF KeepsTheRest, PatchedBy

\* A patch sets the columns it names and keeps every other one as committed, however many
\* other requests wrote the menu since it was loaded.
THEOREM PatchKeepsTheRest == Spec => PatchTouchesOnlyItsFields
  <1>1. Safe /\ [Next]_vars =>
          [\A p \in Procs : Commits(p, "MenuPatched") => KeepsTheRest(p)]_vars
    BY SafePatches
  <1> QED
    BY <1>1, SafeAlways, PTL DEF Spec, PatchTouchesOnlyItsFields
-----------------------------------------------------------------------------
\* The menu that a new one hangs below is a root.
CopiesBelowRoots ==
    \A m \in Changed : db'[m].parent # None => db'[db'[m].parent].parent = None

\* The commit of a fan-out publishes what the loop has placed.
LEMMA SafeCopies ==
    ASSUME Safe, [Next]_vars, NEW p \in Procs, Commits(p, "MenusFannedOut")
    PROVE  CopiesLand(p) /\ (NoMoves => CopiesBelowRoots)
  <1> DEFINE source == tx[p].row
             own == ws[p]
  <1>1. Commit(p)
    BY CommitsBy
  <1>2. tx[p].pc = "commit" /\ tx[p].answer = "MenusFannedOut"
    BY DEF Commits
  <1>3. CopiedBy(tx[p], own, db) /\ tx[p].targets = {} /\ \A i \in Id : own[i] # NoRow => i \in MenuIds
    BY <1>2, AtLabel DEF Written
  <1>4. /\ \A m \in MenuIds : own[m] # NoRow =>
             /\ db[m] = NoRow /\ own[m].site \in Others(db, source)
             /\ own[m].parent # None => Rooted(db, own[m].parent, own[m].site)
             /\ own[m].page # None => Serves(db, own[m].page, own[m].site, source.page)
        /\ \A w \in Others(db, source) : \E m \in MenuIds : \A x \in MenuIds :
             own[x] # NoRow /\ own[x].site = w <=> x = m
    BY <1>3 DEF CopiedBy
  <1>5. /\ \A i \in Id : db'[i] = IF own[i] # NoRow THEN own[i] ELSE db[i]
        /\ \A i \in Changed : i \in MenuIds /\ own[i] # NoRow /\ db'[i] = own[i]
    BY <1>1, CommitShows
  <1>6. \A i \in Id : db[i] # NoRow => db'[i] = db[i]
    BY <1>3, <1>4, <1>5
  <1>7. \A m \in MenuIds : own[m] # NoRow => m \in Changed
    BY <1>4, <1>5, MenuIdsApart DEF Changed
  <1> HIDE DEF source, own
  <1>8. ASSUME NEW w \in Others(db, source)
        PROVE  Cardinality({m \in Changed : db'[m].site = w}) = 1
    <2>1. PICK m \in MenuIds : \A x \in MenuIds : own[x] # NoRow /\ own[x].site = w <=> x = m
      BY <1>4
    <2>2. {x \in Changed : db'[x].site = w} = {m}
      BY <1>5, <1>7, <2>1
    <2> QED
      BY <2>2, FS_Singleton
  <1>9. ASSUME NEW m \in Changed
        PROVE  /\ db[m] = NoRow /\ db'[m].site \in Others(db, source)
               /\ db'[m].parent # None =>
                    /\ db'[db'[m].parent].site = db'[m].site
                    /\ NoMoves => db'[db'[m].parent].parent = None
               /\ db'[m].page # None =>
                    /\ db'[db'[m].page].scope \in {db'[m].site, Generic}
                    /\ db'[db'[m].page].key = db'[source.page].key
    <2>1. m \in MenuIds /\ own[m] # NoRow /\ db'[m] = own[m]
      BY <1>5
    <2>2. own[m].parent # None => Rooted(db, own[m].parent, own[m].site)
      BY <1>4, <2>1
    <2>3. own[m].page # None => Serves(db, own[m].page, own[m].site, source.page)
      BY <1>4, <2>1
    <2>4. own[m].parent # None => db'[own[m].parent] = db[own[m].parent]
      BY <1>6, <2>2, MenuIdsApart DEF Rooted
    <2>5. own[m].page # None =>
            db'[own[m].page] = db[own[m].page] /\ db'[source.page] = db[source.page]
      BY <1>6, <2>3, MenuIdsApart DEF Serves
    <2>6. db[m] = NoRow /\ own[m].site \in Others(db, source)
      BY <1>4, <2>1
    <2> QED
      BY <2>1, <2>2, <2>3, <2>4, <2>5, <2>6 DEF Rooted, Serves
  <1>10. CopiesLand(p)
    BY <1>8, <1>9 DEF CopiesLand, Others, source
  <1>11. NoMoves => CopiesBelowRoots
    BY <1>9 DEF CopiesBelowRoots
  <1> QED
    BY <1>10, <1>11

\* The copies of a fan-out land together, one on every other live website, each below a menu of
\* its own website and bound to a page that website serves.
THEOREM CopiesLandTogether == Spec => FanoutStaysLocal
  <1>1. Safe /\ [Next]_vars =>
          [\A p \in Procs : Commits(p, "MenusFannedOut") => CopiesLand(p)]_vars
    BY SafeCopies
  <1> QED
    BY <1>1, SafeAlways, PTL DEF Spec, FanoutStaysLocal

\* Where no officer moves a menu below another one, the root that a copy was placed under is
\* a root when the copies are committed.  A move that commits in between breaks this: nothing
\* locks the root that was found.
THEOREM CopiesHangBelowRoots ==
    ASSUME NoMoves
    PROVE  Spec => [][\A p \in Procs : Commits(p, "MenusFannedOut") => CopiesBelowRoots]_vars
  <1>1. Safe /\ [Next]_vars =>
          [\A p \in Procs : Commits(p, "MenusFannedOut") => CopiesBelowRoots]_vars
    BY SafeCopies
  <1> QED
    BY <1>1, SafeAlways, PTL DEF Spec
=============================================================================
