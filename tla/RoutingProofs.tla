---------------------------- MODULE RoutingProofs ----------------------------
(***************************************************************************)
(* Routing, for every redirect table, set of urls and number of requests:  *)
(* one redirect answer per path, patches that validate what they write,    *)
(* and redirects that a reader is really sent along.                       *)
(***************************************************************************)
EXTENDS Routing, TLAPS

Pages == Sites \X Paths

InsertLabels == {"create.insert", "record.insert"}
PatchLabels == {"patch.load", "patch.update"}

Labels == {"idle", "create.insert", "patch.load", "patch.update", "delete.load",
           "delete.tombstone", "record.insert", "commit", "resolve.redirect", "resolve.page",
           "resolve.again"}

\* The shape of a handler's locals; an answer says whatever the matcher said.
Typed(f) ==
    f \in [pc : Labels, site : Sites \cup {None}, path : {f.path}, id : RedirectIds \cup {None},
           row : RedirectRow \cup {NoRow}, read : RedirectRow \cup {NoRow}, patch : {f.patch},
           officer : BOOLEAN, move : {<< >>} \cup (Pages \X Pages), get : BOOLEAN, bot : BOOLEAN,
           location : {f.location}, done : {f.done}, answer : {f.answer}]

\* What a handler with locals f relies on, over the redirect table t.
Local(f, t) ==
    /\ f.pc \in InsertLabels => f.read # NoRow /\ f.read.from.absolute
    /\ f.pc \in PatchLabels \cup {"delete.load", "delete.tombstone"} => f.id \in RedirectIds
    /\ f.pc \in PatchLabels => f.patch \in Patches
    /\ f.pc = "patch.update" =>
         LET new == Patched(f.read, f.patch) IN
         f.read # NoRow /\ Validate(new.kind, new.from, new.to) = "Ok"
    /\ f.pc = "delete.tombstone" => t[f.id] # NoRow
    /\ f.row # NoRow => f.pc = "commit" /\ f.id \in RedirectIds /\ f.row.from.absolute

TablesTyped ==
    /\ redirects \in [RedirectIds -> RedirectRow \cup {NoRow}]
    /\ \A i \in RedirectIds : redirects[i] # NoRow => redirects[i].from.absolute
    /\ served \subseteq Pages
    /\ tx = [q \in Procs |-> tx[q]]
    /\ \A q \in Procs : Typed(tx[q]) /\ Local(tx[q], redirects)

\* Two open transactions never write the same row.
RowsExclusive ==
    \A q, x \in Procs : q # x /\ tx[q].row # NoRow /\ tx[x].row # NoRow => tx[q].id # tx[x].id

\* No two rows collide, committed or pending, whichever transactions commit.
IndexSafe ==
    /\ \A i, j \in RedirectIds : i # j => ~Collide(redirects[i], redirects[j])
    /\ \A i \in RedirectIds, q \in Procs :
         tx[q].row # NoRow /\ tx[q].id # i => ~Collide(redirects[i], tx[q].row)
    /\ \A q, x \in Procs :
         /\ q # x /\ tx[q].row # NoRow /\ tx[x].row # NoRow
         => ~Collide(tx[q].row, tx[x].row)

\* The inductive invariant.
Safe == TablesTyped /\ RowsExclusive /\ IndexSafe

\* Request p goes on with the locals f.
Moves(p, f) == Typed(f) /\ Local(f, redirects) /\ tx' = [tx EXCEPT ![p] = f]

\* The request has written nothing.
Reads(p, f) == Moves(p, f) /\ f.row = NoRow /\ StoreKept

\* It has written row f.row at f.id, past the row lock and the unique index.
Writes(p, f) ==
    /\ Moves(p, f) /\ f.row # NoRow /\ StoreKept
    /\ ~Waits(p, f.id, f.row) /\ ~Conflicts(f.id, f.row)

\* Collisions are symmetric.
LEMMA CollideSymmetric ==
    ASSUME NEW r, NEW s, Collide(r, s)
    PROVE  Collide(s, r)
  BY DEF Collide

\* The locals after a step: the mover's new ones, everybody else's old ones.
LEMMA MovedLocals ==
    ASSUME Safe, NEW p \in Procs, NEW f, tx' = [tx EXCEPT ![p] = f]
    PROVE  /\ tx' = [q \in Procs |-> tx'[q]]
           /\ tx'[p] = f
           /\ \A q \in Procs : q # p => tx'[q] = tx[q]
  BY DEF Safe, TablesTyped

\* A statement that only reads keeps the invariant.
LEMMA ReadKeeps ==
    ASSUME Safe, NEW p \in Procs, NEW f, Reads(p, f)
    PROVE  Safe'
  <1>1. /\ redirects' = redirects /\ served' = served
        /\ f.row = NoRow /\ Typed(f) /\ Local(f, redirects)
    BY DEF Reads, Moves, StoreKept
  <1>2. /\ tx' = [q \in Procs |-> tx'[q]]
        /\ tx'[p] = f /\ \A q \in Procs : q # p => tx'[q] = tx[q]
    BY MovedLocals DEF Reads, Moves
  <1>3. \A q \in Procs : Typed(tx'[q]) /\ Local(tx'[q], redirects)
    BY <1>1, <1>2 DEF Safe, TablesTyped
  <1>4. TablesTyped'
    BY <1>1, <1>2, <1>3 DEF Safe, TablesTyped
  <1>5. \A q \in Procs : tx'[q].row # NoRow => tx'[q] = tx[q]
    BY <1>1, <1>2
  <1>6. RowsExclusive' /\ IndexSafe'
    BY <1>1, <1>5 DEF Safe, RowsExclusive, IndexSafe
  <1> QED
    BY <1>4, <1>6 DEF Safe

\* A statement that writes one row keeps the invariant.
LEMMA WriteKeeps ==
    ASSUME Safe, NEW p \in Procs, NEW f, Writes(p, f)
    PROVE  Safe'
  <1>1. /\ redirects' = redirects /\ served' = served
        /\ f.row # NoRow /\ Typed(f) /\ Local(f, redirects) /\ f.id \in RedirectIds
        /\ ~Waits(p, f.id, f.row) /\ ~Conflicts(f.id, f.row)
    BY DEF Writes, Moves, StoreKept, Local
  <1>2. /\ tx' = [q \in Procs |-> tx'[q]]
        /\ tx'[p] = f /\ \A q \in Procs : q # p => tx'[q] = tx[q]
    BY MovedLocals DEF Writes, Moves
  <1>3. \A q \in Procs : Typed(tx'[q]) /\ Local(tx'[q], redirects)
    BY <1>1, <1>2 DEF Safe, TablesTyped
  <1>4. TablesTyped'
    BY <1>1, <1>2, <1>3 DEF Safe, TablesTyped
  <1>5. \A q \in Procs : q # p /\ tx[q].row # NoRow =>
          tx[q].id # f.id /\ ~Collide(f.row, tx[q].row)
    BY <1>1 DEF Waits, Others
  <1>6. \A j \in RedirectIds : j # f.id => ~Collide(f.row, redirects[j])
    BY <1>1 DEF Conflicts
  <1>7. RowsExclusive'
    BY <1>2, <1>5 DEF Safe, RowsExclusive
  <1>8. IndexSafe'
    BY <1>1, <1>2, <1>5, <1>6, CollideSymmetric DEF Safe, IndexSafe
  <1> QED
    BY <1>4, <1>7, <1>8 DEF Safe

\* Idle locals are typed and rely on nothing.
LEMMA IdleLocal ==
    ASSUME NEW a, NEW t
    PROVE  Typed(Idle(a)) /\ Local(Idle(a), t) /\ Idle(a).row = NoRow
  <1>1. Typed(Idle(a))
    BY DEF Idle, Typed, Labels
  <1>2. Local(Idle(a), t)
    BY DEF Idle, Local, InsertLabels, PatchLabels
  <1> QED
    BY <1>1, <1>2 DEF Idle

\* A handler that answers at once.
LEMMA ReturnKeeps ==
    ASSUME Safe, NEW p \in Procs, NEW a, Return(p, a), StoreKept
    PROVE  Safe'
  <1>1. Reads(p, Idle(a))
    BY IdleLocal DEF Return, Reads, Moves
  <1> QED
    BY <1>1, ReadKeeps

\* What a patch makes of a row: the columns it names, and the others as they were.
LEMMA PatchedRow ==
    ASSUME NEW row \in RedirectRow, NEW patch \in Patches
    PROVE  /\ Patched(row, patch) \in RedirectRow
           /\ Patched(row, patch).from = IF "from" \in DOMAIN patch THEN patch.from ELSE row.from
  <1> DEFINE Of(c) == IF c \in DOMAIN patch THEN patch[c] ELSE row[c]
             new == [site |-> row.site, from |-> Of("from"), kind |-> Of("kind"), to |-> Of("to"),
                     live |-> row.live]
  <1>1. /\ "site" \notin DOMAIN patch /\ "live" \notin DOMAIN patch
        /\ "from" \in DOMAIN patch => patch.from \in Urls
        /\ "kind" \in DOMAIN patch => patch.kind \in Kinds
        /\ "to" \in DOMAIN patch => patch.to \in Urls \cup {None}
    BY DEF Patches, Kinds
  <1>2. DOMAIN row = {"site", "from", "kind", "to", "live"}
    BY DEF RedirectRow
  <1>3. Patched(row, patch) = new
    BY <1>1, <1>2 DEF Patched
  <1>4. new \in RedirectRow
    BY <1>1 DEF RedirectRow
  <1> QED
    BY <1>3, <1>4

\* Validation admits only urls that start with a slash.
LEMMA ValidAbsolute ==
    ASSUME NEW kind, NEW from, NEW to, Validate(kind, from, to) = "Ok"
    PROVE  from.absolute
  BY DEF Validate
-----------------------------------------------------------------------------
\* The statements.

\* A handler that goes on with the locals g to a label, having written nothing.
LEMMA GotoReads ==
    ASSUME NEW p \in Procs, NEW g, NEW label \in Labels, Goto(p, g, label), StoreKept, Typed(g),
           g.row = NoRow, Local([g EXCEPT !.pc = label], redirects)
    PROVE  Reads(p, [g EXCEPT !.pc = label])
  <1>1. Typed([g EXCEPT !.pc = label]) /\ [g EXCEPT !.pc = label].row = NoRow
    BY DEF Typed
  <1> QED
    BY <1>1 DEF Reads, Moves, Goto

\* A statement that writes row r at the primary key i, on its way to the commit.
LEMMA WriteWrites ==
    ASSUME Safe, NEW p \in Procs, NEW i \in RedirectIds, NEW r \in RedirectRow, NEW done,
           r.from.absolute, Write(p, i, r, done), StoreKept
    PROVE  Safe'
  <1> DEFINE g == [tx[p] EXCEPT !.id = i, !.row = r, !.done = done]
             f == [g EXCEPT !.pc = "commit"]
  <1>1. Typed(tx[p]) /\ r # NoRow
    BY NoRowAssumption DEF Safe, TablesTyped
  <1>2. f.pc = "commit" /\ f.id = i /\ f.row = r /\ Typed(f)
    BY <1>1 DEF Typed, Labels
  <1>3. tx' = [tx EXCEPT ![p] = f] /\ ~Waits(p, i, r) /\ ~Conflicts(i, r)
    BY DEF Write, Goto
  <1> HIDE DEF f, g
  <1>4. Local(f, redirects)
    BY <1>2 DEF Local, InsertLabels, PatchLabels
  <1>5. Writes(p, f)
    BY <1>1, <1>2, <1>3, <1>4 DEF Writes, Moves
  <1> QED
    BY <1>5, WriteKeeps

\* The INSERTs of create, record and rename.
LEMMA InsertKeeps ==
    ASSUME Safe, NEW p \in Procs, InsertCreated(p) \/ InsertRecorded(p)
    PROVE  Safe'
  <1> DEFINE row == tx[p].read
  <1>1. /\ tx[p].pc \in InsertLabels /\ Unused # {} /\ StoreKept
        /\ \/ \E done : Write(p, NewId, row, done)
           \/ \E a : Return(p, a)
           \/ \E done : Goto(p, [tx[p] EXCEPT !.done = done], "commit")
    BY DEF InsertCreated, InsertRecorded, At, InsertLabels
  <1>2. Typed(tx[p]) /\ Local(tx[p], redirects)
    BY DEF Safe, TablesTyped
  <1>3. row \in RedirectRow /\ row.from.absolute /\ tx[p].row = NoRow
    BY <1>1, <1>2 DEF Typed, Local, InsertLabels
  <1>4. NewId \in RedirectIds
    BY <1>1 DEF NewId, Unused
  <1>5. ASSUME NEW done, Goto(p, [tx[p] EXCEPT !.done = done], "commit")
        PROVE  Safe'
    <2> DEFINE g == [tx[p] EXCEPT !.done = done]
    <2>1. Typed(g) /\ g.row = NoRow
      BY <1>2, <1>3 DEF Typed
    <2>2. [g EXCEPT !.pc = "commit"].pc = "commit" /\ [g EXCEPT !.pc = "commit"].row = NoRow
      BY <2>1 DEF Typed
    <2> HIDE DEF g
    <2>3. Local([g EXCEPT !.pc = "commit"], redirects)
      BY <2>2 DEF Local, InsertLabels, PatchLabels
    <2>4. Reads(p, [g EXCEPT !.pc = "commit"])
      BY <1>1, <1>5, <2>1, <2>3, GotoReads DEF g, Labels
    <2> QED
      BY <2>4, ReadKeeps
  <1> QED
    BY <1>1, <1>3, <1>4, <1>5, WriteWrites, ReturnKeeps

\* The read of a patch: what it goes on with has been validated.
LEMMA PatchLoadKeeps ==
    ASSUME Safe, NEW p \in Procs, PatchLoad(p)
    PROVE  Safe'
  <1> DEFINE i == tx[p].id
             new == Patched(redirects[i], tx[p].patch)
             g == [tx[p] EXCEPT !.read = redirects[i]]
             f == [g EXCEPT !.pc = "patch.update"]
  <1>1. Typed(tx[p]) /\ Local(tx[p], redirects) /\ tx[p].pc = "patch.load" /\ StoreKept
    BY DEF Safe, TablesTyped, PatchLoad, At
  <1>2. i \in RedirectIds /\ tx[p].patch \in Patches /\ tx[p].row = NoRow
    BY <1>1 DEF Local, PatchLabels
  <1>3. CASE \E a : Return(p, a)
    BY <1>1, <1>3, ReturnKeeps
  <1>4. CASE Live(i) /\ Validate(new.kind, new.from, new.to) = "Ok" /\ Goto(p, g, "patch.update")
    <2>1. redirects[i] \in RedirectRow /\ redirects[i] # NoRow
      BY <1>2, <1>4 DEF Live, Safe, TablesTyped
    <2>2. Typed(g) /\ g.row = NoRow
      BY <1>1, <1>2, <2>1 DEF Typed
    <2>3. /\ f.pc = "patch.update" /\ f.read = redirects[i] /\ f.id = i
          /\ f.patch = tx[p].patch /\ f.row = NoRow
      BY <1>1, <1>2 DEF Typed
    <2>4. Local(f, redirects)
      BY <1>2, <1>4, <2>1, <2>3 DEF Local, InsertLabels, PatchLabels
    <2>5. Reads(p, f)
      BY <1>1, <1>4, <2>2, <2>4, GotoReads DEF Labels
    <2> QED
      BY <2>5, ReadKeeps
  <1> QED
    BY <1>3, <1>4 DEF PatchLoad

\* The UPDATE of a patch writes a row whose url still starts with a slash.
LEMMA PatchUpdateKeeps ==
    ASSUME Safe, NEW p \in Procs, PatchUpdate(p)
    PROVE  Safe'
  <1> DEFINE f == tx[p]
             i == f.id
             new == Patched(redirects[i], f.patch)
  <1>1. Typed(f) /\ Local(f, redirects) /\ f.pc = "patch.update" /\ StoreKept
    BY DEF Safe, TablesTyped, PatchUpdate, At
  <1>2. /\ i \in RedirectIds /\ f.patch \in Patches
        /\ f.read \in RedirectRow /\ Patched(f.read, f.patch).from.absolute
    BY <1>1, ValidAbsolute DEF Local, PatchLabels, Typed
  <1>3. CASE \E a : Return(p, a)
    BY <1>1, <1>3, ReturnKeeps
  <1>4. CASE Live(i) /\ Write(p, i, new, "Patched")
    <2>1. redirects[i] \in RedirectRow /\ redirects[i].from.absolute
      BY <1>2, <1>4 DEF Live, Safe, TablesTyped
    <2>2. new \in RedirectRow /\ new.from.absolute
      BY <1>2, <2>1, PatchedRow
    <2> QED
      BY <1>1, <1>2, <1>4, <2>2, WriteWrites
  <1> QED
    BY <1>3, <1>4 DEF PatchUpdate

\* The statements of a delete.
LEMMA DeleteKeeps ==
    ASSUME Safe, NEW p \in Procs, DeleteLoad(p) \/ DeleteTombstone(p)
    PROVE  Safe'
  <1> DEFINE f == tx[p]
             i == f.id
  <1>1. Typed(f) /\ Local(f, redirects) /\ StoreKept
    BY DEF Safe, TablesTyped, DeleteLoad, DeleteTombstone
  <1>2. CASE \E a : Return(p, a)
    BY <1>1, <1>2, ReturnKeeps
  <1>3. CASE f.pc = "delete.load" /\ Live(i) /\ Goto(p, f, "delete.tombstone")
    <2>1. i \in RedirectIds /\ f.row = NoRow /\ redirects[i] # NoRow
      BY <1>1, <1>3 DEF Local, Live
    <2>2. /\ [f EXCEPT !.pc = "delete.tombstone"].pc = "delete.tombstone"
          /\ [f EXCEPT !.pc = "delete.tombstone"].id = i
          /\ [f EXCEPT !.pc = "delete.tombstone"].row = NoRow
      BY <1>1, <2>1 DEF Typed
    <2>3. Local([f EXCEPT !.pc = "delete.tombstone"], redirects)
      BY <2>1, <2>2 DEF Local, InsertLabels, PatchLabels
    <2>4. Reads(p, [f EXCEPT !.pc = "delete.tombstone"])
      BY <1>1, <1>3, <2>1, <2>3, GotoReads DEF Labels
    <2> QED
      BY <2>4, ReadKeeps
  <1>4. CASE /\ f.pc = "delete.tombstone"
             /\ Write(p, i, [redirects[i] EXCEPT !.live = FALSE], "Deleted")
    <2>1. i \in RedirectIds /\ redirects[i] # NoRow
      BY <1>1, <1>4 DEF Local
    <2>2. redirects[i] \in RedirectRow /\ redirects[i].from.absolute
      BY <2>1 DEF Safe, TablesTyped
    <2>3. /\ [redirects[i] EXCEPT !.live = FALSE] \in RedirectRow
          /\ [redirects[i] EXCEPT !.live = FALSE].from = redirects[i].from
      BY <2>2 DEF RedirectRow
    <2> QED
      BY <1>1, <1>4, <2>1, <2>2, <2>3, WriteWrites
  <1> QED
    BY <1>2, <1>3, <1>4 DEF DeleteLoad, DeleteTombstone, At

\* Reading for a visitor.
LEMMA ResolveKeeps ==
    ASSUME Safe, NEW p \in Procs, ResolveRedirect(p) \/ ResolvePage(p) \/ ResolveAgain(p)
    PROVE  Safe'
  <1> DEFINE f == tx[p]
  <1>1. Typed(f) /\ Local(f, redirects) /\ StoreKept
    BY DEF Safe, TablesTyped, ResolveRedirect, ResolvePage, ResolveAgain
  <1>2. f.row = NoRow
    BY <1>1 DEF ResolveRedirect, ResolvePage, ResolveAgain, At, Local
  <1>3. ASSUME NEW g, Typed(g), g.row = NoRow, NEW label \in {"resolve.page", "resolve.again"},
               Goto(p, g, label)
        PROVE  Safe'
    <2>1. [g EXCEPT !.pc = label].pc = label /\ [g EXCEPT !.pc = label].row = NoRow
      BY <1>3 DEF Typed
    <2>2. Local([g EXCEPT !.pc = label], redirects)
      BY <2>1 DEF Local, InsertLabels, PatchLabels
    <2>3. Reads(p, [g EXCEPT !.pc = label])
      BY <1>1, <1>3, <2>2, GotoReads DEF Labels
    <2> QED
      BY <2>3, ReadKeeps
  <1>4. CASE ResolveRedirect(p)
    <2> DEFINE row == RowFor(f.site, f.path)
    <2>1. row \in RedirectRow \cup {NoRow}
      BY DEF RowFor, Safe, TablesTyped
    <2>2. Typed([f EXCEPT !.read = row]) /\ [f EXCEPT !.read = row].row = NoRow
      BY <1>1, <1>2, <2>1 DEF Typed
    <2>3. Goto(p, [f EXCEPT !.read = row], "resolve.page")
      BY <1>4 DEF ResolveRedirect
    <2> HIDE DEF row
    <2> QED
      BY <1>3, <2>2, <2>3
  <1>5. CASE ResolvePage(p)
    <2>1. CASE Goto(p, [f EXCEPT !.done = "serve"], "resolve.again")
      <3>1. Typed([f EXCEPT !.done = "serve"]) /\ [f EXCEPT !.done = "serve"].row = NoRow
        BY <1>1, <1>2 DEF Typed
      <3> QED
        BY <1>3, <2>1, <3>1
    <2>2. CASE \E a, to : tx' = [tx EXCEPT ![p] = [Idle(a) EXCEPT !.location = to]]
      <3>1. PICK a, to : tx' = [tx EXCEPT ![p] = [Idle(a) EXCEPT !.location = to]]
        BY <2>2
      <3> DEFINE g == [Idle(a) EXCEPT !.location = to]
      <3>2. Typed(Idle(a))
        BY IdleLocal
      <3>3. Typed(g) /\ g.pc = "idle" /\ g.row = NoRow
        BY <3>2 DEF Typed, Idle
      <3>4. Local(g, redirects)
        BY <3>3 DEF Local, InsertLabels, PatchLabels
      <3>5. Reads(p, g)
        BY <1>1, <3>1, <3>3, <3>4 DEF Reads, Moves
      <3> QED
        BY <3>5, ReadKeeps
    <2> QED
      BY <1>5, <2>1, <2>2 DEF ResolvePage
  <1>6. CASE ResolveAgain(p)
    BY <1>1, <1>6, ReturnKeeps DEF ResolveAgain
  <1> QED
    BY <1>4, <1>5, <1>6

\* A commit puts a pending version in force.
LEMMA CommitKeeps ==
    ASSUME Safe, NEW p \in Procs, Commit(p)
    PROVE  Safe'
  <1> DEFINE f == tx[p]
  <1>1. Typed(f) /\ Local(f, redirects)
    BY DEF Safe, TablesTyped
  <1>2. PICK a : tx' = [tx EXCEPT ![p] = Idle(a)]
    BY DEF Commit, Return
  <1>3. /\ redirects \in [RedirectIds -> RedirectRow \cup {NoRow}]
        /\ redirects' = IF f.row = NoRow THEN redirects ELSE [redirects EXCEPT ![f.id] = f.row]
        /\ f.row # NoRow => f.id \in RedirectIds /\ f.row \in RedirectRow /\ f.row.from.absolute
    BY <1>1 DEF Commit, Local, Typed, Safe, TablesTyped
  <1>4. /\ redirects' \in [RedirectIds -> RedirectRow \cup {NoRow}]
        /\ \A i \in RedirectIds :
             redirects'[i] = IF f.row # NoRow /\ f.id = i THEN f.row ELSE redirects[i]
    BY <1>3
  <1>5. /\ tx' = [q \in Procs |-> tx'[q]]
        /\ tx'[p] = Idle(a) /\ \A q \in Procs : q # p => tx'[q] = tx[q]
    BY <1>2, MovedLocals
  <1>6. \A q \in Procs : Typed(tx'[q]) /\ Local(tx'[q], redirects')
    <2>1. \A q \in Procs : q # p => Typed(tx[q]) /\ Local(tx[q], redirects)
      BY DEF Safe, TablesTyped
    <2>2. \A i \in RedirectIds : redirects[i] # NoRow => redirects'[i] # NoRow
      BY <1>4
    <2>3. \A q \in Procs : q # p => Local(tx[q], redirects')
      BY <2>1, <2>2 DEF Local
    <2> QED
      BY <1>5, <2>1, <2>3, IdleLocal
  <1>7. served' \subseteq Pages
    <2>1. served \subseteq Pages /\ (f.move # << >> => f.move[2] \in Pages)
      BY <1>1 DEF Typed, Safe, TablesTyped
    <2> QED
      BY <2>1 DEF Commit
  <1>8. \A i \in RedirectIds : redirects'[i] # NoRow => redirects'[i].from.absolute
    BY <1>3, <1>4 DEF Safe, TablesTyped
  <1>9. TablesTyped'
    BY <1>4, <1>5, <1>6, <1>7, <1>8 DEF TablesTyped
  <1>10. Idle(a).row = NoRow
    BY IdleLocal
  <1>11. \A q \in Procs : tx'[q].row # NoRow => q # p /\ tx'[q] = tx[q]
    BY <1>5, <1>10
  <1>12. RowsExclusive'
    BY <1>11 DEF Safe, RowsExclusive
  <1>13. IndexSafe'
    <2>1. \A i, j \in RedirectIds : i # j => ~Collide(redirects'[i], redirects'[j])
      BY <1>4, CollideSymmetric DEF Safe, IndexSafe
    <2>2. \A i \in RedirectIds, q \in Procs :
            tx'[q].row # NoRow /\ tx'[q].id # i => ~Collide(redirects'[i], tx'[q].row)
      BY <1>4, <1>11 DEF Safe, IndexSafe
    <2>3. \A q, x \in Procs :
            /\ q # x /\ tx'[q].row # NoRow /\ tx'[x].row # NoRow
            => ~Collide(tx'[q].row, tx'[x].row)
      BY <1>11 DEF Safe, IndexSafe
    <2> QED
      BY <2>1, <2>2, <2>3 DEF IndexSafe
  <1> QED
    BY <1>9, <1>12, <1>13 DEF Safe

\* A call that starts with the locals g.
LEMMA StartKeeps ==
    ASSUME Safe, NEW p \in Procs, NEW g, Typed(g), g.row = NoRow, NEW label \in Labels,
           Goto(p, g, label), StoreKept,
           label \in InsertLabels => g.read # NoRow /\ g.read.from.absolute,
           label \in {"patch.load", "delete.load"} => g.id \in RedirectIds,
           label = "patch.load" => g.patch \in Patches,
           label \notin {"patch.update", "delete.tombstone"}
    PROVE  Safe'
  <1> DEFINE f == [g EXCEPT !.pc = label]
  <1>1. /\ f.pc = label /\ f.read = g.read /\ f.id = g.id /\ f.patch = g.patch
        /\ f.row = NoRow
    BY DEF Typed
  <1> HIDE DEF f
  <1>2. Local(f, redirects)
    BY <1>1 DEF Local, InsertLabels, PatchLabels
  <1>3. Reads(p, f)
    BY <1>2, GotoReads DEF f
  <1> QED
    BY <1>3, ReadKeeps

\* Every call starts well: what it will insert has been validated.
LEMMA BeginKeeps ==
    ASSUME Safe, NEW p \in Procs, Begin(p)
    PROVE  Safe'
  <1> DEFINE idle == Idle("none")
  <1>1. StoreKept
    BY DEF Begin
  <1>2. Typed(idle) /\ idle.row = NoRow
    BY IdleLocal
  <1>3. CASE \E a : Return(p, a)
    BY <1>1, <1>3, ReturnKeeps
  <1>4. ASSUME NEW g, Typed(g), g.row = NoRow, g.read # NoRow, g.read.from.absolute,
               NEW label \in InsertLabels, Goto(p, g, label)
        PROVE  Safe'
    <2>1. label \in Labels \ {"patch.load", "delete.load", "patch.update", "delete.tombstone"}
      BY DEF InsertLabels, Labels
    <2> QED
      BY <1>1, <1>4, <2>1, StartKeeps
  <1>5. ASSUME NEW row \in RedirectRow, row.from.absolute, NEW label \in InsertLabels,
               Goto(p, [idle EXCEPT !.read = row], label)
        PROVE  Safe'
    <2> DEFINE g == [idle EXCEPT !.read = row]
    <2>1. Typed(g) /\ g.row = NoRow /\ g.read = row /\ row # NoRow
      BY <1>2, <1>5, NoRowAssumption DEF Typed
    <2> HIDE DEF g
    <2>2. Goto(p, g, label)
      BY <1>5 DEF g
    <2> QED
      BY <1>4, <1>5, <2>1, <2>2
  <1>6. CASE BeginCreate(p) /\ ~\E a : Return(p, a)
    <2>1. PICK site \in Sites, kind \in Kinds, from \in Urls, to \in Urls \cup {None} :
            /\ Validate(kind, from, to) = "Ok"
            /\ Goto(p, [idle EXCEPT !.read = [site |-> site, from |-> from, kind |-> kind,
                                              to |-> to, live |-> TRUE]], "create.insert")
      BY <1>6 DEF BeginCreate
    <2> DEFINE row == [site |-> site, from |-> from, kind |-> kind, to |-> to, live |-> TRUE]
    <2>2. row \in RedirectRow /\ row.from.absolute
      BY <2>1, ValidAbsolute DEF RedirectRow
    <2> QED
      BY <1>5, <2>1, <2>2 DEF InsertLabels
  <1>7. CASE BeginRecord(p) /\ ~\E a : Return(p, a)
    <2>1. PICK site \in Sites, kind \in Kinds, from \in Urls, to \in Urls \cup {None} :
            /\ Validate(kind, from, to) = "Ok"
            /\ Goto(p, [idle EXCEPT !.read = [site |-> site, from |-> from, kind |-> kind,
                                              to |-> to, live |-> TRUE]], "record.insert")
      BY <1>7 DEF BeginRecord
    <2> DEFINE row == [site |-> site, from |-> from, kind |-> kind, to |-> to, live |-> TRUE]
    <2>2. row \in RedirectRow /\ row.from.absolute
      BY <2>1, ValidAbsolute DEF RedirectRow
    <2> QED
      BY <1>5, <2>1, <2>2 DEF InsertLabels
  <1>8. CASE BeginRename(p)
    <2>1. PICK page \in served, new \in Paths :
            /\ SitePath(new) \in Urls /\ SitePath(page[2]) \in Urls
            /\ Goto(p, [idle EXCEPT !.read = [site |-> page[1], from |-> SitePath(page[2]),
                                              kind |-> "moved_301", to |-> SitePath(new),
                                              live |-> TRUE],
                                    !.move = <<page, <<page[1], new>>>>], "record.insert")
      BY <1>8 DEF BeginRename
    <2> DEFINE row == [site |-> page[1], from |-> SitePath(page[2]), kind |-> "moved_301",
                       to |-> SitePath(new), live |-> TRUE]
    <2>2. page \in Pages /\ page[1] \in Sites /\ <<page[1], new>> \in Pages
      BY DEF Safe, TablesTyped, Pages
    <2>3. row \in RedirectRow /\ row.from.absolute
      BY <2>1, <2>2 DEF RedirectRow, Kinds, SitePath
    <2> DEFINE g == [idle EXCEPT !.read = row, !.move = <<page, <<page[1], new>>>>]
    <2>4. Goto(p, g, "record.insert")
      BY <2>1
    <2> HIDE DEF row
    <2>5. Typed(g) /\ g.row = NoRow /\ g.read = row /\ row # NoRow
      BY <1>2, <2>2, <2>3, NoRowAssumption DEF Typed
    <2> HIDE DEF g
    <2> QED
      BY <1>4, <2>3, <2>4, <2>5 DEF InsertLabels
  <1>9. CASE BeginPatch(p)
    <2>1. PICK i \in RedirectIds, patch \in Patches, officer \in BOOLEAN :
            Goto(p, [idle EXCEPT !.id = i, !.patch = patch, !.officer = officer], "patch.load")
      BY <1>9 DEF BeginPatch
    <2> DEFINE g == [idle EXCEPT !.id = i, !.patch = patch, !.officer = officer]
    <2>2. Typed(g) /\ g.row = NoRow /\ g.id = i /\ g.patch = patch
      BY <1>2 DEF Typed
    <2> HIDE DEF g
    <2>3. Goto(p, g, "patch.load")
      BY <2>1 DEF g
    <2> QED
      BY <1>1, <2>2, <2>3, StartKeeps DEF Labels, InsertLabels
  <1>10. CASE BeginDelete(p)
    <2>1. PICK i \in RedirectIds, officer \in BOOLEAN :
            Goto(p, [idle EXCEPT !.id = i, !.officer = officer], "delete.load")
      BY <1>10 DEF BeginDelete
    <2> DEFINE g == [idle EXCEPT !.id = i, !.officer = officer]
    <2>2. Typed(g) /\ g.row = NoRow /\ g.id = i
      BY <1>2 DEF Typed
    <2> HIDE DEF g
    <2>3. Goto(p, g, "delete.load")
      BY <2>1 DEF g
    <2> QED
      BY <1>1, <2>2, <2>3, StartKeeps DEF Labels, InsertLabels
  <1>11. CASE BeginResolve(p)
    <2>1. PICK site \in Sites, path \in Asked, get \in BOOLEAN, bot \in BOOLEAN :
            Goto(p, [idle EXCEPT !.site = site, !.path = path, !.get = get, !.bot = bot],
                 "resolve.redirect")
      BY <1>11 DEF BeginResolve
    <2> DEFINE g == [idle EXCEPT !.site = site, !.path = path, !.get = get, !.bot = bot]
    <2>2. Typed(g) /\ g.row = NoRow
      BY <1>2 DEF Typed
    <2> HIDE DEF g
    <2>3. Goto(p, g, "resolve.redirect")
      BY <2>1 DEF g
    <2> QED
      BY <1>1, <2>2, <2>3, StartKeeps DEF Labels, InsertLabels
  <1> QED
    BY <1>3, <1>6, <1>7, <1>8, <1>9, <1>10, <1>11 DEF Begin

\* The other page verbs change no redirect.
LEMMA ToggleKeeps == Safe /\ Toggle => Safe'
  <1> SUFFICES ASSUME Safe, Toggle PROVE Safe'
    OBVIOUS
  <1>1. redirects' = redirects /\ tx' = tx
    BY DEF Toggle
  <1>2. served' \subseteq Pages
    <2>1. PICK site \in Sites, u \in Urls :
            served' = IF <<site, u.path>> \in served THEN served \ {<<site, u.path>>}
                      ELSE served \cup {<<site, u.path>>}
      BY DEF Toggle
    <2>2. <<site, u.path>> \in Pages
      BY UrlsAssumption DEF Pages, UrlType
    <2> QED
      BY <2>1, <2>2 DEF Safe, TablesTyped
  <1> QED
    BY <1>1, <1>2 DEF Safe, TablesTyped, RowsExclusive, IndexSafe

\* A start has no open transaction.
LEMMA InitSafe == Init => Safe
  <1> SUFFICES ASSUME Init PROVE Safe
    OBVIOUS
  <1>1. PICK s \in Starts : redirects = s.redirects /\ served = s.served
    BY DEF Init
  <1>2. tx = [q \in Procs |-> tx[q]] /\ \A q \in Procs : tx[q] = Idle("none")
    BY DEF Init
  <1>3. \A q \in Procs : Typed(tx[q]) /\ Local(tx[q], redirects) /\ tx[q].row = NoRow
    BY <1>2, IdleLocal
  <1>4. TablesTyped
    BY <1>1, <1>2, <1>3, StartsAssumption DEF TablesTyped, Pages
  <1>5. RowsExclusive /\ IndexSafe
    BY <1>1, <1>3, StartsAssumption DEF RowsExclusive, IndexSafe
  <1> QED
    BY <1>4, <1>5 DEF Safe

\* Every step keeps the invariant.
LEMMA NextSafe == Safe /\ [Next]_vars => Safe'
  <1> SUFFICES ASSUME Safe, [Next]_vars PROVE Safe'
    OBVIOUS
  <1>1. CASE UNCHANGED vars
    BY <1>1 DEF vars, Safe, TablesTyped, RowsExclusive, IndexSafe
  <1>2. ASSUME NEW p \in Procs, Step(p)
        PROVE  Safe'
    BY <1>2, InsertKeeps, PatchLoadKeeps, PatchUpdateKeeps, DeleteKeeps, ResolveKeeps,
       CommitKeeps, ReturnKeeps DEF Step, AuditFails, Lost
  <1> QED
    BY <1>1, <1>2, BeginKeeps, ToggleKeeps DEF Next

\* The invariant holds in every behaviour.
LEMMA SafeAlways == Spec => []Safe
  BY InitSafe, NextSafe, PTL DEF Spec

-----------------------------------------------------------------------------
\* What the invariant gives.

\* A path of a website has at most one redirect answer, whichever open transactions commit,
\* and no two of them write the same row.
THEOREM OneAnswerPerPath == Spec => []RoutingInv
  <1>1. Safe => RoutingInv
    <2> SUFFICES ASSUME Safe PROVE RoutingInv
      OBVIOUS
    <2>1. ASSUME NEW i \in RedirectIds, NEW j \in RedirectIds, i # j,
                 NEW r \in Versions(i), NEW s \in Versions(j)
          PROVE  ~Collide(r, s)
      <3>1. CASE r = NoRow \/ s = NoRow
        BY <3>1 DEF Collide
      <3>2. CASE r # NoRow /\ s # NoRow
        <4>1. r = redirects[i] \/ \E q \in Procs : tx[q].id = i /\ tx[q].row = r
          BY DEF Versions
        <4>2. s = redirects[j] \/ \E q \in Procs : tx[q].id = j /\ tx[q].row = s
          BY DEF Versions
        <4>3. IndexSafe
          BY DEF Safe
        <4>4. CASE r = redirects[i]
          BY <2>1, <3>2, <4>2, <4>3, <4>4 DEF IndexSafe
        <4>5. CASE s = redirects[j]
          BY <2>1, <3>2, <4>1, <4>3, <4>5, CollideSymmetric DEF IndexSafe
        <4>6. CASE r # redirects[i] /\ s # redirects[j]
          BY <2>1, <3>2, <4>1, <4>2, <4>3, <4>6 DEF IndexSafe
        <4> QED
          BY <4>4, <4>5, <4>6
      <3> QED
        BY <3>1, <3>2
    <2>2. \A p, q \in Procs : p # q /\ tx[p].row # NoRow /\ tx[q].row # NoRow =>
            tx[p].id # tx[q].id
      BY DEF Safe, RowsExclusive
    <2>3. (\A i \in RedirectIds : redirects[i] \in RedirectRow \cup {NoRow})
          /\ served \subseteq Sites \X Paths
      BY DEF Safe, TablesTyped, Pages
    <2> QED
      BY <2>1, <2>2, <2>3 DEF RoutingInv, Collide
  <1> QED
    BY <1>1, SafeAlways, PTL

\* A reader who asks for the url of a live redirect is sent along it, also when a page
\* stands there, and also when other rows are being written.
THEOREM RedirectsAnswer == Spec => []LiveRowsAnswer
  <1>1. Safe => LiveRowsAnswer
    <2> SUFFICES ASSUME Safe, NEW i \in RedirectIds, Live(i), redirects[i].from.names = NoNames,
                        Normal(redirects[i].from.path)
                 PROVE  ApplyMatcher(redirects[i].from.path, TRUE, FALSE,
                                     RowFor(redirects[i].site, redirects[i].from.path),
                                     <<redirects[i].site, redirects[i].from.path>> \in served)
                          = Reroute(redirects[i])
      BY DEF LiveRowsAnswer
    <2> DEFINE r == redirects[i]
               hits == {j \in RedirectIds : Live(j) /\ redirects[j].site = r.site
                                            /\ redirects[j].from = SitePath(r.from.path)}
    <2>1. r \in RedirectRow /\ r # NoRow /\ r.from.absolute /\ r.from \in UrlType
      BY UrlsAssumption DEF Safe, TablesTyped, Live, RedirectRow
    <2>2. r.from = SitePath(r.from.path)
      <3>1. r.from.absolute = TRUE
        BY <2>1 DEF UrlType
      <3> QED
        BY <2>1, <3>1 DEF SitePath, UrlType
    <2>3. \A j \in hits : j = i
      BY <2>1, <2>2 DEF Safe, IndexSafe, Collide, Live
    <2>4. i \in hits
      BY <2>2
    <2>5. RowFor(r.site, r.from.path) = r
      BY <2>3, <2>4 DEF RowFor
    <2> QED
      BY <2>1, <2>5 DEF ApplyMatcher, Normal
  <1> QED
    BY <1>1, SafeAlways, PTL

\* A patch that lands on the row it read leaves a row that validation admits.
THEOREM PatchesValidated == Spec => PatchValidatesResult
  <1>1. Safe /\ [Next]_vars =>
          [\A p \in Procs :
             (/\ tx[p].pc = "patch.update" /\ tx'[p].pc = "commit"
              /\ redirects[tx[p].id] = tx[p].read) =>
                LET r == tx'[p].row IN Validate(r.kind, r.from, r.to) = "Ok"]_vars
    <2> SUFFICES ASSUME Safe, [Next]_vars, NEW p \in Procs,
                        tx[p].pc = "patch.update", tx'[p].pc = "commit",
                        redirects[tx[p].id] = tx[p].read
                 PROVE  Validate(tx'[p].row.kind, tx'[p].row.from, tx'[p].row.to) = "Ok"
      OBVIOUS
    <2> DEFINE new == Patched(tx[p].read, tx[p].patch)
    <2>1. Typed(tx[p]) /\ Validate(new.kind, new.from, new.to) = "Ok"
      BY DEF Safe, TablesTyped, Local
    <2>2. \A q \in Procs : Begin(q) \/ Step(q) => q = p
      <3>1. ASSUME NEW q \in Procs, NEW f, tx' = [tx EXCEPT ![q] = f]
            PROVE  q = p
        BY <3>1, MovedLocals
      <3>2. \A q \in Procs : Begin(q) \/ Step(q) => \E f : tx' = [tx EXCEPT ![q] = f]
        <4>1. ASSUME NEW q \in Procs, Begin(q)
              PROVE  \E f : tx' = [tx EXCEPT ![q] = f]
          <5>1. (\E f, label : Goto(q, f, label)) \/ \E a : Return(q, a)
            BY <4>1 DEF Begin, BeginCreate, BeginPatch, BeginDelete, BeginRecord, BeginRename,
                        BeginResolve
          <5> QED
            BY <5>1 DEF Goto, Return
        <4>2. ASSUME NEW q \in Procs, Step(q)
              PROVE  \E f : tx' = [tx EXCEPT ![q] = f]
          BY <4>2 DEF Step, InsertCreated, PatchLoad, PatchUpdate, DeleteLoad, DeleteTombstone,
                      InsertRecorded, Commit, AuditFails, Lost, ResolveRedirect, ResolvePage,
                      ResolveAgain, Write, Goto, Return
        <4> QED
          BY <4>1, <4>2
      <3> QED
        BY <3>1, <3>2
    <2>3. \A a : Idle(a).pc = "idle"
      BY DEF Idle
    <2>4. PatchUpdate(p)
      <3>1. ~Lost(p)
        BY <2>3, MovedLocals DEF Lost, Return
      <3> QED
        BY <2>2, <3>1 DEF Next, vars, Toggle, Begin, Step, InsertCreated, PatchLoad, DeleteLoad,
                    DeleteTombstone, InsertRecorded, Commit, AuditFails, ResolveRedirect,
                    ResolvePage, ResolveAgain, At
    <2>5. Write(p, tx[p].id, new, "Patched")
      BY <2>3, <2>4, MovedLocals DEF PatchUpdate, Return
    <2>6. tx'[p].row = new
      <3> DEFINE g == [tx[p] EXCEPT !.id = tx[p].id, !.row = new, !.done = "Patched"]
      <3>1. tx'[p] = [g EXCEPT !.pc = "commit"]
        BY <2>5, MovedLocals DEF Write, Goto
      <3>2. [g EXCEPT !.pc = "commit"].row = new
        BY <2>1 DEF Typed
      <3> QED
        BY <3>1, <3>2
    <2> QED
      BY <2>1, <2>6
  <1> QED
    BY <1>1, SafeAlways, PTL DEF Spec, PatchValidatesResult
=============================================================================
