------------------------------ MODULE RowStore ------------------------------
(***************************************************************************)
(* Postgres as the services use it: one READ COMMITTED transaction per     *)
(* verb (sqlx `pool.begin()` ... `tx.commit()`).                           *)
(*                                                                         *)
(* `db` is the committed state.  `ws[p]` holds the row versions that the   *)
(* open transaction of p has written: a written row is locked by p until   *)
(* it ends.  A statement of p sees the committed state overlaid with p's   *)
(* own versions (View), taken when the statement runs.  A write waits for  *)
(* a row lock and for any open transaction that may decide a unique-index  *)
(* conflict with it; once nothing is undecided the conflict is definite.   *)
(***************************************************************************)
EXTENDS Schema

CONSTANT Procs   \* concurrent requests, one database connection each

VARIABLES db, ws

storeVars == <<db, ws>>

NoWrites == [i \in Id |-> NoRow]

\* What a statement of p reads.
View(p) == [i \in Id |-> IF ws[p][i] # NoRow THEN ws[p][i] ELSE db[i]]

\* A write set gives a row version to each primary key of its domain.
Overlay(t, w) == [i \in Id |-> IF i \in DOMAIN w THEN w[i] ELSE t[i]]

\* The write set of a statement that writes row r at the primary key i.
Version(i, r) == [j \in {i} |-> r]

\* The statement has to wait: a row is locked, or a conflict is still undecided.
Waits(p, w) ==
    \E i \in DOMAIN w, q \in Procs \ {p} :
        \/ ws[q][i] # NoRow
        \/ \E j \in Id : /\ ws[q][j] # NoRow
                         /\ \/ Collide(i, w[i], j, ws[q][j])
                            \/ Collide(i, w[i], j, db[j])

\* The statement meets a unique-index conflict.
Conflicts(p, w) ==
    \E i \in DOMAIN w, j \in Id : Collide(i, w[i], j, Overlay(View(p), w)[j])

\* The statement takes effect in the transaction of p.
Write(p, w) ==
    /\ ~Waits(p, w) /\ ~Conflicts(p, w)
    /\ ws' = [ws EXCEPT ![p] = Overlay(ws[p], w)]
    /\ db' = db

\* INSERT ... ON CONFLICT DO NOTHING, or a unique violation the verb answers.
Refused(p, w) ==
    /\ ~Waits(p, w) /\ Conflicts(p, w)
    /\ UNCHANGED storeVars

CommitTx(p) ==
    /\ db' = View(p)
    /\ ws' = [ws EXCEPT ![p] = NoWrites]

RollbackTx(p) ==
    /\ ws' = [ws EXCEPT ![p] = NoWrites]
    /\ db' = db
-----------------------------------------------------------------------------
StoreTypeOK ==
    /\ TableState(db)
    /\ ws \in [Procs -> [Id -> Row \cup {NoRow}]]
    /\ \A p \in Procs : TableState(ws[p])

\* Row locks: two open transactions never hold versions of the same row.
LocksExclusive ==
    \A p, q \in Procs : p # q => \A i \in Id : ws[p][i] = NoRow \/ ws[q][i] = NoRow

\* Whatever subset of the open transactions commits, in whatever order, the
\* indexes stay free of duplicates.
IndexesSafe ==
    /\ CollisionFree(db)
    /\ \A p \in Procs : CollisionFree(View(p))
    /\ \A p, q \in Procs : p # q =>
         \A i, j \in Id : ~Collide(i, ws[p][i], j, ws[q][j])
=============================================================================
