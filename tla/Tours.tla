------------------------------- MODULE Tours -------------------------------
(***************************************************************************)
(* Tour persistence (tour_service.rs): definitions that are unique by name *)
(* among the live ones, and the facts that a principal consumed one.       *)
(*                                                                         *)
(* An open transaction holds what it has written in its locals: the tour   *)
(* row `id`/`row`, the fact `adds` and the facts `drops`.  A fact carries  *)
(* the number of the call that wrote it as its consumed_at.                *)
(***************************************************************************)
EXTENDS Naturals

CONSTANTS TourIds, Names, Users, Procs, MaxCalls, NoRow, None

VARIABLES tours, facts, tx, calls

vars == <<tours, facts, tx, calls>>

TourRow == [name : Names, rev : 0..MaxCalls, live : BOOLEAN]
Pairs == TourIds \X Users
Stamps == 0..MaxCalls

ASSUME MaxCallsAssumption == MaxCalls \in Nat
ASSUME NoRowAssumption == NoRow \notin TourRow
ASSUME NoneAssumption == None \notin TourIds /\ None \notin Pairs /\ None \notin Stamps

Idle(a) == [pc |-> "idle", name |-> None, user |-> None, rev |-> 0, tour |-> None, id |-> None,
            row |-> NoRow, adds |-> None, drops |-> {}, done |-> "none", answer |-> a]

Live(t) == tours[t] # NoRow /\ tours[t].live
ByName(n) == {t \in TourIds : Live(t) /\ tours[t].name = n}
Others(p) == Procs \ {p}

At(p, label) == tx[p].pc = label /\ UNCHANGED calls
Goto(p, frame, label) == tx' = [tx EXCEPT ![p] = [frame EXCEPT !.pc = label]]
Finish(p, frame, a) == Goto(p, [frame EXCEPT !.done = a], "commit")
Return(p, a) == tx' = [tx EXCEPT ![p] = Idle(a)] /\ UNCHANGED <<tours, facts>>

\* A live definition, consumed by everybody at the very start.
Init ==
    /\ LET t == CHOOSE i \in TourIds : TRUE
       IN  \E n \in Names, who \in SUBSET Users :
             /\ tours = [i \in TourIds |-> IF i = t THEN [name |-> n, rev |-> 0, live |-> TRUE] ELSE NoRow]
             /\ facts = [f \in Pairs |-> IF f[1] = t /\ f[2] \in who THEN 0 ELSE None]
    /\ tx = [p \in Procs |-> Idle("none")]
    /\ calls = MaxCalls

\* Another open transaction holds the row of that name, or has one of that name pending.
NameHeld(p, n) ==
    \E q \in Others(p) : /\ tx[q].row # NoRow
                         /\ \/ tx[q].row.name = n
                            \/ tours[tx[q].id] # NoRow /\ tours[tx[q].id].name = n

Unused == {t \in TourIds : tours[t] = NoRow /\ \A q \in Procs : tx[q].id # t}
NewId == CHOOSE t \in Unused : TRUE

\* A wrong variant: no conflict target.
InsertingUpsert(p) ==
    /\ At(p, "upsert") /\ Unused # {}
    /\ Finish(p, [tx[p] EXCEPT !.id = NewId,
                   !.row = [name |-> tx[p].name, rev |-> tx[p].rev, live |-> TRUE]], "Upserted")
    /\ UNCHANGED <<tours, facts>>

\* INSERT .. ON CONFLICT (name) over live rows DO UPDATE.
Upsert(p) ==
    /\ At(p, "upsert") /\ ~NameHeld(p, tx[p].name)
    /\ LET old == ByName(tx[p].name)
           row == [name |-> tx[p].name, rev |-> tx[p].rev, live |-> TRUE]
       IN  \/ \E t \in old : Finish(p, [tx[p] EXCEPT !.id = t, !.row = row], "Upserted")
           \/ /\ old = {} /\ Unused # {}
              /\ Finish(p, [tx[p] EXCEPT !.id = NewId, !.row = row], "Upserted")
    /\ UNCHANGED <<tours, facts>>

\* One UPDATE by name.
Delete(p) ==
    /\ At(p, "delete")
    /\ \/ /\ ~NameHeld(p, tx[p].name)
          /\ \E t \in ByName(tx[p].name) :
               Finish(p, [tx[p] EXCEPT !.id = t, !.row = [tours[t] EXCEPT !.live = FALSE]], "Deleted")
          /\ UNCHANGED <<tours, facts>>
       \/ ByName(tx[p].name) = {} /\ Return(p, "TourNotFound")

Load(p, label, next) ==
    /\ At(p, label)
    /\ \/ /\ \E t \in ByName(tx[p].name) : Goto(p, [tx[p] EXCEPT !.tour = t], next)
          /\ UNCHANGED <<tours, facts>>
       \/ ByName(tx[p].name) = {} /\ Return(p, "TourNotFound")

ConsumeLoad(p) == Load(p, "consume.load", "consume.insert")
ResetLoad(p) == Load(p, "reset.load", "reset.delete")

\* Another open transaction adds or drops the fact.
FactHeld(p, f) == \E q \in Others(p) : tx[q].adds = f \/ f \in tx[q].drops

\* A wrong variant: a known fact is looked up again, and again.
RetryingInsert(p) ==
    LET f == <<tx[p].tour, tx[p].user>> IN
    /\ At(p, "consume.insert") /\ ~FactHeld(p, f)
    /\ IF facts[f] = None THEN Finish(p, [tx[p] EXCEPT !.adds = f], "Consumed")
       ELSE Goto(p, [tx[p] EXCEPT !.tour = None], "consume.load")
    /\ UNCHANGED <<tours, facts>>

\* A wrong variant: ON CONFLICT DO UPDATE SET consumed_at.
RefreshingInsert(p) ==
    LET f == <<tx[p].tour, tx[p].user>> IN
    /\ At(p, "consume.insert") /\ ~FactHeld(p, f)
    /\ Finish(p, [tx[p] EXCEPT !.adds = f], "Consumed")
    /\ UNCHANGED <<tours, facts>>

\* INSERT .. ON CONFLICT DO NOTHING RETURNING, whether or not the tour is still live.
ConsumeInsert(p) ==
    LET f == <<tx[p].tour, tx[p].user>> IN
    /\ At(p, "consume.insert") /\ ~FactHeld(p, f)
    /\ IF facts[f] = None THEN Finish(p, [tx[p] EXCEPT !.adds = f], "Consumed")
       ELSE Goto(p, tx[p], "consume.select")
    /\ UNCHANGED <<tours, facts>>

\* fetch_one: a reset may have dropped the fact that the INSERT met.
ConsumeSelect(p) ==
    LET f == <<tx[p].tour, tx[p].user>> IN
    /\ At(p, "consume.select")
    /\ IF facts[f] # None
       THEN Finish(p, tx[p], "AlreadyConsumed") /\ UNCHANGED <<tours, facts>>
       ELSE Return(p, "Db")

\* DELETE of every committed fact of the tour.
ResetDelete(p) ==
    LET known == {f \in Pairs : f[1] = tx[p].tour /\ facts[f] # None} IN
    /\ At(p, "reset.delete")
    /\ \A f \in known, q \in Others(p) : f \notin tx[q].drops
    /\ Finish(p, [tx[p] EXCEPT !.drops = known], "Reset")
    /\ UNCHANGED <<tours, facts>>

\* The officer verbs have written their audit row in the transaction.
Commit(p) ==
    LET f == tx[p] IN
    /\ At(p, "commit")
    /\ tours' = IF f.row = NoRow THEN tours ELSE [tours EXCEPT ![f.id] = f.row]
    /\ facts' = [g \in Pairs |-> IF g = f.adds THEN f.rev ELSE IF g \in f.drops THEN None ELSE facts[g]]
    /\ tx' = [tx EXCEPT ![p] = Idle(f.done)]

\* An error or a lost connection rolls back.
Lost(p) == tx[p].pc # "idle" /\ UNCHANGED calls /\ Return(p, "aborted")

Begin(p) ==
    /\ tx[p].pc = "idle" /\ calls > 0 /\ calls' = calls - 1
    /\ \E n \in Names :
         LET call == [Idle("none") EXCEPT !.name = n, !.rev = MaxCalls - calls + 1]
         IN  \/ \E label \in {"upsert", "delete", "reset.load"} : Goto(p, call, label)
            \/ \E u \in Users : Goto(p, [call EXCEPT !.user = u], "consume.load")
    /\ UNCHANGED <<tours, facts>>

Step(p) == \/ Upsert(p) \/ Delete(p) \/ ConsumeLoad(p) \/ ConsumeInsert(p) \/ ConsumeSelect(p)
           \/ ResetLoad(p) \/ ResetDelete(p) \/ Commit(p)

Next == \E p \in Procs : Begin(p) \/ Step(p) \/ Lost(p)

\* A task keeps running the statements of its own call.
FairSpec == Init /\ [][Next]_vars /\ \A p \in Procs : WF_vars(Step(p))

-----------------------------------------------------------------------------
Commits(p, a) == tx[p].pc = "commit" /\ tx[p].done = a /\ tx'[p] = Idle(a)

\* One live definition carries a name, whichever open transactions commit: the key of the
\* client's engine never splits.
ToursInv ==
    /\ tours \in [TourIds -> TourRow \cup {NoRow}] /\ facts \in [Pairs -> Stamps \cup {None}]
    /\ \A t, s \in TourIds : t # s =>
         LET versions(i) == {tours[i]} \cup {tx[q].row : q \in {x \in Procs : tx[x].id = i}}
         IN  \A a \in versions(t), b \in versions(s) :
               a = NoRow \/ b = NoRow \/ ~(a.live /\ b.live /\ a.name = b.name)

\* "A repeat is the already_consumed arm reporting the ORIGINAL timestamp": a recorded
\* fact stands as it was first written until a reset of its tour drops it.
FactsStand ==
    [][\A f \in Pairs : (facts[f] # None /\ facts'[f] # facts[f]) =>
         facts'[f] = None /\ \E p \in Procs : Commits(p, "Reset") /\ tx[p].tour = f[1]]_vars

\* Consumptions and resets of one tour, deletions and upserts of one name: each is
\* answered, whatever the other does.
ToursAnswered == \A p \in Procs : tx[p].pc # "idle" ~> tx[p].pc = "idle"
=============================================================================
