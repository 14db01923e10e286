--------------------------- MODULE PagesLiveness ---------------------------
(***************************************************************************)
(* Every call ends.  A handler never sleeps, and Postgres runs its         *)
(* statement as soon as no lock is in the way: weak fairness of its steps. *)
(* Nothing is assumed of the deadlock detector (Abort is not fair), so     *)
(* two calls that wait for each other's rows would be a counterexample.    *)
(***************************************************************************)
EXTENDS Pages

Work(p) == Fork(p) \/ Fanout(p) \/ Edit(p) \/ Rename(p) \/ Delete(p) \/ Commit(p)

FairSpec == Spec /\ \A p \in Procs : WF_vars(Work(p))

\* A started call is answered, so that its caller is idle again and again: the fanout loop
\* runs out of targets, and no two verbs take their row locks in opposite orders.
EveryCallEnds == \A p \in Procs : []<>(tx[p].pc = "idle")
=============================================================================
