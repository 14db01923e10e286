------------------------------ MODULE MCPublic ------------------------------
(***************************************************************************)
(* Small page tables for Public.                                           *)
(***************************************************************************)
EXTENDS Public

CONSTANTS p1, p2, p3, k1, k2

Page(k, w, u) == [key |-> k, scope |-> w, url |-> u, published |-> TRUE, due |-> TRUE,
                  tier |-> "public", roles |-> {}, indexed |-> TRUE, live |-> TRUE]
Members(p) == [Page(k2, 1, 2) EXCEPT !.tier = "restricted", !.roles = {"editor"}]
Table(a, b, c) == [i \in Id |-> CASE i = p1 -> a [] i = p2 -> b [] i = p3 -> c
                                  [] OTHER -> [homepage |-> 1, live |-> TRUE]]

\* A generic page under a specific of its key that is not out yet; a restricted page of site 1
\* whose reader belongs to site 2; two pages on two urls with room for a fork.
MCStarts ==
    {[rows |-> Table(Page(k1, Generic, 1), [Page(k1, 1, 1) EXCEPT !.due = FALSE], NoRow),
      members |-> {}],
     [rows |-> Table(Page(k1, Generic, 1), Members(p2), NoRow),
      members |-> {<<2, "ann", "editor">>}],
     [rows |-> Table(Page(k1, Generic, 1), Page(k2, 1, 2), NoRow), members |-> {}]}
=============================================================================
