------------------------------ MODULE MCMenus ------------------------------
(***************************************************************************)
(* Small menu trees for Menus: one website with a chain down to the depth  *)
(* ceiling, others with a root, a mega-menu or nothing.                    *)
(***************************************************************************)
EXTENDS Menus, TLC

CONSTANTS p1, p2, m1, m2, m3, m4, m5, m6, k1, a

Page(s) == [key |-> k1, scope |-> s, url |-> a, published |-> TRUE, tier |-> "public",
            indexed |-> TRUE, forkedFrom |-> None, live |-> TRUE]
Menu(s, up, i) == [site |-> s, page |-> i, url |-> None, parent |-> up, mega |-> FALSE,
                   tier |-> "public", live |-> TRUE]
Mega(s, i) == [Menu(s, None, i) EXCEPT !.mega = TRUE]
Site == [homepage |-> a, live |-> TRUE]
DeadSite == [homepage |-> a, live |-> FALSE]

Catalog(rows) == [i \in Id |-> IF i \in DOMAIN rows THEN rows[i] ELSE NoRow]

\* Website 1 has a chain m1, m2, m3 and a fork of the generic page; website 2 has a root
\* bound to the generic; website 3 is dead.
Chain == Catalog(p1 :> Page(Generic) @@ p2 :> Page(1) @@ 1 :> Site @@ 2 :> Site @@ 3 :> DeadSite
                 @@ m1 :> Menu(1, None, None) @@ m2 :> Menu(1, m1, p2)
                 @@ m3 :> [Menu(1, m2, None) EXCEPT !.tier = "connected"]
                 @@ m4 :> Menu(2, None, p1))

\* Three live websites: a mega-menu on the second, and no menu on the third.
Bars == Catalog(p1 :> Page(Generic) @@ p2 :> Page(1) @@ 1 :> Site @@ 2 :> Site @@ 3 :> Site
                @@ m1 :> Menu(1, None, p2) @@ m2 :> Menu(1, m1, None) @@ m3 :> Menu(1, m2, None)
                @@ m4 :> Mega(2, p1))

MCCatalogs == {Chain, Bars}
MCDrafts == {<<"public", FALSE>>, <<"public", TRUE>>}

Nothing == [parent |-> Keep, mega |-> Keep, tier |-> Keep]
Hide == [Nothing EXCEPT !.tier = "restricted"]
MakeMega == [Nothing EXCEPT !.mega = TRUE]
MoveUnder(m) == [Nothing EXCEPT !.parent = m]
\* Below m1 a node may move, of another website too; m3 is at the ceiling until it moves up,
\* and then the root may move below it.
MCPatches == {Hide, MakeMega, MoveUnder(m1), MoveUnder(m3)}

\* A chain down to the ceiling, and a second root to move its root below.
TwoRoots == {Catalog(1 :> Site @@ m1 :> Menu(1, None, None) @@ m2 :> Menu(1, m1, None)
                     @@ m3 :> Menu(1, m2, None) @@ m4 :> Menu(1, None, None))}
MovesOnly == {MoveUnder(m4)}

MCViewers == {{"public"}, {"public", "connected"}, Tiers}
=============================================================================
