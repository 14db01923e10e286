---------------------------- MODULE PageCatalog ----------------------------
(***************************************************************************)
(* What the versioning verbs promise (docs/spec.md section 4), each as one *)
(* indivisible step: which scopes hold a live page of a key, and which     *)
(* page a menu is bound to, named by its key and scope.                    *)
(*                                                                         *)
(* `live` and `siteOf` never change: these verbs create no website and no  *)
(* menu.                                                                   *)
(***************************************************************************)
EXTENDS Naturals

CONSTANTS Keys, Sites, Menus, None

Generic == 0
Scopes == Sites \cup {Generic}

VARIABLES
    live,      \* websites that are not soft-deleted
    siteOf,    \* the website of each menu
    holders,   \* the scopes that hold a live page of each key
    binding    \* <<key, scope>> of the page each menu is bound to, or None

vars == <<live, siteOf, holders, binding>>

TypeOK ==
    /\ live \subseteq Sites
    /\ siteOf \in [Menus -> Sites \cup {None}]
    /\ holders \in [Keys -> SUBSET Scopes]
    /\ binding \in [Menus -> (Keys \X Scopes) \cup {None}]

\* A menu of a live website is bound to a page that exists, and never to another
\* website's.
BindingsHeld ==
    \A m \in Menus : (siteOf[m] \in live /\ binding[m] # None) =>
        \E k \in Keys, s \in {siteOf[m], Generic} :
            binding[m] = <<k, s>> /\ s \in holders[k]

Init == TypeOK /\ BindingsHeld

\* The menus of the websites W that were bound to the generic of k.
Rebound(k, W) ==
    [m \in Menus |-> IF siteOf[m] \in W /\ binding[m] = <<k, Generic>>
                       THEN <<k, siteOf[m]>> ELSE binding[m]]

\* A fork takes its copy of a generic that is there.  A dead website is served by
\* nobody, and its fork may come after the generic has gone.
Fork(k, w) ==
    /\ w \notin holders[k]
    /\ Generic \in holders[k] \/ w \notin live
    /\ holders' = [holders EXCEPT ![k] = @ \cup {w}]
    /\ binding' = Rebound(k, {w})
    /\ UNCHANGED <<live, siteOf>>

\* The generic goes, and every live website holds the key instead.
Fanout(k) ==
    /\ Generic \in holders[k]
    /\ holders' = [holders EXCEPT ![k] = (@ \ {Generic}) \cup live]
    /\ binding' = Rebound(k, holders'[k])
    /\ UNCHANGED <<live, siteOf>>

Next == \E k \in Keys : Fanout(k) \/ \E w \in Sites : Fork(k, w)

Spec == Init /\ [][Next]_vars
=============================================================================
