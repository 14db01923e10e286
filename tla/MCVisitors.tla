----------------------------- MODULE MCVisitors -----------------------------
(***************************************************************************)
(* Small visitor tables for Visitors.                                      *)
(***************************************************************************)
EXTENDS Visitors, TLC

CONSTANTS v1, v2, v3, v4, v5, t1, t2, t3, t4, t5, b1, b2, u1, u2, home

Row(b, u, n) == [site |-> 1, digest |-> <<"pepper", b>>, token |-> MaxCalls + n,
                 principal |-> u, visits |-> 0, last |-> 0]
Track(v) == [visitor |-> v, url |-> home, at |-> 0]

Table(vs, ts) == [visitors |-> [v \in VisitorIds |-> IF v \in DOMAIN vs THEN vs[v] ELSE NoRow],
                  tracks |-> [t \in TrackIds |-> IF t \in DOMAIN ts THEN ts[t] ELSE NoRow]]

\* One browser known by its principal and one not; both known; one not, the other never seen.
Known == Table(v1 :> Row(b1, None, 1) @@ v2 :> Row(b2, u1, 2), t1 :> Track(v1) @@ t2 :> Track(v2))
Both == Table(v1 :> Row(b1, u2, 1) @@ v2 :> Row(b2, u1, 2), t1 :> Track(v1))
Fresh == Table(v1 :> Row(b1, None, 1), t1 :> Track(v1))

MCStarts == {Known, Both, Fresh}
=============================================================================
