---------------------------- MODULE MCControlPlane ----------------------------
(* Small instances of ControlPlane for TLC. *)
EXTENDS ControlPlaneInvariant, TLC

CONSTANTS d1, d2, up, gone, k1, a1, p1, h1, h2, h3, r1

MCDomains == {d1, d2}
MCTargets == {up, gone}
MCCovers == [k \in {k1} |-> {d1}]

RowOf(ds, u, rs) == [domains |-> ds, target |-> u, refs |-> rs, enabled |-> TRUE]

(* A plain row, one OpenResty rejects, one that refers to everything, one  *)
(* on another domain, one for a redirect or 404 host behind a trusted      *)
(* proxy, and two for a stream.                                            *)
Plain == RowOf({d1}, up, {})
Broken == RowOf({d1}, gone, {})
Guarded == RowOf({d1}, up, {k1, a1, p1})
Other == RowOf({d2}, up, {})
Trusting == RowOf({d1}, up, {p1})
Secure == RowOf({}, up, {k1})
Dead == RowOf({}, gone, {})

(* One active proxy host; what requests may ask for. *)
MCInit == [id \in Ids |-> IF id = h1 THEN Plain ELSE None]
MCInputs == {Broken, Guarded, Other}
RouteInputs == {Broken, Trusting, Secure, Dead}
AllInputs == MCInputs \cup RouteInputs
=============================================================================
