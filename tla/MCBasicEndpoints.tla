-------------------------- MODULE MCBasicEndpoints --------------------------
(***************************************************************************)
(* The server's bundles: a small one; a second that adds an agency, a      *)
(* route and a stop; a third that has dropped the first stop; one whose    *)
(* agency b has no routes, and one without agencies.  Servers load up to   *)
(* three of them, so that a chain of ids may be outlived or kept.          *)
(***************************************************************************)
EXTENDS BasicEndpoints

CONSTANTS a, b, r, s, t, p

Entry(things, S) == [x \in Things |-> IF x \in things THEN S ELSE {}]

Data(listed, served, routes, stops) ==
    [name \in Names |->
        CASE name = "agencies-with-coverage" -> Entry({Server}, listed)
          [] name = "routes-for-agency" -> Entry(served, routes)
          [] name = "stops-for-route" -> Entry(routes, stops)
          [] name = "stop" -> Entry(stops, {p})
          [] name = "stops-for-location" -> Entry({p}, stops)
          [] name = "arrivals-and-departures-for-stop" -> Entry(stops, stops)
          [] OTHER -> Entry({}, {})]

Small == Data({a}, {a}, {r}, {s})
Grown == Data({a, b}, {a, b}, {r}, {s, t})
Moved == Data({a, b}, {a, b}, {r}, {t})
Routeless == Data({a, b}, {a}, {r}, {s})
Without == Data({}, {}, {}, {})

Loaded == {<<Small>>, <<Small, Grown>>, <<Small, Grown, Grown>>, <<Small, Grown, Moved>>,
           <<Small, Moved>>, <<Grown, Small, Grown>>, <<Routeless, Grown>>, <<Without, Small>>}
=============================================================================
