---------------------------- MODULE MCThingpedia ----------------------------
(* A small Thingpedia: two kinds, three organizations, two upload forms.   *)
EXTENDS ThingpediaApi, TLC

CONSTANTS weather, base, root, dev, trusted, other, k1, k2, r1, r2

MCOrgOf == [u \in {root, dev, trusted, other} |->
              CASE u = root -> "org1" [] u \in {dev, trusted} -> "org2" [] OTHER -> "org3"]
MCTagForm == [k \in {k1, k2} |-> IF k = k2 THEN "reserved" ELSE "plain"]

ReqSymmetry == Permutations({r1, r2})

Fn(what, ents) == [what |-> what, forbidden |-> FALSE, monitorable |-> what = "query",
                   poll |-> TRUE, url |-> FALSE, entities |-> ents, strings |-> {}]

\* A JavaScript device, the same with a new function and a parent class, and
\* an abstract class; the last one refers to an entity that nobody declared.
Plain == [metas |-> "m1", abstract |-> FALSE, system |-> FALSE, loader |-> "js",
          config |-> "none", extends |-> {}, functions |-> {Fn("query", {weather})},
          declares |-> {weather}, parents |-> {}, factory |-> TRUE, dataset |-> TRUE]
Derived == [Plain EXCEPT !.metas = "m2", !.extends = {k2}, !.declares = {}, !.parents = {base}]
Abstract == [Plain EXCEPT !.abstract = TRUE, !.loader = None, !.factory = FALSE,
                          !.dataset = FALSE]

Form(u, k, cls, approve, zip) ==
  [user |-> u, kind |-> k, cls |-> cls, approve |-> approve, zip |-> zip, icon |-> TRUE]

MCUploads == {Form(dev, k1, Plain, TRUE, TRUE), Form(trusted, k1, Derived, TRUE, FALSE)}
MCImports == {Form(root, k2, Abstract, TRUE, FALSE)}
=============================================================================
