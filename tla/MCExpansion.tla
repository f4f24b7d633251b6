---------------------------- MODULE MCExpansion ----------------------------
(* Small tables of module builds and modulemds for Expansion.               *)
EXTENDS Expansion

MCBaseModule == {"platform"}
MCSections == [s \in {"el8", "el8.0.0", "el8.2.0", "el8.10.0", "el8.10.0.z"} |->
                 CASE s = "el8" -> <<8>> [] s = "el8.0.0" -> <<8, 0, 0>> [] s = "el8.2.0" -> <<8, 2, 0>>
                   [] OTHER -> <<8, 10, 0>>]
MCNorm == [s \in {"1", "2"} |-> s]
MCInheritance == <<"top", "parent">>
MCSupport == [s \in {"el8.0.0", "el8.10.0"} |-> s \o ".z"]

Row(i, n, s, v, st, br, req) ==
  [id |-> i, name |-> n, stream |-> s, version |-> v, context |-> "c", state |-> st,
   scratch |-> FALSE, virtual |-> IF n = "platform" THEN {"el8"} ELSE {},
   br |-> br, req |-> req, tag |-> None]

Base(i, s, st) == Row(i, "platform", s, 1, st, {}, {})
El8 == [platform |-> {"el8"}]
On(i, D) == {[platform |-> {"el8"}] @@ D}

Bases == {{Base(1, "el8.0.0", old), [Base(2, "el8.2.0", "ready") EXCEPT !.tag = t],
           Base(3, "el8.10.0", "ready")}
            \cup (IF old = "garbage" THEN {Base(11, "el8.10.0.z", "ready")} ELSE {}) : old \in {"ready", "garbage"}, t \in {None, "top"}}
InTag(r, t) == [r EXCEPT !.tag = t]

Builds ==
  {InTag(Row(4, "gtk", "1", 1, "ready", {1}, {El8}), "top"),
   InTag(Row(5, "gtk", "1", 2, "ready", {3}, {El8}), "parent"),
   [Row(6, "gtk", "1", 1, "build", {1}, {El8}) EXCEPT !.context = "d"],
   Row(7, "gtk", "2", 1, "ready", {2}, {El8}),
   InTag(Row(8, "foo", "1", 1, "ready", {2}, {[platform |-> {"el8"}, gtk |-> {"1", "2"}]}), "top"),
   Row(9, "foo", "1", 2, "ready", {2}, {[platform |-> {"el8"}, bar |-> {"1"}]}),
   Row(10, "bar", "1", 1, "ready", {2}, {[platform |-> {"el8"}, foo |-> {"1"}]})}

MCTables == {b \cup m : b \in Bases, m \in SUBSET Builds}

Minus(S) == [plus |-> {}, minus |-> S]
NoDep == <<>>

MCModulemds ==
  {<<[br |-> [platform |-> Plus({"el8.2.0"}), gtk |-> Plus({})], req |-> [gtk |-> Plus({})]]>>,
   <<[br |-> [platform |-> Plus({"el8.0.0", "el8.10.0"}), gtk |-> Minus({"2"})],
      req |-> [gtk |-> Plus({"1"})]]>>,
   <<[br |-> [platform |-> Plus({"el8.2.0"}), foo |-> Plus({"1"}), gtk |-> Plus({"1", "2"})],
      req |-> [foo |-> Plus({"1"})]]>>,
   <<[br |-> [platform |-> Plus({"el8.2.0"}), gtk |-> Plus({"1"})], req |-> [gtk |-> Plus({"1"})]],
     [br |-> [platform |-> Plus({"el8.10.0"}), gtk |-> Plus({"2"})], req |-> NoDep]>>,
   <<[br |-> [platform |-> Plus({"el8.2.0"}), gtk |-> Plus({"1"})], req |-> NoDep],
     [br |-> NoDep, req |-> NoDep]>>,
   <<[br |-> [platform |-> Plus({"el8.2.0"}), gtk |-> Plus({"1", "2"})], req |-> [gtk |-> Plus({"1", "2"})]],
     [br |-> [platform |-> Plus({"el8.2.0"}), gtk |-> Plus({"1"})], req |-> [gtk |-> Plus({"2"})]]>>,
   <<[br |-> [gtk |-> Plus({"1"})], req |-> NoDep]>>}

Request ==
  [name |-> "app", mbs |-> {}, repository |-> FALSE, br |-> NoDep, req |-> NoDep, branch |-> None,
   released |-> {}, local |-> FALSE, defaults |-> NoDep]

MCParams ==
  {Request, [Request EXCEPT !.local = TRUE],
   [Request EXCEPT !.local = TRUE, !.defaults = [gtk |-> "1"]],
   [Request EXCEPT !.branch = "el8", !.released = {"el8.10.0"}],
   [Request EXCEPT !.br = [platform |-> Plus({"el8.0.0"})], !.released = {"el8.0.0"}],
   [Request EXCEPT !.req = [bar |-> Plus({"1"})]],
   [Request EXCEPT !.mbs = {"koji_tag"}]}
=============================================================================
