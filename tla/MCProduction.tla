---------------------------- MODULE MCProduction ----------------------------
(* A small table, and the submissions of one module, for Production.        *)
EXTENDS Production

MCBaseModule  == {"platform"}
MCSections    == [s \in {"f28", "f30", "f32", "el8"} |->
                    CASE s = "f28" -> <<28>> [] s = "f30" -> <<30>> [] s = "f32" -> <<32>> [] OTHER -> <<8>>]
MCNorm        == [s \in {"1", "2"} |-> s]
MCInheritance == <<"el8-modules">>
MCDefaults    == [f28 |-> [gtk |-> "1", tools |-> "1"], f32 |-> [shell |-> "1"]]

Row(i, n, s, v, c) ==
  [id |-> i, name |-> n, stream |-> s, version |-> v, context |-> c, state |-> "ready",
   scratch |-> FALSE, virtual |-> {}, br |-> {}, req |-> {}, runtime |-> {}, tag |-> None,
   defaults |-> FALSE, filters |-> {}, arches |-> {"x86_64"}, ursine |-> {}]
Runs(plus, minus) == {[platform |-> [plus |-> plus, minus |-> minus]]}

MCTable ==
  {[Row(1, "platform", "f28", 1, "c") EXCEPT !.virtual = {"fedora"}, !.defaults = TRUE],
   [Row(2, "platform", "f30", 1, "c") EXCEPT !.virtual = {"fedora"}, !.ursine = {6}],
   [Row(3, "platform", "el8", 1, "c") EXCEPT !.tag = "el8-modules", !.arches = {}],
   [Row(4, "gtk", "1", 1, "a") EXCEPT !.br = {2}, !.runtime = Runs({}, {}), !.filters = {"gtk-doc"},
                                      !.arches = {"x86_64", "s390x"}],
   [Row(5, "gtk", "1", 1, "b") EXCEPT !.br = {2}, !.runtime = Runs({"f30"}, {})],
   Row(6, "gtk", "2", 1, "c"),
   [Row(7, "tools", "1", 2, "c") EXCEPT !.br = {2}, !.runtime = Runs({"f30"}, {})],
   [Row(8, "tools", "1", 1, "c") EXCEPT !.br = {1}, !.runtime = Runs({}, {"f30"})],
   [Row(9, "platform", "f40", 1, "c") EXCEPT !.defaults = TRUE],
   [Row(10, "platform", "f32", 1, "c") EXCEPT !.defaults = TRUE, !.virtual = {"rawhide"}],
   [Row(11, "shell", "1", 1, "a") EXCEPT !.br = {10}, !.runtime = Runs({}, {})],
   [Row(12, "shell", "1", 1, "b") EXCEPT !.br = {10}, !.state = "build"]}

Rpm(n, i) == [name |-> n, of |-> -i]
MCRpms ==
  [i \in 1..12 |->
     CASE i \in {1, 2, 3, 9, 10} -> {Rpm("glibc", i), Rpm("gtk", i), Rpm("tool", i)}
       [] i \in {4, 5} -> {Rpm("gtk", i), Rpm("gtk-doc", i)}
       [] i = 6 -> {Rpm("gtk", i), Rpm("gtk-extra", i)}
       [] OTHER -> {Rpm("tool", i)}]

Made(n, a, m) == [name |-> n, arch |-> a, main |-> m]
MCMakes ==
  [p \in {"lib", "app", "x", "y", "z", "w", "lost"} |->
     {Made(p, "src", None), Made(p, "x86_64", None), Made(p, "i686", None)}
       \cup IF p = "lib" THEN {Made("lib-doc", "noarch", None), Made("lib-debuginfo", "x86_64", "lib"),
                               Made("lib-doc-debuginfo", "x86_64", "lib-doc"),
                               Made("lib-debugsource", "x86_64", "lib-src")}
            ELSE {}]
MCMultilibOf == [a \in {"x86_64", "s390x"} |-> IF a = "x86_64" THEN {"i686"} ELSE {}]
MCAny == [p \in DOMAIN MCMakes |-> {}]

C(n, o, ref) == [name |-> n, order |-> o, ref |-> ref, arches |-> {"x86_64"}, multilib |-> {},
                 forbidden |-> FALSE]
Mod(n, o)    == [name |-> n, order |-> o, forbidden |-> FALSE,
                 nth |-> CASE n = "inc" -> 2 [] n = "other" -> 3 [] OTHER -> 1]
M(rpms, modules) == [rpms |-> rpms, modules |-> modules, macros |-> "m", whitelist |-> {},
                     filters |-> {"lib-doc"}]
Sub(m, br, strategy) ==
  [mmd |-> m, br |-> br, strategy |-> strategy, reuse |-> 0, arches |-> {}, blocked |-> {},
   srpms |-> {}, scmurl |-> TRUE, scratch |-> FALSE]

MCIncluded ==
  [inc   |-> <<M({C("x", 0, Branch), C("y", 0, 1)}, {}), M({C("x", 0, Branch)}, {})>>,
   other |-> <<M({C("z", 0, Branch), C("w", 1, 1)}, {})>>,
   empty |-> <<M({}, {})>>,
   clash |-> <<M({C("app", 0, 1)}, {})>>]
MCHeads == [inc |-> 1, other |-> 1, empty |-> 1, clash |-> 1, x |-> 1, z |-> 1, lost |-> NoCommit]

F28 == [platform |-> 1]
F30 == [platform |-> 2]
El8 == [platform |-> 3]
Two(l, a)  == M({C("lib", 0, l), C("app", 1, a)}, {})
Incl(mods) == M({C("app", 1, 1)}, mods)
All     == "all"
Changed == "only-changed"

MCPlans ==
  {<<Sub(Two(1, 1), F30, All), Sub(Two(2, 1), F30, Changed), Sub(Two(2, 1), F30, Strict)>>,
   <<Sub(Two(1, 1), F30, Strict), Sub(Two(1, 2), F30, Strict)>>,
   <<Sub(Two(1, 1), El8, Strict), Sub(Two(1, 1), El8, Strict)>>,
   <<Sub(Two(1, 1), F28, All)>>,
   <<Sub(Two(1, 1), [gtk |-> 4] @@ F30, All)>>,
   <<Sub(Two(1, 1), F30, All), Sub(Two(1, 1), [app |-> SelfId(1)] @@ F30, All),
     Sub(Two(1, 2), [app |-> SelfId(2)] @@ F30, Strict)>>,
   <<Sub(Incl({Mod("inc", 0), Mod("other", 2)}), F30, All)>>,
   <<Sub(Incl({Mod("inc", 0), Mod("other", 0)}), F30, All)>>,
   <<Sub(Incl({Mod("inc", 0)}), F30, All),
     [Sub(Incl({Mod("inc", 0)}), F30, Strict) EXCEPT !.reuse = 1]>>,
   <<Sub(M({C("app", 0, 1)}, {Mod("empty", 0), Mod("inc", 0)}), F30, All)>>,
   <<Sub(Incl({Mod("empty", 0), Mod("inc", 3)}), F30, All)>>,
   <<Sub(Incl({Mod("clash", 0)}), F30, All)>>,
   <<Sub(M({C("lost", 0, Branch)}, {}), F30, All)>>,
   <<Sub(M({}, {}), F30, All)>>,
   <<Sub(Two(1, 1), [platform |-> 9], All)>>,
   <<Sub(Two(1, 1), [platform |-> 10], All)>>,
   <<[Sub(Two(1, 1), F30, All) EXCEPT !.blocked = {"lib", "z"}, !.arches = {"s390x"}]>>,
   <<[Sub(Two(1, 1), F30, All) EXCEPT !.scratch = TRUE, !.srpms = {"app"}]>>,
   <<[Sub(Two(1, 1), El8, All) EXCEPT !.mmd.whitelist = {"lib"}]>>,
   <<[Sub(Two(1, 1), El8, All) EXCEPT !.mmd.rpms = {[C("lib", 0, 1) EXCEPT !.multilib = {"x86_64"}]}]>>}

MCConfigured == <<"platform", "f28">> :> {"x86_64"}
MCPrivileged == <<"tools", "gtk">>
MCArches     == {"x86_64"}
MCGroups     == [build |-> {"bash"}, srpm |-> {"rpm"}]
MCCgTag      == [s \in {"f28", "f30", "el8"} |-> s \o "-modules"]
MCCgTags     == {"el8-modules", "f28-modules", "default"}
=============================================================================
