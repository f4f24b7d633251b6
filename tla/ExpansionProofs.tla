-------------------------- MODULE ExpansionProofs --------------------------
(***************************************************************************)
(* Stream expansion loses no choice of streams and makes no modulemd twice *)
(* of one pair, whatever the table, the modulemd and the request: the      *)
(* solver has stored a set of modules for every combination it has tried,  *)
(* if there is one, and it has tried them all when it is done. Nothing is  *)
(* built against a base module past its end of life. What is built is on   *)
(* the base module asked for, against modules that were not built on a     *)
(* newer one, and names one stream of each module, if the table and the    *)
(* modulemd are as they usually are; the hypotheses say what that is.      *)
(***************************************************************************)
EXTENDS Expansion, FiniteSetTheorems, WellFoundedInduction, TLAPS

-----------------------------------------------------------------------------
(* The invariant.                                                           *)

Numbered(P) == \E n \in Nat : P = [i \in 1..n |-> P[i]]

(* No pair is without buildrequires.                                        *)
AllAsk == \A i \in DOMAIN pairs : DOMAIN pairs[i].br # {}

Untried == pc \in {"overrides", "streams", "expand", "collect", "requires"} => alts = <<>>

(* Of the sets A that are stored, the pair c at which the solver is, and    *)
(* the combinations T it has not tried.                                     *)
AltsConsistent(A) == \A k \in DOMAIN A : \A S \in A[k] : Consistent(S)

(* What is stored for a pair and its streams has the modules of a           *)
(* combination with these streams.                                          *)
Chosen(i, streams, S) ==
  \E f \in Combinations(pairs[i].br) : StreamsOf(f) = streams /\ Range(f) \subseteq S
AltsChosen(A) ==
  \A k \in DOMAIN A :
    k = <<k[1], k[2]>> /\ k[1] \in DOMAIN pairs /\ \A S \in A[k] : Chosen(k[1], k[2], S)

(* A combination that some solution has is stored.                          *)
Favoured(i, f) == \E S \in Solutions(pairs[i].br) : Range(f) \subseteq S
Tried(i, f, c, T) == i < c \/ (i = c /\ f \notin T)
TriedStored(A, c, T) ==
  \A i \in DOMAIN pairs : \A f \in Combinations(pairs[i].br) :
    Tried(i, f, c, T) /\ Favoured(i, f) => <<i, StreamsOf(f)>> \in DOMAIN A

Progress(A, c, T) ==
  /\ T # {} => c \in DOMAIN pairs /\ T \subseteq Combinations(pairs[c].br)
  /\ AltsConsistent(A) /\ AltsChosen(A)
  /\ AllAsk => c \in Nat \ {0} /\ TriedStored(A, c, T)

Searching == pc = "solve" => Progress(alts, current, todo)

(* A choice of streams gives one modulemd of a pair, and no two modulemds   *)
(* of a pair have the same build context.                                   *)
OnePerChoice ==
  pc = "done" => \A g, h \in made : g.pair = h.pair /\ g.context[1] = h.context[1] => g = h

Inv == /\ Numbered(mmd) /\ Numbered(pairs)
       /\ Untried /\ Searching
       /\ Complete /\ OnePerChoice

-----------------------------------------------------------------------------
(* The pairs stay a sequence.                                               *)

(* What takes the place of the pairs is as long as they are.                *)
LEMMA ReplaceNumbered ==
  ASSUME NEW P, NEW Q, Numbered(P)
  PROVE  Numbered(ReplacePairs(P, Q))
<1>1. ReplacePairs(P, Q) = [k \in DOMAIN P |-> ReplacePairs(P, Q)[k]]
  BY DEF ReplacePairs
<1>2. PICK n \in Nat : DOMAIN P = 1..n
  BY DEF Numbered
<1> QED BY <1>1, <1>2 DEF Numbered

(* No step makes anything but a sequence of the pairs.                      *)
LEMMA NumberedNext ==
  ASSUME Numbered(mmd), Numbered(pairs), [Next]_vars
  PROVE  Numbered(mmd)' /\ Numbered(pairs)'
<1>1. CASE ApplyOverrides
  <2>1. UNCHANGED mmd \/ mmd' = Overridden(mmd, params)
    BY <1>1 DEF ApplyOverrides
  <2>2. Numbered(Overridden(mmd, params))
    BY ReplaceNumbered DEF Overridden
  <2>3. UNCHANGED pairs
    BY <1>1 DEF ApplyOverrides
  <2> QED BY <2>1, <2>2, <2>3 DEF Numbered
<1>2. CASE ResolveBaseStreams
  <2>1. mmd' = WithSupport(WithRealStreams(table, mmd), params, params.released)
    BY <1>2 DEF ResolveBaseStreams
  <2>2. Numbered(WithRealStreams(table, mmd))
    BY ReplaceNumbered DEF WithRealStreams
  <2>3. Numbered(mmd')
    BY <2>1, <2>2, ReplaceNumbered DEF WithSupport
  <2>4. UNCHANGED pairs
    BY <1>2 DEF ResolveBaseStreams
  <2> QED BY <2>3, <2>4 DEF Numbered
<1>3. CASE ExpandStreams
  <2>1. UNCHANGED mmd
    BY <1>3 DEF ExpandStreams
  <2>2. UNCHANGED pairs \/ pairs' = [i \in DOMAIN mmd |-> pairs'[i]]
    BY <1>3 DEF ExpandStreams
  <2>3. PICK n \in Nat : DOMAIN mmd = 1..n
    BY DEF Numbered
  <2> QED BY <2>1, <2>2, <2>3 DEF Numbered
<1>4. UNCHANGED <<mmd, pairs>> => Numbered(mmd)' /\ Numbered(pairs)'
  BY DEF Numbered
<1> QED
  BY <1>1, <1>2, <1>3, <1>4
     DEF Next, vars, CollectBuildrequires, CollectRequires, Solve, TestCombination, NextPair, Generate

-----------------------------------------------------------------------------
(* Combinations and solutions.                                              *)

(* A combination takes a module of that name for every name.                *)
LEMMA CombinationNames ==
  ASSUME NEW D, NEW f \in Combinations(D)
  PROVE  /\ f \in [DOMAIN D -> Pool]
         /\ \A n \in DOMAIN D : f[n].name = n /\ f[n] \in Range(f)
         /\ StreamsOf(f) = [n \in DOMAIN D |-> f[n].stream]
BY DEF Combinations, MetExactly, StreamsOf, Range

(* Every solution has all modules of some combination.                      *)
LEMMA SolutionHasCombination ==
  ASSUME NEW D, NEW S \in Solutions(D)
  PROVE  \E f \in Combinations(D) : Range(f) \subseteq S
<1>1. S \in SUBSET Pool /\ \A n \in DOMAIN D : \E r \in S : MetExactly(r, n, D[n])
  BY DEF Solutions, Solves
<1> DEFINE f == [n \in DOMAIN D |-> CHOOSE r \in S : MetExactly(r, n, D[n])]
<1>2. \A n \in DOMAIN D : f[n] \in S /\ MetExactly(f[n], n, D[n])
  BY <1>1
<1>3. f \in [DOMAIN D -> Pool]
  BY <1>1, <1>2
<1>4. DOMAIN f = DOMAIN D
  OBVIOUS
<1> HIDE DEF f
<1> QED BY <1>2, <1>3, <1>4 DEF Combinations, Range

(* A solution is consistent.                                                *)
LEMMA SolutionConsistent == ASSUME NEW D, NEW S \in Solutions(D) PROVE Consistent(S)
BY DEF Solutions, Solves

(* A pair without buildrequires has one combination, that takes nothing.    *)
LEMMA NothingToCombine ==
  ASSUME NEW D, DOMAIN D = {}
  PROVE  /\ <<>> \in Combinations(D) /\ StreamsOf(<<>>) = <<>>
         /\ Range(<<>>) = {} /\ Consistent({})
<1>1. <<>> \in [{} -> Pool] /\ DOMAIN <<>> = {}
  OBVIOUS
<1>2. [n \in DOMAIN <<>> |-> <<>>[n].stream] = <<>>
  BY <1>1
<1> QED BY <1>1, <1>2 DEF Combinations, StreamsOf, Range, Consistent

-----------------------------------------------------------------------------
(* The solver.                                                              *)

(* What is known of the next state follows from its variables: the table,   *)
(* the pairs and what was found stay.                                       *)
LEMMA ProgressPrimed ==
  ASSUME UNCHANGED <<table, pairs, found>>, Progress(alts', current', todo')
  PROVE  Progress(alts, current, todo)'
<1>1. \A S : Consistent(S)' <=> Consistent(S)
  BY DEF Consistent, RequiresMet, MetBy, StreamBuiltOn, Provides
<1>2. \A D : Combinations(D)' = Combinations(D)
  BY DEF Combinations, MetExactly, Pool, Provides
<1>3. \A D : Solutions(D)' = Solutions(D)
  <2>1. \A S, D : Solves(S, D)' <=> Solves(S, D)
    BY <1>1 DEF Solves, MetExactly, Provides
  <2> QED BY <2>1 DEF Solutions, Pool
<1>4. AltsConsistent(alts') <=> AltsConsistent(alts)'
  BY <1>1 DEF AltsConsistent
<1>5. AltsChosen(alts') <=> AltsChosen(alts)'
  BY <1>2 DEF AltsChosen, Chosen, StreamsOf, Range
<1>6. TriedStored(alts', current', todo') <=> TriedStored(alts, current, todo)'
  BY <1>2, <1>3 DEF TriedStored, Tried, Favoured, StreamsOf, Range
<1>7. AllAsk' <=> AllAsk
  BY DEF AllAsk
<1>8. (current \in DOMAIN pairs /\ todo \subseteq Combinations(pairs[current].br))'
        <=> current' \in DOMAIN pairs /\ todo' \subseteq Combinations(pairs[current'].br)
  BY DEF Combinations, MetExactly, Pool, Provides
<1> QED BY <1>4, <1>5, <1>6, <1>7, <1>8 DEF Progress

(* The search starts with nothing stored and everything to try.             *)
LEMMA SolveStarts == ASSUME Numbered(pairs), Untried, Solve PROVE Searching'
<1> SUFFICES ASSUME pc' = "solve" PROVE Progress(alts, current, todo)'
  BY DEF Searching
<1>1. UNCHANGED <<table, pairs, found, alts>> /\ pc = "requires" /\ StartPair(1)
  BY DEF Solve, Fail
<1>2. alts' = <<>> /\ current' = 1
  BY <1>1 DEF Untried, StartPair
<1>3. todo' # {} => 1 \in DOMAIN pairs /\ todo' \subseteq Combinations(pairs[1].br)
  BY <1>1 DEF StartPair, ToTry
<1>4. ASSUME AllAsk, NEW i \in DOMAIN pairs, NEW f \in Combinations(pairs[i].br)
      PROVE  ~Tried(i, f, 1, todo')
  <2>1. i \in Nat /\ i >= 1
    BY DEF Numbered
  <2>2. 1 \in DOMAIN pairs => todo' = Combinations(pairs[1].br)
    BY <1>1, <1>4 DEF StartPair, ToTry, AllAsk
  <2> QED BY <2>1, <2>2 DEF Tried
<1>5. Progress(<<>>, 1, todo')
  BY <1>3, <1>4 DEF Progress, AltsConsistent, AltsChosen, TriedStored
<1> QED BY <1>1, <1>2, <1>5, ProgressPrimed

(* A tried combination is stored if a solution has it.                      *)
LEMMA TestKeeps == ASSUME Numbered(pairs), Searching, TestCombination PROVE Searching'
<1> SUFFICES ASSUME pc' = "solve" PROVE Progress(alts, current, todo)'
  BY DEF Searching
<1> DEFINE D   == pairs[current].br
           f   == CHOOSE g \in todo : TRUE
           fav == {S \in Solutions(D) : Range(f) \subseteq S}
           key == <<current, StreamsOf(f)>>
<1>1. /\ UNCHANGED <<table, pairs, found, current>> /\ pc = "solve" /\ f \in todo
      /\ todo' = todo \ {f}
      /\ \/ fav = {} /\ UNCHANGED alts
         \/ \E S \in fav : alts' = Merge(alts, [k \in {key} |-> {S}])
  BY DEF TestCombination, Fail
<1>2. Progress(alts, current, todo)
  BY <1>1 DEF Searching
<1>3. current \in DOMAIN pairs /\ f \in Combinations(D)
  BY <1>1, <1>2 DEF Progress
<1> HIDE DEF f
<1>4. CASE UNCHANGED alts /\ fav = {}
  <2>1. ASSUME AllAsk PROVE TriedStored(alts, current, todo \ {f})
    <3> SUFFICES ASSUME NEW i \in DOMAIN pairs, NEW g \in Combinations(pairs[i].br),
                        Tried(i, g, current, todo \ {f}), Favoured(i, g)
                 PROVE  <<i, StreamsOf(g)>> \in DOMAIN alts
      BY DEF TriedStored
    <3>1. Tried(i, g, current, todo)
      BY <1>4 DEF Tried, Favoured
    <3> QED BY <3>1, <2>1, <1>2 DEF Progress, TriedStored
  <2>2. Progress(alts, current, todo \ {f})
    BY <1>2, <2>1 DEF Progress
  <2> QED BY <1>1, <1>4, <2>2, ProgressPrimed
<1>5. ASSUME NEW S \in fav, alts' = Merge(alts, [k \in {key} |-> {S}])
      PROVE  Progress(alts, current, todo)'
  <2>1. /\ DOMAIN alts' = DOMAIN alts \cup {key}
        /\ \A k \in DOMAIN alts' : \A T \in alts'[k] :
             (k \in DOMAIN alts /\ T \in alts[k]) \/ (k = key /\ T = S)
    BY <1>5 DEF Merge
  <2>2. AltsConsistent(alts')
    BY <2>1, <1>2, <1>5, SolutionConsistent DEF Progress, AltsConsistent
  <2>3. AltsChosen(alts')
    <3>1. Chosen(current, StreamsOf(f), S)
      BY <1>3, <1>5 DEF Chosen
    <3> HIDE DEF fav
    <3>2. key = <<key[1], key[2]>> /\ key[1] = current /\ key[2] = StreamsOf(f)
      OBVIOUS
    <3> HIDE DEF key
    <3> QED BY <2>1, <1>3, <3>1, <3>2, <1>2 DEF Progress, AltsChosen
  <2>4. ASSUME AllAsk PROVE TriedStored(alts', current, todo \ {f})
    <3> SUFFICES ASSUME NEW i \in DOMAIN pairs, NEW g \in Combinations(pairs[i].br),
                        Tried(i, g, current, todo \ {f}), Favoured(i, g)
                 PROVE  <<i, StreamsOf(g)>> \in DOMAIN alts'
      BY DEF TriedStored
    <3>1. CASE i = current /\ g = f
      BY <3>1, <2>1
    <3>2. CASE Tried(i, g, current, todo)
      BY <3>2, <2>1, <2>4, <1>2 DEF Progress, TriedStored
    <3> QED BY <3>1, <3>2 DEF Tried
  <2>5. Progress(alts', current, todo \ {f})
    BY <1>2, <2>2, <2>3, <2>4 DEF Progress
  <2> QED BY <1>1, <2>5, ProgressPrimed
<1> QED BY <1>1, <1>4, <1>5

(* A pair is left when all its combinations are tried. One without          *)
(* buildrequires is the only result.                                        *)
LEMMA NextPairKeeps == ASSUME Numbered(pairs), Searching, NextPair PROVE Searching'
<1>1. /\ UNCHANGED <<table, pairs, found, pc>> /\ pc = "solve"
      /\ todo = {} /\ current \in DOMAIN pairs
  BY DEF NextPair
<1>2. Progress(alts, current, {})
  BY <1>1 DEF Searching
<1> DEFINE next == [k \in {<<current, <<>>>>} |-> {{}}]
<1>3. CASE DOMAIN pairs[current].br = {}
  <2>1. alts' = next /\ StartPair(Len(pairs) + 1)
    BY <1>1, <1>3 DEF NextPair
  <2>2. todo' # {} => current' \in DOMAIN pairs /\ todo' \subseteq Combinations(pairs[current'].br)
    BY <2>1 DEF StartPair, ToTry
  <2>3. DOMAIN next = {<<current, <<>>>>} /\ next[<<current, <<>>>>] = {{}}
    OBVIOUS
  <2>4. Consistent({}) /\ Chosen(current, <<>>, {})
    BY <1>3, NothingToCombine DEF Chosen
  <2> HIDE DEF next
  <2>5. AltsConsistent(next)
    BY <2>3, <2>4 DEF AltsConsistent
  <2>6. AltsChosen(next)
    <3>1. \A k \in DOMAIN next : k = <<current, <<>>>> /\ k[1] = current /\ k[2] = <<>>
      BY <2>3
    <3> QED BY <3>1, <2>3, <2>4, <1>1 DEF AltsChosen
  <2>7. ~AllAsk
    BY <1>1, <1>3 DEF AllAsk
  <2>8. Progress(alts', current', todo')
    BY <2>1, <2>2, <2>5, <2>6, <2>7 DEF Progress
  <2> QED BY <1>1, <2>8, ProgressPrimed DEF Searching
<1>4. CASE DOMAIN pairs[current].br # {}
  <2>1. UNCHANGED alts /\ current' = current + 1 /\ StartPair(current + 1)
    BY <1>1, <1>4 DEF NextPair, StartPair
  <2>2. todo' # {} => current' \in DOMAIN pairs /\ todo' \subseteq Combinations(pairs[current'].br)
    BY <2>1 DEF StartPair, ToTry
  <2>3. ASSUME AllAsk PROVE current' \in Nat \ {0} /\ TriedStored(alts, current', todo')
    <3>1. current \in Nat \ {0} /\ TriedStored(alts, current, {})
      BY <1>2, <2>3 DEF Progress
    <3>2. current' \in DOMAIN pairs => todo' = Combinations(pairs[current'].br)
      BY <2>1, <2>3 DEF StartPair, ToTry, AllAsk
    <3>3. ASSUME NEW i \in DOMAIN pairs, NEW f \in Combinations(pairs[i].br),
                 Tried(i, f, current', todo')
          PROVE  Tried(i, f, current, {})
      <4>1. i \in Nat
        BY DEF Numbered
      <4> QED BY <4>1, <3>1, <3>2, <3>3, <2>1 DEF Tried
    <3> QED BY <3>1, <3>3, <2>1 DEF TriedStored
  <2>4. Progress(alts', current', todo')
    BY <1>2, <2>1, <2>2, <2>3 DEF Progress
  <2> QED BY <1>1, <2>4, ProgressPrimed DEF Searching
<1> QED BY <1>3, <1>4

-----------------------------------------------------------------------------
(* The result.                                                              *)

(* Modules of the same name in a consistent set that has the modules of a   *)
(* combination are of the combination's stream.                             *)
LEMMA ChosenStream ==
  ASSUME NEW i, NEW s, NEW S, Consistent(S), Chosen(i, s, S), NEW n \in DOMAIN pairs[i].br
  PROVE  /\ \E r \in S : r.name = n /\ r.stream = s[n]
         /\ \A r \in S : r.name = n => r.stream = s[n]
<1>1. PICK f \in Combinations(pairs[i].br) : StreamsOf(f) = s /\ Range(f) \subseteq S
  BY DEF Chosen
<1>2. f[n].name = n /\ f[n] \in S /\ s[n] = f[n].stream
  BY <1>1, CombinationNames
<1> QED BY <1>2 DEF Consistent

(* What is chosen for a pair fixes the streams.                             *)
LEMMA ChosenDomain ==
  ASSUME NEW i, NEW s, NEW S, Chosen(i, s, S)
  PROVE  s = [n \in DOMAIN pairs[i].br |-> s[n]]
BY CombinationNames DEF Chosen

(* The modulemds that are made are complete, and differ in their streams.   *)
LEMMA GenerateKeeps ==
  ASSUME Numbered(pairs), Searching, Generate
  PROVE  Complete' /\ OnePerChoice'
<1> SUFFICES ASSUME pc' = "done" PROVE Complete' /\ OnePerChoice'
  BY DEF Complete, OnePerChoice
<1>1. /\ UNCHANGED <<table, mmd, pairs, found, alts>> /\ pc = "solve" /\ current \notin DOMAIN pairs
      /\ \E choice \in [DOMAIN alts -> UNION {Best(alts[k]) : k \in DOMAIN alts}] :
           /\ \A k \in DOMAIN alts : choice[k] \in Best(alts[k])
           /\ made' = {Generated(k[1], choice[k]) : k \in DOMAIN alts}
  BY DEF Generate, Fail
<1>2. PICK choice \in [DOMAIN alts -> UNION {Best(alts[k]) : k \in DOMAIN alts}] :
        /\ \A k \in DOMAIN alts : choice[k] \in Best(alts[k])
        /\ made' = {Generated(k[1], choice[k]) : k \in DOMAIN alts}
  BY <1>1
<1>3. Progress(alts, current, todo)
  BY <1>1 DEF Searching
<1>4. \A k \in DOMAIN alts : /\ Consistent(choice[k]) /\ Chosen(k[1], k[2], choice[k])
                             /\ k = <<k[1], k[2]>>
  BY <1>2, <1>3 DEF Progress, AltsConsistent, AltsChosen, Best
<1>5. \A i, S : /\ Generated(i, S).pair = i /\ Generated(i, S).br = S
                /\ Generated(i, S).context[1] = BuildContext(S)
  BY DEF Generated
<1>6. \A g \in made' : \E k \in DOMAIN alts : g = Generated(k[1], choice[k])
  BY <1>2
<1>7. \A g \in made' : Consistent(g.br)
  BY <1>4, <1>5, <1>6
<1>8. ASSUME AllAsk, NEW i \in DOMAIN pairs, NEW S \in Solutions(pairs[i].br)
      PROVE  \E g \in made' : /\ g.pair = i
                              /\ \A n \in DOMAIN pairs[i].br : \A r \in S : \A q \in g.br :
                                   r.name = n /\ q.name = n => r.stream = q.stream
  <2>1. PICK f \in Combinations(pairs[i].br) : Range(f) \subseteq S
    BY SolutionHasCombination
  <2>2. i < current
    BY <1>1, <1>3, <1>8 DEF Progress, Numbered
  <2> DEFINE key == <<i, StreamsOf(f)>>
  <2>3. key \in DOMAIN alts
    BY <1>3, <1>8, <2>1, <2>2 DEF Progress, TriedStored, Tried, Favoured
  <2>4. key[1] = i /\ key[2] = StreamsOf(f)
    OBVIOUS
  <2> HIDE DEF key
  <2> DEFINE g == Generated(i, choice[key])
  <2>5. g \in made' /\ g.pair = i /\ g.br = choice[key]
    BY <1>2, <1>5, <2>3, <2>4
  <2>6. Consistent(S) /\ Chosen(i, key[2], S)
    BY <2>1, <2>4, SolutionConsistent DEF Chosen
  <2>7. Consistent(g.br) /\ Chosen(i, key[2], g.br)
    BY <1>4, <2>3, <2>4, <2>5
  <2> HIDE DEF g
  <2>8. \A n \in DOMAIN pairs[i].br : \A r \in S : \A q \in g.br :
          r.name = n /\ q.name = n => r.stream = q.stream
    BY <2>6, <2>7, ChosenStream
  <2> QED BY <2>5, <2>8
<1>9. Complete'
  <2>1. \A g \in made' : Consistent(g.br)'
    <3>1. \A S : Consistent(S)' <=> Consistent(S)
      BY <1>1 DEF Consistent, RequiresMet, MetBy, StreamBuiltOn, Provides
    <3> QED BY <1>7, <3>1
  <2>2. \A D : Solutions(D)' = Solutions(D)
    <3>1. \A S : Consistent(S)' <=> Consistent(S)
      BY <1>1 DEF Consistent, RequiresMet, MetBy, StreamBuiltOn, Provides
    <3>2. \A S, D : Solves(S, D)' <=> Solves(S, D)
      BY <3>1 DEF Solves, MetExactly, Provides
    <3> QED BY <1>1, <3>2 DEF Solutions, Pool
  <2>3. AllAsk' <=> AllAsk
    BY <1>1 DEF AllAsk
  <2>4. ASSUME AllAsk, NEW i \in DOMAIN pairs', NEW S \in Solutions(pairs[i].br)'
        PROVE  (\E g \in made : /\ g.pair = i
                               /\ \A n \in DOMAIN pairs[i].br : \A r \in S : \A q \in g.br :
                                    r.name = n /\ q.name = n => r.stream = q.stream)'
    <3>1. i \in DOMAIN pairs /\ S \in Solutions(pairs[i].br)
      BY <1>1, <2>2, <2>4
    <3>2. PICK g \in made' : /\ g.pair = i
                             /\ \A n \in DOMAIN pairs[i].br : \A r \in S : \A q \in g.br :
                                  r.name = n /\ q.name = n => r.stream = q.stream
      BY <1>8, <2>4, <3>1
    <3> QED BY <1>1, <3>2
  <2> QED BY <2>1, <2>3, <2>4 DEF Complete, AllAsk
<1>10. ASSUME NEW k \in DOMAIN alts, NEW l \in DOMAIN alts, k[1] = l[1],
              BuildContext(choice[k]) = BuildContext(choice[l])
       PROVE  k = l
  <2> DEFINE D == pairs[k[1]].br
  <2>1. \A n \in DOMAIN D : k[2][n] = l[2][n]
    <3> SUFFICES ASSUME NEW n \in DOMAIN D PROVE k[2][n] = l[2][n]
      OBVIOUS
    <3>1. PICK r \in choice[k] : r.name = n /\ r.stream = k[2][n]
      <4>1. Consistent(choice[k]) /\ Chosen(k[1], k[2], choice[k])
        BY <1>4
      <4> QED BY <4>1, ChosenStream
    <3>2. <<n, k[2][n]>> \in BuildContext(choice[l])
      BY <1>10, <3>1 DEF BuildContext
    <3>3. PICK q \in choice[l] : <<q.name, q.stream>> = <<n, k[2][n]>>
      BY <3>2 DEF BuildContext
    <3> QED BY <1>4, <1>10, <3>3, ChosenStream
  <2>2. k[2] = [n \in DOMAIN D |-> k[2][n]] /\ l[2] = [n \in DOMAIN D |-> l[2][n]]
    BY <1>4, <1>10, ChosenDomain
  <2>3. k[2] = l[2]
    BY <2>1, <2>2
  <2> QED BY <1>4, <1>10, <2>3
<1>11. OnePerChoice'
  <2> SUFFICES ASSUME NEW g \in made', NEW h \in made', g.pair = h.pair,
                      g.context[1] = h.context[1]
               PROVE  g = h
    BY DEF OnePerChoice
  <2>1. PICK k \in DOMAIN alts : g = Generated(k[1], choice[k])
    BY <1>6
  <2>2. PICK l \in DOMAIN alts : h = Generated(l[1], choice[l])
    BY <1>6
  <2> QED BY <2>1, <2>2, <1>5, <1>10
<1> QED BY <1>9, <1>11

-----------------------------------------------------------------------------
(* All steps.                                                               *)

(* The other steps do not search.                                           *)
LEMMA OthersKeep ==
  ASSUME Untried, Next, ~TestCombination, ~NextPair, ~Generate
  PROVE  /\ Untried' /\ pc' # "done"
         /\ pc' = "solve" => Solve
<1>1. CASE ApplyOverrides
  BY <1>1 DEF ApplyOverrides, Untried, Fail
<1>2. CASE ResolveBaseStreams
  BY <1>2 DEF ResolveBaseStreams, Untried
<1>3. CASE ExpandStreams
  BY <1>3 DEF ExpandStreams, Untried, Fail
<1>4. CASE CollectBuildrequires
  BY <1>4, Zenon DEF CollectBuildrequires, Untried, Fail
<1>5. CASE CollectRequires
  BY <1>5, Zenon DEF CollectRequires, Untried, Fail
<1>6. CASE Solve
  BY <1>6 DEF Solve, Untried, Fail
<1> QED BY <1>1, <1>2, <1>3, <1>4, <1>5, <1>6 DEF Next

(* The invariant holds in every reachable state.                            *)
LEMMA InvAlways == Spec => []Inv
<1>1. Init => Inv
  <2> SUFFICES ASSUME Init PROVE Inv
    OBVIOUS
  <2>1. Numbered(mmd)
    BY ExpansionAssumption DEF Init, Numbered
  <2>2. Numbered(pairs)
    <3>1. pairs = <<>> /\ DOMAIN pairs = 1..0
      BY DEF Init
    <3> QED BY <3>1 DEF Numbered
  <2> QED BY <2>1, <2>2 DEF Init, Inv, Untried, Searching, Complete, OnePerChoice
<1>2. Inv /\ [Next]_vars => Inv'
  <2> SUFFICES ASSUME Inv, [Next]_vars PROVE Inv'
    OBVIOUS
  <2>1. Numbered(mmd)' /\ Numbered(pairs)'
    BY NumberedNext DEF Inv
  <2>2. CASE UNCHANGED vars
    <3>1. UNCHANGED <<table, mmd, params, pc, pairs, found, current, todo, alts, made>>
      BY <2>2 DEF vars
    <3>2. Searching'
      BY <3>1, ProgressPrimed DEF Inv, Searching
    <3>3. Untried' /\ OnePerChoice'
      BY <3>1 DEF Inv, Untried, OnePerChoice
    <3>4. Complete'
      <4>1. \A S : Consistent(S)' <=> Consistent(S)
        BY <3>1 DEF Consistent, RequiresMet, MetBy, StreamBuiltOn, Provides
      <4>2. \A S, D : Solves(S, D)' <=> Solves(S, D)
        BY <4>1 DEF Solves, MetExactly, Provides
      <4>3. \A D : Solutions(D)' = Solutions(D)
        BY <3>1, <4>2 DEF Solutions, Pool
      <4> QED BY <3>1, <4>1, <4>3 DEF Inv, Complete
    <3> QED BY <2>1, <3>2, <3>3, <3>4 DEF Inv
  <2>3. CASE TestCombination
    <3>1. pc' # "done" /\ pc' \notin {"overrides", "streams", "expand", "collect", "requires"}
      BY <2>3 DEF TestCombination, Fail
    <3> QED BY <2>1, <2>3, <3>1, TestKeeps DEF Inv, Untried, Complete, OnePerChoice
  <2>4. CASE NextPair
    <3>1. pc' = "solve"
      BY <2>4 DEF NextPair
    <3> QED BY <2>1, <2>4, <3>1, NextPairKeeps DEF Inv, Untried, Complete, OnePerChoice
  <2>5. CASE Generate
    <3>1. pc' \in {"done", "sibling"}
      BY <2>5 DEF Generate, Fail
    <3>2. Complete' /\ OnePerChoice'
      BY <2>5, GenerateKeeps DEF Inv
    <3> QED BY <2>1, <3>1, <3>2 DEF Inv, Untried, Searching
  <2>6. CASE Next /\ ~TestCombination /\ ~NextPair /\ ~Generate
    <3>1. Untried' /\ pc' # "done" /\ (pc' = "solve" => Solve)
      BY <2>6, OthersKeep DEF Inv
    <3>2. Searching'
      BY <3>1, SolveStarts DEF Inv, Searching
    <3> QED BY <2>1, <3>1, <3>2 DEF Inv, Complete, OnePerChoice
  <2> QED BY <2>2, <2>3, <2>4, <2>5, <2>6
<1> QED BY <1>1, <1>2, PTL DEF Spec

(* Every choice of streams for which there is a consistent set of modules   *)
(* gets a modulemd of its own, for every table, modulemd and request        *)
(* (MMDResolver.solve).                                                     *)
THEOREM CompleteHolds == Spec => []Complete
<1>1. Inv => Complete
  BY DEF Inv
<1> QED BY <1>1, InvAlways, PTL

(* No two modulemds made of one pair of dependencies have the same build    *)
(* context, so that none is taken for the other (contexts_from_mmd,         *)
(* get_build_from_nsvc).                                                    *)
THEOREM OnePerChoiceHolds == Spec => []OnePerChoice
<1>1. Inv => OnePerChoice
  BY DEF Inv
<1> QED BY <1>1, InvAlways, PTL

-----------------------------------------------------------------------------
(* Functions defined by recursion over the numbers up to one.               *)

(* A set of numbers has a least one.                                        *)
LEMMA LeastNumber ==
  ASSUME NEW S \in SUBSET Nat, S # {}
  PROVE  \E m \in S : \A n \in S : m <= n
<1>1. \E m \in S : \A n \in S : ~(<<n, m>> \in OpToRel(<, Nat))
  BY WFMin, NatLessThanWellFounded
<1>2. \A m, n \in S : ~(<<n, m>> \in OpToRel(<, Nat)) => m <= n
  BY DEF OpToRel
<1> QED BY <1>1, <1>2

(* Induction, with a set for the formula.                                   *)
LEMMA AllNumbers ==
  ASSUME NEW S \in SUBSET Nat, 0 \in S, \A n \in Nat : n \in S => n + 1 \in S
  PROVE  S = Nat
<1> SUFFICES ASSUME S # Nat PROVE FALSE
  OBVIOUS
<1>1. PICK m \in Nat \ S : \A n \in Nat \ S : m <= n
  BY LeastNumber
<1>2. m # 0 /\ m - 1 \in Nat /\ m - 1 \in S
  BY <1>1
<1> QED BY <1>2

(* The first value is a, and each next one is made of the one before.       *)
Recursion(f, X, a, Step, N) ==
  f \in [0..N -> X] /\ f[0] = a /\ \A i \in 1..N : f[i] = Step[i][f[i - 1]]

(* There is such a function.                                                *)
LEMMA RecursionExists ==
  ASSUME NEW X, NEW a \in X, NEW Step \in [Nat -> [X -> X]], NEW N \in Nat
  PROVE  \E f : Recursion(f, X, a, Step, N)
<1> DEFINE S == {n \in Nat : \E f : Recursion(f, X, a, Step, n)}
<1>1. 0 \in S
  <2>1. Recursion([i \in 0..0 |-> a], X, a, Step, 0)
    BY DEF Recursion
  <2> QED BY <2>1
<1>2. ASSUME NEW n \in Nat, n \in S PROVE n + 1 \in S
  <2>1. PICK f : Recursion(f, X, a, Step, n)
    BY <1>2
  <2> USE <2>1 DEF Recursion
  <2> DEFINE g == [i \in 0..(n + 1) |-> IF i <= n THEN f[i] ELSE Step[n + 1][f[n]]]
  <2>2. f[n] \in X /\ Step[n + 1][f[n]] \in X
    BY <2>1
  <2>3. g \in [0..(n + 1) -> X]
    BY <2>1, <2>2
  <2>4. \A i \in 0..n : g[i] = f[i]
    OBVIOUS
  <2>5. g[n + 1] = Step[n + 1][f[n]]
    OBVIOUS
  <2> HIDE DEF g
  <2>6. g[0] = a
    BY <2>1, <2>4
  <2>7. ASSUME NEW i \in 1..(n + 1) PROVE g[i] = Step[i][g[i - 1]]
    <3>1. CASE i = n + 1
      BY <3>1, <2>4, <2>5
    <3>2. CASE i \in 1..n
      <4>1. i - 1 \in 0..n /\ i \in 0..n
        BY <3>2
      <4> QED BY <4>1, <3>2, <2>1, <2>4
    <3> QED BY <3>1, <3>2
  <2>8. Recursion(g, X, a, Step, n + 1)
    BY <2>3, <2>6, <2>7
  <2> QED BY <2>8
<1> HIDE DEF S
<1>3. S \in SUBSET Nat
  BY DEF S
<1>4. N \in S
  BY <1>1, <1>2, <1>3, AllNumbers
<1> QED BY <1>4 DEF S

(* What holds of the first value, and of each next one when it holds of the *)
(* one before, holds of the last.                                           *)
LEMMA LastInside ==
  ASSUME NEW X, NEW N \in Nat, NEW f, f[0] \in X, \A i \in 1..N : f[i - 1] \in X => f[i] \in X
  PROVE  f[N] \in X
<1> DEFINE S == {n \in Nat : n <= N => f[n] \in X}
<1>1. 0 \in S
  OBVIOUS
<1>2. ASSUME NEW n \in Nat, n \in S PROVE n + 1 \in S
  <2> SUFFICES ASSUME n + 1 <= N PROVE f[n + 1] \in X
    OBVIOUS
  <2>1. n <= N /\ n + 1 \in 1..N /\ (n + 1) - 1 = n
    OBVIOUS
  <2> QED BY <1>2, <2>1
<1> HIDE DEF S
<1>3. N \in S
  <2>1. S \in SUBSET Nat
    BY DEF S
  <2> QED BY <2>1, <1>1, <1>2, AllNumbers
<1> QED BY <1>3 DEF S

-----------------------------------------------------------------------------
(* The base modules that are found.                                         *)

ReadyIn(T)     == {r \in T : r.state = "ready"}
BaseSets(T, R) == [ready : SUBSET R, garbage : SUBSET T]

(* Of a base module's version all contexts are ready when one is.           *)
Alike(T) ==
  \A r, q \in T : r.name \in BaseModule /\ NSV(r) = NSV(q) /\ q.state = "ready" => r.state = "ready"

(* R has the rows that are ready and the other contexts of their versions.  *)
ReadyVersions(T, R) ==
  /\ ReadyIn(T) \subseteq R /\ R \subseteq T
  /\ \A r \in T, q \in ReadyIn(T) : r.name \in BaseModule /\ NSV(r) = NSV(q) => r \in R

(* All rows of the table do, and the ready ones if contexts are alike.      *)
LEMMA WhichReady ==
  ASSUME NEW T
  PROVE  ReadyVersions(T, T) /\ (Alike(T) => ReadyVersions(T, ReadyIn(T)))
BY DEF ReadyVersions, Alike, ReadyIn

(* A base module is added with others that are ready, and the end-of-life   *)
(* ones separately.                                                         *)
LEMMA AddBaseReady ==
  ASSUME NEW T, NEW R, ReadyVersions(T, R), NEW n \in BaseModule, NEW s, NEW f \in BaseSets(T, R)
  PROVE  AddBase(T, s, GetModuleModulemds(T, n, s), f) \in BaseSets(T, R)
<1> DEFINE mmds == GetModuleModulemds(T, n, s)
           r    == CHOOSE q \in mmds : TRUE
           seen == StreamsIn(f)
<1>1. CASE s \in seen \/ mmds = {}
  BY <1>1 DEF AddBase
<1>2. CASE ~(s \in seen \/ mmds = {})
  <2>1. r \in mmds
    BY <1>2
  <2>2. r \in R
    <3>1. PICK q \in T : /\ q.name = n /\ q.stream = s /\ q.state = "ready" /\ q.version = r.version
      BY <2>1 DEF GetModuleModulemds, LastBuildsInStream, Versions, Newest
    <3>2. r \in T /\ r.name = n /\ r.stream = s
      BY <2>1 DEF GetModuleModulemds, LastBuildsInStream
    <3> QED BY <3>1, <3>2 DEF ReadyVersions, NSV, ReadyIn
  <2> HIDE DEF r, mmds, seen
  <2>3. \A b, l : /\ CompatibleBaseModules(T, b, l, {"ready"}) \subseteq R
                  /\ CompatibleBaseModules(T, b, l, {"garbage"}) \subseteq T
    BY DEF CompatibleBaseModules, LastBuildsLte, LteStreamVersion, ReadyVersions, ReadyIn
  <2>4. CompatibleWith(T, r, seen) \in BaseSets(T, R)
    <3>1. \A S : OnePerStream(S) \subseteq S
      BY DEF OnePerStream
    <3> QED BY <2>2, <2>3, <3>1 DEF CompatibleWith, BaseSets
  <2>5. AddBase(T, s, mmds, f) = Both(f, CompatibleWith(T, r, seen))
    BY <1>2 DEF AddBase, r, seen
  <2>6. Both(f, CompatibleWith(T, r, seen)) \in BaseSets(T, R)
    BY <2>4 DEF Both, BaseSets
  <2> QED BY <2>5, <2>6 DEF mmds
<1> QED BY <1>1, <1>2

(* So do all the streams of one pair.                                       *)
LEMMA AddBasesReady ==
  ASSUME NEW T, NEW R, ReadyVersions(T, R), NEW n \in BaseModule, NEW S, IsFiniteSet(S), NEW f \in BaseSets(T, R)
  PROVE  AddBases(T, n, S, f) \in BaseSets(T, R)
<1> DEFINE N == Cardinality(S)
           Add(i, v) == AddBase(T, Descending(S)[i], GetModuleModulemds(T, n, Descending(S)[i]), v)
           Step == [i \in Nat |-> [v \in BaseSets(T, R) |-> Add(i, v)]]
           IsUpto(u) == u = [i \in 0..N |-> IF i = 0 THEN f ELSE Add(i, u[i - 1])]
<1>1. N \in Nat
  BY FS_CardinalityType
<1>2. \A i, v : v \in BaseSets(T, R) => Add(i, v) \in BaseSets(T, R)
  BY AddBaseReady
<1>3. AddBases(T, n, S, f) = (CHOOSE u : IsUpto(u))[N]
  BY DEF AddBases
<1> HIDE DEF N, Add
<1>4. Step \in [Nat -> [BaseSets(T, R) -> BaseSets(T, R)]]
  BY <1>2
<1>5. \A i \in Nat : \A v \in BaseSets(T, R) : Step[i][v] = Add(i, v)
  OBVIOUS
<1> HIDE DEF Step
<1>6. PICK g : Recursion(g, BaseSets(T, R), f, Step, N)
  BY <1>1, <1>4, RecursionExists
<1> USE <1>6 DEF Recursion
<1>7. IsUpto(g)
  <2>1. g = [i \in 0..N |-> g[i]]
    BY <1>6
  <2>2. ASSUME NEW i \in 0..N PROVE g[i] = IF i = 0 THEN f ELSE Add(i, g[i - 1])
    <3>1. CASE i = 0
      BY <3>1, <1>6
    <3>2. CASE i # 0
      <4>1. i \in 1..N /\ i - 1 \in 0..N /\ i \in Nat
        BY <3>2, <1>1
      <4> QED BY <4>1, <3>2, <1>5, <1>6
    <3> QED BY <3>1, <3>2
  <2> QED BY <2>1, <2>2
<1>8. ASSUME NEW u, IsUpto(u) PROVE u[N] \in BaseSets(T, R)
  <2>1. u[0] \in BaseSets(T, R)
    BY <1>8, <1>1
  <2>2. ASSUME NEW i \in 1..N, u[i - 1] \in BaseSets(T, R) PROVE u[i] \in BaseSets(T, R)
    <3>1. i \in 0..N /\ i # 0
      BY <1>1
    <3>2. u[i] = Add(i, u[i - 1])
      BY <1>8, <3>1
    <3> QED BY <3>2, <2>2, <1>2
  <2> QED BY <2>1, <2>2, <1>1, LastInside
<1>9. IsUpto(CHOOSE u : IsUpto(u))
  BY <1>7, Zenon
<1> HIDE DEF IsUpto
<1> QED BY <1>3, <1>8, <1>9

(* Pairs are a sequence.                                                    *)
LEMMA NumberedLen == ASSUME NEW P, Numbered(P) PROVE Len(P) \in Nat /\ DOMAIN P = 1..Len(P)
<1>1. PICK n \in Nat : P = [i \in 1..n |-> P[i]]
  BY DEF Numbered
<1>2. P \in [1..n -> Range(P)]
  BY <1>1 DEF Range
<1>3. P \in Seq(Range(P))
  BY <1>2
<1> QED BY <1>3

(* The streams of every pair are finitely many.                             *)
FewStreams(P) == \A i \in DOMAIN P : \A n \in DOMAIN P[i].br : IsFiniteSet(P[i].br[n])

(* The base modules of all pairs: those to build against are ready.         *)
LEMMA BaseModulesReady ==
  ASSUME NEW T, NEW R, ReadyVersions(T, R), NEW P, Numbered(P), FewStreams(P)
  PROVE  BaseModules(T, P) \in BaseSets(T, R)
<1> DEFINE N == Len(P)
           none == [ready |-> {}, garbage |-> {}]
           names(i) == BaseModule \cap DOMAIN P[i].br
           Add(i, v) == IF names(i) = {} THEN v
                        ELSE BasesOfPair(T, P[i].br, CHOOSE m \in names(i) : TRUE, v)
           Step == [i \in Nat |-> [v \in BaseSets(T, R) |-> IF i \in 1..N THEN Add(i, v) ELSE v]]
           IsUpto(u) == u = [i \in 0..N |-> IF i = 0 THEN none ELSE Add(i, u[i - 1])]
<1>1. N \in Nat /\ DOMAIN P = 1..N
  BY NumberedLen
<1>2. \A i \in 1..N : \A v : v \in BaseSets(T, R) => Add(i, v) \in BaseSets(T, R)
  <2> SUFFICES ASSUME NEW i \in 1..N, NEW v \in BaseSets(T, R), names(i) # {}
               PROVE  BasesOfPair(T, P[i].br, CHOOSE m \in names(i) : TRUE, v) \in BaseSets(T, R)
    OBVIOUS
  <2> DEFINE n == CHOOSE m \in names(i) : TRUE
  <2>1. n \in names(i)
    OBVIOUS
  <2>2. n \in BaseModule /\ IsFiniteSet(P[i].br[n])
    BY <2>1, <1>1 DEF FewStreams
  <2> HIDE DEF n
  <2>3. BasesOfPair(T, P[i].br, n, v) \in BaseSets(T, R)
    BY <2>2, AddBasesReady DEF BasesOfPair
  <2> QED BY <2>3 DEF n
<1>3. BaseModules(T, P) = (CHOOSE u : IsUpto(u))[N]
  BY DEF BaseModules
<1>4. none \in BaseSets(T, R)
  BY DEF BaseSets
<1> HIDE DEF N, Add, none
<1>5. Step \in [Nat -> [BaseSets(T, R) -> BaseSets(T, R)]]
  BY <1>2
<1>6. \A i \in 1..N : \A v \in BaseSets(T, R) : Step[i][v] = Add(i, v)
  BY <1>1
<1> HIDE DEF Step
<1>7. PICK g : Recursion(g, BaseSets(T, R), none, Step, N)
  BY <1>1, <1>4, <1>5, RecursionExists
<1>8. IsUpto(g)
  <2> USE <1>7 DEF Recursion
  <2>1. g = [i \in 0..N |-> g[i]]
    OBVIOUS
  <2>2. ASSUME NEW i \in 0..N PROVE g[i] = IF i = 0 THEN none ELSE Add(i, g[i - 1])
    <3>1. CASE i = 0
      BY <3>1
    <3>2. CASE i # 0
      <4>1. i \in 1..N /\ i - 1 \in 0..N
        BY <3>2, <1>1
      <4> QED BY <4>1, <3>2, <1>6
    <3> QED BY <3>1, <3>2
  <2> QED BY <2>1, <2>2
<1>9. ASSUME NEW u, IsUpto(u) PROVE u[N] \in BaseSets(T, R)
  <2>1. u[0] \in BaseSets(T, R)
    BY <1>1, <1>4, <1>9
  <2>2. ASSUME NEW i \in 1..N, u[i - 1] \in BaseSets(T, R) PROVE u[i] \in BaseSets(T, R)
    <3>1. i \in 0..N /\ i # 0
      BY <1>1
    <3>2. u[i] = Add(i, u[i - 1])
      BY <1>9, <3>1
    <3> QED BY <3>2, <2>2, <1>2
  <2> QED BY <2>1, <2>2, <1>1, LastInside
<1>10. IsUpto(CHOOSE u : IsUpto(u))
  BY <1>8, Zenon
<1> HIDE DEF IsUpto
<1> QED BY <1>3, <1>9, <1>10

-----------------------------------------------------------------------------
(* The lists of streams stay finite.                                        *)

Lists(P) == \A i \in DOMAIN P : PairOfDeps(P[i])

(* Every place is taken: what comes in the place of the pairs is among Q.   *)
LEMMA EveryPlace ==
  ASSUME NEW P, Numbered(P), NEW Q, NEW k \in DOMAIN P
  PROVE  \E i \in DOMAIN P : ReplacePairs(P, Q)[k] = Q[i]
<1> DEFINE D == DOMAIN P
           kept == {i \in D : Q[i] = P[i]}
           upto(i) == IF i \in kept THEN {j \in kept : j <= i} ELSE kept \cup {j \in D : j <= i}
           place(i) == Cardinality(upto(i))
<1>1. PICK n \in Nat : D = 1..n
  BY DEF Numbered
<1>2. IsFiniteSet(D) /\ Cardinality(D) = n
  BY <1>1, FS_Interval
<1>3. ReplacePairs(P, Q)[k] = Q[CHOOSE i \in D : place(i) = k]
  BY DEF ReplacePairs
<1>4. \A i \in D : i \in upto(i) /\ upto(i) \in SUBSET D
  BY <1>1
<1>5. \A i, j \in D : i # j => /\ upto(i) # upto(j)
                               /\ upto(i) \subseteq upto(j) \/ upto(j) \subseteq upto(i)
  <2> SUFFICES ASSUME NEW i \in D, NEW j \in D, i # j
               PROVE  /\ upto(i) # upto(j)
                      /\ upto(i) \subseteq upto(j) \/ upto(j) \subseteq upto(i)
    OBVIOUS
  <2>1. i \in Nat /\ j \in Nat /\ (i < j \/ j < i)
    BY <1>1
  <2>2. CASE i \in kept /\ j \in kept
    BY <2>1, <2>2, <1>1
  <2>3. CASE i \notin kept /\ j \notin kept
    BY <2>1, <2>3, <1>1
  <2>4. CASE i \in kept /\ j \notin kept
    BY <2>1, <2>4, <1>1
  <2>5. CASE i \notin kept /\ j \in kept
    BY <2>1, <2>5, <1>1
  <2> QED BY <2>2, <2>3, <2>4, <2>5
<1>6. \A i \in D : place(i) \in 1..n
  <2> SUFFICES ASSUME NEW i \in D PROVE place(i) \in 1..n
    OBVIOUS
  <2> HIDE DEF upto
  <2>1. IsFiniteSet(upto(i)) /\ place(i) <= n
    BY <1>2, <1>4, FS_Subset
  <2>2. place(i) \in Nat /\ place(i) # 0
    BY <2>1, <1>4, FS_CardinalityType, FS_EmptySet
  <2> QED BY <2>1, <2>2
<1>7. \A i, j \in D : place(i) = place(j) => i = j
  <2> SUFFICES ASSUME NEW i \in D, NEW j \in D, place(i) = place(j), i # j PROVE FALSE
    OBVIOUS
  <2> HIDE DEF upto
  <2>1. IsFiniteSet(upto(i)) /\ IsFiniteSet(upto(j))
    BY <1>2, <1>4, FS_Subset
  <2>2. upto(i) = upto(j)
    BY <2>1, <1>5, FS_Subset
  <2> QED BY <2>2, <1>5
<1> HIDE DEF place
<1>8. \E i \in D : place(i) = k
  <2> SUFFICES ASSUME \A i \in D : place(i) # k PROVE FALSE
    OBVIOUS
  <2> DEFINE f == [i \in D |-> place(i)]
             R == (1..n) \ {k}
  <2>1. f \in [D -> R] /\ \A i \in D : f[i] = place(i)
    BY <1>6
  <2>2. IsFiniteSet(R) /\ Cardinality(R) < Cardinality(D)
    <3>1. R \in SUBSET D /\ R # D
      BY <1>1
    <3>2. IsFiniteSet(R) /\ Cardinality(R) <= Cardinality(D) /\ Cardinality(R) # Cardinality(D)
      BY <3>1, <1>2, FS_Subset
    <3> QED BY <3>2, <1>2, FS_CardinalityType
  <2> HIDE DEF R, f, D
  <2>3. PICK i, j \in D : i # j /\ f[i] = f[j]
    BY <2>1, <2>2, <1>2, FS_PigeonHole
  <2> QED BY <2>1, <2>3, <1>7
<1> QED BY <1>3, <1>8

(* A set made of the members of a finite one is finite.                     *)
LEMMA FiniteImage ==
  ASSUME NEW S, IsFiniteSet(S), NEW f, f = [s \in S |-> f[s]]
  PROVE  IsFiniteSet({f[s] : s \in S})
<1> DEFINE R == {f[s] : s \in S}
<1>1. f \in Surjection(S, R)
  BY DEF Surjection
<1> HIDE DEF R
<1>2. IsFiniteSet(R)
  BY <1>1, FS_Surjection
<1> QED BY <1>2 DEF R

(* Every pair is replaced by one with finite lists.                         *)
LEMMA ReplaceLists ==
  ASSUME NEW P, Numbered(P), NEW Q, \A i \in DOMAIN P : PairOfDeps(Q[i])
  PROVE  Lists(ReplacePairs(P, Q))
<1>1. DOMAIN ReplacePairs(P, Q) = DOMAIN P
  BY DEF ReplacePairs
<1>2. \A k \in DOMAIN P : \E i \in DOMAIN P : ReplacePairs(P, Q)[k] = Q[i]
  BY EveryPlace
<1> QED BY <1>1, <1>2 DEF Lists

(* A pair's lists stay finite where finite ones take their place.           *)
LEMMA MappedPair ==
  ASSUME NEW p, PairOfDeps(p), NEW new, \A n \in DOMAIN new : IsFiniteSet(new[n])
  PROVE  PairOfDeps(Mapped(p, new))
<1>1. p = [br |-> p.br, req |-> p.req]
  BY DEF PairOfDeps
<1> DEFINE br == [n \in DOMAIN p.br |-> IF n \in DOMAIN new THEN [p.br[n] EXCEPT !.plus = new[n]]
                                        ELSE p.br[n]]
<1>2. Mapped(p, new) = [p EXCEPT !.br = br]
  BY DEF Mapped
<1>3. Mapped(p, new) = [br |-> br, req |-> p.req]
  BY <1>1, <1>2
<1>4. ASSUME NEW n \in DOMAIN p.br PROVE ListOfStreams(br[n])
  <2>1. ListOfStreams(p.br[n])
    BY DEF PairOfDeps
  <2>2. [p.br[n] EXCEPT !.plus = new[n]] = [plus |-> new[n], minus |-> p.br[n].minus]
    BY <2>1 DEF ListOfStreams
  <2>3. br[n] = IF n \in DOMAIN new THEN [plus |-> new[n], minus |-> p.br[n].minus] ELSE p.br[n]
    BY <2>2
  <2> QED BY <2>1, <2>3 DEF ListOfStreams
<1>5. DOMAIN br = DOMAIN p.br
  OBVIOUS
<1> HIDE DEF br
<1> QED BY <1>3, <1>4, <1>5 DEF PairOfDeps

(* The requests' overrides are finite, and so is what they make.            *)
LEMMA OverriddenLists ==
  ASSUME NEW P, Numbered(P), Lists(P), NEW q, \A n \in DOMAIN q.br : ListOfStreams(q.br[n])
  PROVE  Lists(Overridden(P, q))
<1> DEFINE O == BrOverrides(q)
           Q == [i \in DOMAIN P |-> [br |-> Replace(P[i].br, O), req |-> Replace(P[i].req, q.req)]]
<1>1. \A n \in DOMAIN O : ListOfStreams(O[n])
  <2>1. ListOfStreams(Plus({q.branch}))
    BY FS_Singleton DEF ListOfStreams, Plus
  <2>2. [n \in {Override} |-> Plus({q.branch})][Override] = Plus({q.branch})
    OBVIOUS
  <2> QED BY <2>1, <2>2 DEF BrOverrides, Overlay
<1> HIDE DEF O
<1>2. ASSUME NEW i \in DOMAIN P PROVE PairOfDeps(Q[i])
  <2>1. PairOfDeps(P[i])
    BY DEF Lists
  <2>2. Q[i] = [br |-> Replace(P[i].br, O), req |-> Replace(P[i].req, q.req)]
    OBVIOUS
  <2>3. \A n \in DOMAIN Replace(P[i].br, O) : ListOfStreams(Replace(P[i].br, O)[n])
    BY <2>1, <1>1 DEF Replace, PairOfDeps
  <2> QED BY <2>2, <2>3 DEF PairOfDeps
<1> HIDE DEF Q
<1>3. Lists(ReplacePairs(P, Q))
  BY <1>2, ReplaceLists
<1> QED BY <1>3 DEF Overridden, Q, O

(* Real streams and support streams are one for each stream listed.         *)
LEMMA RealLists ==
  ASSUME NEW P, Numbered(P), Lists(P), NEW T
  PROVE  Lists(WithRealStreams(T, P))
<1> DEFINE Q == [i \in DOMAIN P |-> Mapped(P[i], RealStreams(T, P[i].br))]
<1>1. ASSUME NEW i \in DOMAIN P PROVE PairOfDeps(Q[i])
  <2>1. PairOfDeps(P[i])
    BY DEF Lists
  <2>2. ASSUME NEW n \in DOMAIN P[i].br PROVE IsFiniteSet({RealStream(T, n, s) : s \in P[i].br[n].plus})
    <3> DEFINE S == P[i].br[n].plus
               f == [s \in S |-> RealStream(T, n, s)]
    <3>1. IsFiniteSet(S)
      BY <2>1 DEF PairOfDeps, ListOfStreams
    <3>2. IsFiniteSet({f[s] : s \in S})
      <4> HIDE DEF S
      <4>1. f = [s \in S |-> f[s]]
        OBVIOUS
      <4> HIDE DEF f
      <4> QED BY <3>1, <4>1, FiniteImage
    <3>3. {f[s] : s \in S} = {RealStream(T, n, s) : s \in S}
      OBVIOUS
    <3> QED BY <3>2, <3>3
  <2>3. \A n \in DOMAIN RealStreams(T, P[i].br) : IsFiniteSet(RealStreams(T, P[i].br)[n])
    BY <2>2 DEF RealStreams
  <2>4. PairOfDeps(Mapped(P[i], RealStreams(T, P[i].br)))
    BY <2>1, <2>3, MappedPair
  <2> QED BY <2>4
<1> HIDE DEF Q
<1>2. Lists(ReplacePairs(P, Q))
  BY <1>1, ReplaceLists
<1> QED BY <1>2 DEF WithRealStreams, Q

(* The same for support streams.                                            *)
LEMMA SupportLists ==
  ASSUME NEW P, Numbered(P), Lists(P), NEW q, NEW released
  PROVE  Lists(WithSupport(P, q, released))
<1> DEFINE Q == [i \in DOMAIN P |-> Mapped(P[i], SupportStreams(P[i].br, q, released))]
<1>1. ASSUME NEW i \in DOMAIN P PROVE PairOfDeps(Q[i])
  <2>1. PairOfDeps(P[i])
    BY DEF Lists
  <2>2. ASSUME NEW n \in DOMAIN P[i].br
        PROVE  IsFiniteSet({Supported(s, released) : s \in P[i].br[n].plus})
    <3> DEFINE S == P[i].br[n].plus
               f == [s \in S |-> Supported(s, released)]
    <3>1. IsFiniteSet(S)
      BY <2>1 DEF PairOfDeps, ListOfStreams
    <3>2. IsFiniteSet({f[s] : s \in S})
      <4> HIDE DEF S
      <4>1. f = [s \in S |-> f[s]]
        OBVIOUS
      <4> HIDE DEF f
      <4> QED BY <3>1, <4>1, FiniteImage
    <3>3. {f[s] : s \in S} = {Supported(s, released) : s \in S}
      OBVIOUS
    <3> QED BY <3>2, <3>3
  <2>3. \A n \in DOMAIN SupportStreams(P[i].br, q, released) :
          IsFiniteSet(SupportStreams(P[i].br, q, released)[n])
    BY <2>2 DEF SupportStreams
  <2>4. PairOfDeps(Mapped(P[i], SupportStreams(P[i].br, q, released)))
    BY <2>1, <2>3, MappedPair
  <2> QED BY <2>4
<1> HIDE DEF Q
<1>2. Lists(ReplacePairs(P, Q))
  BY <1>1, ReplaceLists
<1> QED BY <1>2 DEF WithSupport, Q

-----------------------------------------------------------------------------
(* The modules that may be built against.                                   *)

Given == /\ IsFiniteSet(table) /\ \A r \in table : r.version \in Int
         /\ \A n \in DOMAIN params.br : ListOfStreams(params.br[n])

Ready(r)   == r.name \in BaseModule => r.state = "ready"
ReadyPool  == \A r \in Pool : Ready(r)
AltsInPool == \A k \in DOMAIN alts : \A S \in alts[k] : S \subseteq Pool

FiniteInv == Given /\ Lists(mmd) /\ FewStreams(pairs)
BaseInv   == Alike(table) /\ ReadyPool

(* The streams of an expanded dependency are finitely many.                 *)
LEMMA ExpandedFinite ==
  ASSUME Given, NEW n, NEW d, ListOfStreams(d)
  PROVE  IsFiniteSet(Expanded(n, d))
<1>1. IsFiniteSet({params.defaults[n]})
  BY FS_Singleton
<1>2. IsFiniteSet(d.plus)
  BY DEF ListOfStreams
<1>3. IsFiniteSet({r.stream : r \in LastBuildInAllStreams(table, n)})
  <2> DEFINE S == LastBuildInAllStreams(table, n)
             f == [r \in S |-> r.stream]
  <2>1. S \in SUBSET table
    BY DEF LastBuildInAllStreams
  <2>2. IsFiniteSet(S)
    BY <2>1, FS_Subset DEF Given
  <2> HIDE DEF S
  <2>3. {f[r] : r \in S} = {r.stream : r \in S} /\ f = [r \in S |-> f[r]]
    OBVIOUS
  <2> HIDE DEF f
  <2>4. IsFiniteSet({f[r] : r \in S})
    BY <2>2, <2>3, FiniteImage
  <2> QED BY <2>3, <2>4 DEF S
<1>4. IsFiniteSet(Candidates(n, d))
  <2> DEFINE A == IF n \in DOMAIN params.defaults THEN {params.defaults[n]}
                  ELSE {r.stream : r \in LastBuildInAllStreams(table, n)}
  <2>1. IsFiniteSet(A)
    BY <1>1, <1>3
  <2>2. Candidates(n, d) = IF d.plus # {} THEN d.plus ELSE A \ d.minus
    BY DEF Candidates
  <2> HIDE DEF A
  <2>3. A \ d.minus \in SUBSET A
    OBVIOUS
  <2>4. IsFiniteSet(A \ d.minus)
    BY <2>1, <2>3, FS_Subset
  <2> QED BY <1>2, <2>2, <2>4
<1> QED BY <1>1, <1>4 DEF Expanded

(* The table and the request stay.                                          *)
LEMMA TableStays == ASSUME [Next]_vars PROVE UNCHANGED <<table, params>>
BY DEF Next, vars, ApplyOverrides, ResolveBaseStreams, ExpandStreams, CollectBuildrequires,
       CollectRequires, Solve, TestCombination, NextPair, Generate

(* All is finite in the beginning.                                          *)
LEMMA InitFinite == Init => FiniteInv
<1> SUFFICES ASSUME Init PROVE FiniteInv
  OBVIOUS
<1>1. Given /\ Lists(mmd)
  BY ExpansionAssumption DEF Init, Given, Lists
<1>2. FewStreams(pairs)
  BY DEF Init, FewStreams
<1> QED BY <1>1, <1>2 DEF FiniteInv

(* No pair, modulemd or list becomes infinite.                              *)
LEMMA ListsNext ==
  ASSUME Numbered(mmd), Given, Lists(mmd), FewStreams(pairs), [Next]_vars
  PROVE  Given' /\ Lists(mmd)' /\ FewStreams(pairs)'
<1>1. UNCHANGED <<table, params>>
  BY TableStays
<1>2. Given'
  BY <1>1 DEF Given, ListOfStreams
<1>3. CASE ApplyOverrides
  <2>1. UNCHANGED mmd \/ mmd' = Overridden(mmd, params)
    BY <1>3 DEF ApplyOverrides
  <2>2. Lists(Overridden(mmd, params))
    BY OverriddenLists DEF Given
  <2>3. UNCHANGED pairs
    BY <1>3 DEF ApplyOverrides
  <2>4. Lists(mmd')
    BY <2>1, <2>2
  <2> QED BY <1>2, <2>3, <2>4 DEF Lists, FewStreams, PairOfDeps, ListOfStreams
<1>4. CASE ResolveBaseStreams
  <2>1. mmd' = WithSupport(WithRealStreams(table, mmd), params, params.released)
    BY <1>4 DEF ResolveBaseStreams
  <2>2. Numbered(WithRealStreams(table, mmd))
    BY ReplaceNumbered DEF WithRealStreams
  <2>3. Lists(mmd')
    BY <2>1, <2>2, RealLists, SupportLists
  <2>4. UNCHANGED pairs
    BY <1>4 DEF ResolveBaseStreams
  <2> QED BY <1>2, <2>3, <2>4 DEF Lists, FewStreams, PairOfDeps, ListOfStreams
<1>5. CASE ExpandStreams
  <2>1. UNCHANGED mmd
    BY <1>5 DEF ExpandStreams
  <2>2. UNCHANGED pairs \/ pairs' = [i \in DOMAIN mmd |-> [br  |-> ExpandDeps(mmd[i].br),
                                                         req |-> ExpandDeps(mmd[i].req)]]
    BY <1>5 DEF ExpandStreams
  <2>3. \A i \in DOMAIN mmd : \A n \in DOMAIN mmd[i].br : IsFiniteSet(Expanded(n, mmd[i].br[n]))
    BY ExpandedFinite DEF Lists, PairOfDeps
  <2>4. FewStreams(pairs')
    BY <2>2, <2>3 DEF FewStreams, ExpandDeps
  <2> QED BY <1>2, <2>1, <2>4 DEF Lists, FewStreams, PairOfDeps, ListOfStreams
<1>6. UNCHANGED <<mmd, pairs>> => Lists(mmd)' /\ FewStreams(pairs)'
  BY DEF Lists, FewStreams, PairOfDeps, ListOfStreams
<1> QED
  BY <1>2, <1>3, <1>4, <1>5, <1>6
     DEF Next, vars, CollectBuildrequires, CollectRequires, Solve, TestCombination, NextPair, Generate

(* What is looked up by name is no base module.                             *)
LEMMA LookedUp ==
  ASSUME NEW K, \A k \in K : k[1] \notin BaseModule, NEW r \in UNION Range(LookUp(K))
  PROVE  Ready(r)
<1>1. PICK k \in K, b \in AllBases : r \in Buildrequired(table, k[1], k[2], b)
  BY DEF LookUp, Range
<1>2. r.name = k[1]
  BY <1>1 DEF Buildrequired, KojiBuildrequired, DBBuildrequired, FilterInherited, Newest
<1> QED BY <1>1, <1>2 DEF Ready

(* The keys that are looked up are not of base modules.                     *)
LEMMA KeyNames == ASSUME NEW D, NEW k \in Keys(D) PROVE k[1] \notin BaseModule
BY DEF Keys

(* Nothing comes of a merger but what was in one of the two.                *)
LEMMA Merged ==
  ASSUME NEW f, NEW g, NEW r \in UNION Range(Merge(f, g))
  PROVE  r \in UNION Range(f) \/ r \in UNION Range(g)
<1>1. PICK k \in DOMAIN Merge(f, g) : r \in Merge(f, g)[k]
  BY DEF Range
<1>2. (k \in DOMAIN f /\ r \in f[k]) \/ (k \in DOMAIN g /\ r \in g[k])
  BY <1>1 DEF Merge
<1> QED BY <1>2 DEF Range

(* The base modules among what is found stay ready.                         *)
LEMMA PoolNext ==
  ASSUME Numbered(pairs), Alike(table), FewStreams(pairs), ReadyPool, [Next]_vars
  PROVE  ReadyPool'
<1>1. CASE CollectBuildrequires
  <2>1. ReadyBases \subseteq ReadyIn(table)
    <3>1. BaseModules(table, pairs) \in BaseSets(table, ReadyIn(table))
      BY WhichReady, BaseModulesReady
    <3> QED BY <3>1 DEF ReadyBases, BaseSets
  <2> DEFINE bases == [k \in {<<r.name, r.stream>> : r \in ReadyBases} |->
                          {r \in ReadyBases : <<r.name, r.stream>> = k}]
             K     == UNION {Keys(pairs[i].br) : i \in DOMAIN pairs}
  <2>2. UNCHANGED found \/ found' = Merge(bases, LookUp(K))
    BY <1>1 DEF CollectBuildrequires
  <2>3. \A r \in UNION Range(bases) : Ready(r)
    BY <2>1 DEF Range, Ready, ReadyIn
  <2>4. \A r \in UNION Range(LookUp(K)) : Ready(r)
    <3>1. \A k \in K : k[1] \notin BaseModule
      BY KeyNames
    <3> HIDE DEF K
    <3> QED BY <3>1, LookedUp
  <2> HIDE DEF bases, K
  <2>5. \A r \in UNION Range(found') : Ready(r)
    BY <2>2, <2>3, <2>4, Merged DEF ReadyPool, Pool
  <2> QED BY <2>5 DEF ReadyPool, Pool, Ready, Range
<1>2. CASE CollectRequires
  <2> DEFINE K == UNION {Keys(D) : D \in frames}
  <2>1. UNCHANGED found \/ found' = Merge(found, LookUp(K))
    BY <1>2 DEF CollectRequires
  <2>2. \A r \in UNION Range(LookUp(K)) : Ready(r)
    <3>1. \A k \in K : k[1] \notin BaseModule
      BY KeyNames
    <3> HIDE DEF K
    <3> QED BY <3>1, LookedUp
  <2> HIDE DEF K
  <2>3. \A r \in UNION Range(found') : Ready(r)
    BY <2>1, <2>2, Merged DEF ReadyPool, Pool
  <2> QED BY <2>3 DEF ReadyPool, Pool, Ready, Range
<1>3. UNCHANGED found => ReadyPool'
  BY DEF ReadyPool, Pool, Ready, Range
<1> QED
  BY <1>1, <1>2, <1>3
     DEF Next, vars, ApplyOverrides, ResolveBaseStreams, ExpandStreams, Solve, TestCombination,
         NextPair, Generate

(* What the solver stores is from what was found.                           *)
LEMMA AltsNext == ASSUME Untried, AltsInPool, [Next]_vars PROVE AltsInPool'
<1>1. UNCHANGED found => Pool' = Pool
  BY DEF Pool, Range
<1>2. UNCHANGED <<found, alts>> => AltsInPool'
  BY <1>1 DEF AltsInPool
<1>3. CASE TestCombination
  <2>1. UNCHANGED found
    BY <1>3 DEF TestCombination
  <2> DEFINE D   == pairs[current].br
             f   == CHOOSE g \in todo : TRUE
             key == <<current, StreamsOf(f)>>
  <2>2. UNCHANGED alts \/ \E S \in Solutions(D) : alts' = Merge(alts, [k \in {key} |-> {S}])
    BY <1>3 DEF TestCombination
  <2>3. ASSUME NEW S \in Solutions(D), alts' = Merge(alts, [k \in {key} |-> {S}]) PROVE AltsInPool'
    <3>1. S \subseteq Pool
      BY DEF Solutions
    <3> HIDE DEF key
    <3>2. \A k \in DOMAIN alts' : \A U \in alts'[k] : (k \in DOMAIN alts /\ U \in alts[k]) \/ U = S
      BY <2>3 DEF Merge
    <3> QED BY <3>1, <3>2, <2>1, <1>1 DEF AltsInPool
  <2> QED BY <2>1, <2>2, <2>3, <1>2
<1>4. CASE NextPair
  <2>1. UNCHANGED found
    BY <1>4 DEF NextPair
  <2>2. UNCHANGED alts \/ alts' = [k \in {<<current, <<>>>>} |-> {{}}]
    BY <1>4 DEF NextPair
  <2>3. alts' = [k \in {<<current, <<>>>>} |-> {{}}] => AltsInPool'
    BY DEF AltsInPool
  <2> QED BY <2>1, <2>2, <2>3, <1>2
<1>5. CASE CollectBuildrequires \/ CollectRequires
  <2>1. UNCHANGED alts /\ pc \in {"collect", "requires"}
    BY <1>5 DEF CollectBuildrequires, CollectRequires
  <2>2. alts' = <<>>
    BY <2>1 DEF Untried
  <2> QED BY <2>1, <2>2 DEF AltsInPool
<1>6. CASE \/ ApplyOverrides \/ ResolveBaseStreams \/ ExpandStreams \/ Solve
           \/ Generate \/ UNCHANGED vars
  <2>1. UNCHANGED <<found, alts>>
    BY <1>6 DEF ApplyOverrides, ResolveBaseStreams, ExpandStreams, Solve, Generate, vars
  <2> QED BY <2>1, <1>2
<1> QED BY <1>3, <1>4, <1>5, <1>6 DEF Next

-----------------------------------------------------------------------------
(* What is made.                                                            *)

(* gen[k] is made for the choice k of streams, of a set stored for it.      *)
MadeFrom(gen) ==
  /\ made = {gen[k] : k \in DOMAIN alts}
  /\ \A k \in DOMAIN alts : /\ gen[k].pair = k[1] /\ gen[k].br \in alts[k]
                            /\ gen[k].context[1] = BuildContext(gen[k].br)

AllMade == /\ pc = "done" => Progress(alts, current, todo) /\ \E gen : MadeFrom(gen)
           /\ pc # "done" => made = {}

(* A pair without buildrequires is the only one that anything is stored for.*)
Lone == pc \in {"solve", "done"} =>
  /\ todo # {} => DOMAIN pairs[current].br # {}
  /\ \A k \in DOMAIN alts :
       DOMAIN pairs[k[1]].br = {} =>
         DOMAIN alts = {k} /\ alts[k] = {{}} /\ current \notin DOMAIN pairs

MadeInv == /\ FiniteInv
           /\ Pool \subseteq table
           /\ AltsInPool /\ AllMade /\ Lone

(* What is found is in the table.                                           *)
LEMMA FoundInTable ==
  ASSUME Numbered(pairs), FewStreams(pairs), Pool \subseteq table, [Next]_vars
  PROVE  (Pool \subseteq table)'
<1>1. BaseModules(table, pairs) \in BaseSets(table, table)
  BY WhichReady, BaseModulesReady
<1>2. \A K : UNION Range(LookUp(K)) \subseteq table
  <2> SUFFICES ASSUME NEW K, NEW r \in UNION Range(LookUp(K)) PROVE r \in table
    OBVIOUS
  <2>1. PICK k \in K, b \in AllBases : r \in Buildrequired(table, k[1], k[2], b)
    BY DEF LookUp, Range
  <2> QED
    BY <2>1 DEF Buildrequired, KojiBuildrequired, DBBuildrequired, FilterInherited, Newest
<1>3. UNCHANGED table
  BY TableStays
<1>4. CASE CollectBuildrequires
  <2> DEFINE bases == [k \in {<<r.name, r.stream>> : r \in ReadyBases} |->
                          {r \in ReadyBases : <<r.name, r.stream>> = k}]
             K     == UNION {Keys(pairs[i].br) : i \in DOMAIN pairs}
  <2>1. UNCHANGED found \/ found' = Merge(bases, LookUp(K))
    BY <1>4 DEF CollectBuildrequires
  <2>2. UNION Range(bases) \subseteq table
    BY <1>1 DEF Range, ReadyBases, BaseSets
  <2> HIDE DEF bases, K
  <2>3. UNION Range(found') \subseteq table
    BY <2>1, <2>2, <1>2, Merged DEF Pool
  <2> QED BY <2>3, <1>3 DEF Pool, Range
<1>5. CASE CollectRequires
  <2> DEFINE K == UNION {Keys(D) : D \in frames}
  <2>1. UNCHANGED found \/ found' = Merge(found, LookUp(K))
    BY <1>5 DEF CollectRequires
  <2> HIDE DEF K
  <2>2. UNION Range(found') \subseteq table
    BY <2>1, <1>2, Merged DEF Pool
  <2> QED BY <2>2, <1>3 DEF Pool, Range
<1>6. UNCHANGED found => (Pool \subseteq table)'
  BY <1>3 DEF Pool, Range
<1> QED
  BY <1>4, <1>5, <1>6
     DEF Next, vars, ApplyOverrides, ResolveBaseStreams, ExpandStreams, Solve, TestCombination,
         NextPair, Generate


(* Nothing is made before the search is over, and then of what it stored.   *)
LEMMA AllMadeNext == ASSUME Searching, AllMade, [Next]_vars PROVE AllMade'
<1>1. CASE Generate
  <2>1. /\ UNCHANGED <<table, mmd, pairs, found, alts, current, todo>> /\ pc = "solve" /\ made = {}
    BY <1>1 DEF Generate, AllMade
  <2>2. CASE pc' = "done"
    <3>1. PICK choice \in [DOMAIN alts -> UNION {Best(alts[k]) : k \in DOMAIN alts}] :
            /\ \A k \in DOMAIN alts : choice[k] \in Best(alts[k])
            /\ made' = {Generated(k[1], choice[k]) : k \in DOMAIN alts}
      BY <1>1, <2>2 DEF Generate, Fail
    <3>2. \A k \in DOMAIN alts : choice[k] \in alts[k]
      BY <3>1 DEF Best
    <3>3. PICK gen : gen = [k \in DOMAIN alts |-> Generated(k[1], choice[k])]
      OBVIOUS
    <3>4. \A i, S : /\ Generated(i, S).pair = i /\ Generated(i, S).br = S
                    /\ Generated(i, S).context[1] = BuildContext(S)
      BY DEF Generated
    <3>5. MadeFrom(gen)'
      <4>1. \A k \in DOMAIN alts : gen[k] = Generated(k[1], choice[k])
        BY <3>3
      <4>2. made' = {gen[k] : k \in DOMAIN alts}
        BY <3>1, <4>1
      <4>3. \A k \in DOMAIN alts : /\ gen[k].pair = k[1] /\ gen[k].br \in alts[k]
                                   /\ gen[k].context[1] = BuildContext(gen[k].br)
        BY <3>2, <3>4, <4>1
      <4>4. (\A k \in DOMAIN alts : /\ gen[k].pair = k[1] /\ gen[k].br \in alts[k]
                                    /\ gen[k].context[1] = BuildContext(gen[k].br))'
        BY <2>1, <4>3 DEF BuildContext
      <4> QED BY <2>1, <4>2, <4>4 DEF MadeFrom
    <3>6. Progress(alts', current', todo')
      BY <2>1 DEF Searching
    <3>7. Progress(alts, current, todo)'
      BY <2>1, <3>6, ProgressPrimed
    <3> QED BY <2>2, <3>5, <3>7 DEF AllMade
  <2>3. CASE pc' # "done"
    <3>1. UNCHANGED made
      BY <1>1, <2>3 DEF Generate
    <3> QED BY <2>1, <2>3, <3>1 DEF AllMade
  <2> QED BY <2>2, <2>3
<1>2. CASE Next /\ ~Generate
  <2>1. UNCHANGED made /\ pc # "done" /\ pc' # "done"
    <3>1. CASE ApplyOverrides
      BY <3>1, Zenon DEF ApplyOverrides, Fail
    <3>2. CASE ResolveBaseStreams
      BY <3>2 DEF ResolveBaseStreams
    <3>3. CASE ExpandStreams
      BY <3>3, Zenon DEF ExpandStreams, Fail
    <3>4. CASE CollectBuildrequires
      BY <3>4, Zenon DEF CollectBuildrequires, Fail
    <3>5. CASE CollectRequires
      BY <3>5, Zenon DEF CollectRequires, Fail
    <3>6. CASE Solve
      BY <3>6 DEF Solve, Fail
    <3>7. CASE TestCombination
      BY <3>7, Zenon DEF TestCombination, Fail
    <3>8. CASE NextPair
      BY <3>8 DEF NextPair
    <3> QED BY <1>2, <3>1, <3>2, <3>3, <3>4, <3>5, <3>6, <3>7, <3>8 DEF Next
  <2> QED BY <2>1 DEF AllMade
<1>3. CASE UNCHANGED vars
  <2>1. UNCHANGED <<table, mmd, pc, pairs, found, current, todo, alts, made>>
    BY <1>3 DEF vars
  <2>2. pc = "done" => Progress(alts, current, todo)'
    BY <2>1, ProgressPrimed DEF AllMade
  <2>3. pc = "done" => (\E gen : MadeFrom(gen))'
    <3> SUFFICES ASSUME pc = "done" PROVE (\E gen : MadeFrom(gen))'
      OBVIOUS
    <3>1. PICK gen : MadeFrom(gen)
      BY DEF AllMade
    <3>2. MadeFrom(gen)'
      BY <2>1, <3>1 DEF MadeFrom, BuildContext
    <3> QED BY <3>2
  <2> QED BY <2>1, <2>2, <2>3 DEF AllMade
<1> QED BY <1>1, <1>2, <1>3

(* A pair without buildrequires is stored when it is the last one.          *)
LEMMA LoneNext ==
  ASSUME Numbered(pairs), Untried, Searching, Lone, [Next]_vars
  PROVE  Lone'
<1>1. CASE Solve
  <2> SUFFICES ASSUME pc' = "solve" PROVE Lone'
    BY <1>1 DEF Lone, Solve, Fail
  <2>1. UNCHANGED pairs /\ alts' = <<>> /\ StartPair(1)
    BY <1>1 DEF Solve, Fail, Untried
  <2> QED BY <2>1 DEF Lone, StartPair
<1>2. CASE TestCombination
  <2> SUFFICES ASSUME pc' = "solve" PROVE Lone'
    BY <1>2 DEF Lone, TestCombination, Fail
  <2> DEFINE D   == pairs[current].br
             f   == CHOOSE g \in todo : TRUE
             key == <<current, StreamsOf(f)>>
  <2>1. UNCHANGED <<pairs, current>> /\ pc = "solve" /\ todo # {} /\ todo' \subseteq todo
    BY <1>2 DEF TestCombination, Fail
  <2>2. UNCHANGED alts \/ \E S : alts' = Merge(alts, [k \in {key} |-> {S}])
    BY <1>2 DEF TestCombination
  <2>3. DOMAIN D # {} /\ current \in DOMAIN pairs
    BY <2>1 DEF Lone, Searching, Progress
  <2>4. key[1] = current
    OBVIOUS
  <2> HIDE DEF key
  <2>5. \A k \in DOMAIN alts' : k \in DOMAIN alts \/ k = key
    BY <2>2 DEF Merge
  <2>6. \A k \in DOMAIN alts : DOMAIN pairs[k[1]].br # {}
    BY <2>1, <2>3 DEF Lone
  <2> QED BY <2>1, <2>3, <2>4, <2>5, <2>6 DEF Lone
<1>3. CASE NextPair
  <2>1. /\ UNCHANGED <<pairs, pc>> /\ pc = "solve" /\ current \in DOMAIN pairs
    BY <1>3 DEF NextPair
  <2>2. \A k \in DOMAIN alts : DOMAIN pairs[k[1]].br # {}
    BY <2>1 DEF Lone
  <2>3. CASE DOMAIN pairs[current].br = {}
    <3> DEFINE key == <<current, <<>>>>
    <3>1. alts' = [k \in {key} |-> {{}}] /\ StartPair(Len(pairs) + 1)
      BY <1>3, <2>3 DEF NextPair
    <3> HIDE DEF key
    <3>2. /\ DOMAIN alts' = {key} /\ alts'[key] = {{}}
          /\ current' = Len(pairs) + 1 /\ current' \notin DOMAIN pairs
      BY <3>1, NumberedLen DEF StartPair
    <3>3. todo' = {}
      BY <3>1, <3>2 DEF StartPair
    <3> QED BY <2>1, <3>2, <3>3 DEF Lone
  <2>4. CASE DOMAIN pairs[current].br # {}
    <3>1. UNCHANGED alts /\ StartPair(current + 1)
      BY <1>3, <2>4 DEF NextPair
    <3>2. todo' # {} => DOMAIN pairs[current'].br # {}
      BY <3>1 DEF StartPair
    <3> QED BY <2>1, <2>2, <3>1, <3>2 DEF Lone
  <2> QED BY <2>3, <2>4
<1>4. CASE Generate
  <2>1. UNCHANGED <<pairs, alts, current, todo>> /\ pc = "solve"
    BY <1>4 DEF Generate
  <2> QED BY <2>1 DEF Lone
<1>5. CASE ApplyOverrides \/ ResolveBaseStreams \/ ExpandStreams \/ CollectBuildrequires \/ CollectRequires
  <2>1. pc' \notin {"solve", "done"}
    <3>1. CASE ApplyOverrides
      BY <3>1, Zenon DEF ApplyOverrides, Fail
    <3>2. CASE ResolveBaseStreams
      BY <3>2 DEF ResolveBaseStreams
    <3>3. CASE ExpandStreams
      BY <3>3, Zenon DEF ExpandStreams, Fail
    <3>4. CASE CollectBuildrequires
      BY <3>4, Zenon DEF CollectBuildrequires, Fail
    <3>5. CASE CollectRequires
      BY <3>5, Zenon DEF CollectRequires, Fail
    <3> QED BY <1>5, <3>1, <3>2, <3>3, <3>4, <3>5
  <2> QED BY <2>1 DEF Lone
<1>6. CASE UNCHANGED vars
  BY <1>6 DEF vars, Lone
<1> QED BY <1>1, <1>2, <1>3, <1>4, <1>5, <1>6 DEF Next

(* What is made is what was found, stored and chosen.                       *)
LEMMA MadeAlways == Spec => []MadeInv
<1>1. Init => MadeInv
  <2> SUFFICES ASSUME Init PROVE MadeInv
    OBVIOUS
  <2>1. Pool \subseteq table
    BY DEF Init, Pool, Range
  <2>2. AltsInPool /\ AllMade /\ Lone
    BY DEF Init, AltsInPool, AllMade, Lone
  <2> QED BY <2>1, <2>2, InitFinite DEF MadeInv
<1>2. Inv /\ MadeInv /\ [Next]_vars => MadeInv'
  <2> SUFFICES ASSUME Inv, MadeInv, [Next]_vars PROVE MadeInv'
    OBVIOUS
  <2>1. FiniteInv'
    BY ListsNext DEF Inv, MadeInv, FiniteInv
  <2>2. (Pool \subseteq table)'
    BY FoundInTable DEF Inv, MadeInv, FiniteInv
  <2> QED BY <2>1, <2>2, AltsNext, AllMadeNext, LoneNext DEF Inv, MadeInv
<1> QED BY <1>1, <1>2, InvAlways, PTL DEF Spec


(* What is made has one of the sets stored for its pair, with the modules   *)
(* of some choice of streams.                                               *)
LEMMA MadeOfStored ==
  ASSUME MadeInv, NEW gen, MadeFrom(gen), pc = "done", NEW k \in DOMAIN alts
  PROVE  LET g == gen[k]
         IN /\ g.pair = k[1] /\ g.br \in alts[k] /\ g.br \subseteq Pool
            /\ k = <<k[1], k[2]>> /\ k[1] \in DOMAIN pairs
            /\ Consistent(g.br) /\ Chosen(k[1], k[2], g.br)
            /\ g.context[1] = BuildContext(g.br)
<1>1. gen[k].pair = k[1] /\ gen[k].br \in alts[k] /\ gen[k].context[1] = BuildContext(gen[k].br)
  BY DEF MadeFrom
<1>2. Progress(alts, current, todo) /\ AltsInPool
  BY DEF MadeInv, AllMade
<1> QED BY <1>1, <1>2 DEF Progress, AltsConsistent, AltsChosen, AltsInPool

(* So is everything that is made.                                           *)
LEMMA MadeInPool ==
  ASSUME MadeInv, NEW g \in made
  PROVE  /\ pc = "done" /\ g.br \subseteq Pool /\ Consistent(g.br) /\ g.pair \in DOMAIN pairs
         /\ \E s : Chosen(g.pair, s, g.br)
<1>1. pc = "done"
  BY DEF MadeInv, AllMade
<1>2. PICK gen : MadeFrom(gen)
  BY <1>1 DEF MadeInv, AllMade
<1>3. PICK k \in DOMAIN alts : g = gen[k]
  BY <1>2 DEF MadeFrom
<1> QED BY <1>1, <1>2, <1>3, MadeOfStored

(* The hypothesis. get_base_module_mmds takes any context of the newest     *)
(* version of a base module that is ready, whatever the state of that       *)
(* context: a base module "can appear only in single context", it says.     *)
BasesAlike == \A t \in Tables : Alike(t)

(* No modulemd is built against an end-of-life base module, for every       *)
(* table, modulemd and request, if the contexts of one version of a base    *)
(* module are ready together (get_mmds_required_by_module_recursively).     *)
THEOREM OnlyReadyBasesHolds == ASSUME BasesAlike PROVE Spec => []OnlyReadyBases
<1>1. Init => BaseInv
  BY DEF Init, BasesAlike, BaseInv, ReadyPool, Pool, Range
<1>2. Inv /\ MadeInv /\ BaseInv /\ [Next]_vars => BaseInv'
  <2> SUFFICES ASSUME Inv, MadeInv, BaseInv, [Next]_vars PROVE BaseInv'
    OBVIOUS
  <2>1. Alike(table)'
    BY TableStays DEF BaseInv, Alike
  <2> QED BY <2>1, PoolNext DEF Inv, MadeInv, BaseInv, FiniteInv
<1>3. MadeInv /\ BaseInv => OnlyReadyBases
  BY MadeInPool DEF BaseInv, ReadyPool, Ready, OnlyReadyBases
<1> QED BY <1>1, <1>2, <1>3, InvAlways, MadeAlways, PTL DEF Spec

-----------------------------------------------------------------------------
(* Different builds.                                                        *)

(* Pairs that are apart get different build contexts.                       *)
LEMMA ApartContexts ==
  ASSUME NEW i, NEW j, NEW n \in DOMAIN pairs[i].br \cap DOMAIN pairs[j].br,
         \A r, q \in Pool : MetExactly(r, n, pairs[i].br[n]) /\ MetExactly(q, n, pairs[j].br[n])
                              => r.stream # q.stream,
         NEW S, NEW s, Chosen(i, s, S), NEW U, NEW u, Chosen(j, u, U), Consistent(U)
  PROVE  BuildContext(S) # BuildContext(U)
<1>1. PICK f \in Combinations(pairs[i].br) : Range(f) \subseteq S
  BY DEF Chosen
<1>2. PICK h \in Combinations(pairs[j].br) : Range(h) \subseteq U
  BY DEF Chosen
<1>3. /\ f[n] \in Pool /\ h[n] \in Pool /\ f[n] \in S /\ h[n] \in U
      /\ f[n].name = n /\ h[n].name = n
  BY <1>1, <1>2, CombinationNames
<1>4. MetExactly(f[n], n, pairs[i].br[n]) /\ MetExactly(h[n], n, pairs[j].br[n])
  BY DEF Combinations
<1>5. f[n].stream # h[n].stream
  BY <1>3, <1>4
<1> SUFFICES ASSUME BuildContext(S) = BuildContext(U) PROVE FALSE
  OBVIOUS
<1>6. <<n, f[n].stream>> \in BuildContext(U)
  BY <1>3 DEF BuildContext
<1>7. PICK q \in U : <<q.name, q.stream>> = <<n, f[n].stream>>
  BY <1>6 DEF BuildContext
<1>8. q = h[n]
  BY <1>3, <1>7 DEF Consistent
<1> QED BY <1>5, <1>7, <1>8

(* The modulemds of one request are different builds, for every table,      *)
(* modulemd and request, unless they are of two pairs of dependencies that  *)
(* can be built with the same modules (get_build_from_nsvc in               *)
(* submit_module_build).                                                    *)
THEOREM DistinctBuildsHolds == Spec => []DistinctBuilds
<1>1. Inv /\ MadeInv => DistinctBuilds
  <2> SUFFICES ASSUME Inv, MadeInv, NEW g \in made, NEW h \in made, g # h,
                      g.pair = h.pair \/ Apart(g.pair, h.pair)
               PROVE  g.context[1] # h.context[1]
    BY Zenon DEF DistinctBuilds
  <2>1. pc = "done"
    BY MadeInPool
  <2>2. PICK gen : MadeFrom(gen)
    BY <2>1 DEF MadeInv, AllMade
  <2>3. PICK k \in DOMAIN alts : g = gen[k]
    BY <2>2 DEF MadeFrom
  <2>4. PICK l \in DOMAIN alts : h = gen[l]
    BY <2>2 DEF MadeFrom
  <2>5. /\ g.pair = k[1] /\ k[1] \in DOMAIN pairs /\ Chosen(k[1], k[2], g.br)
        /\ g.context[1] = BuildContext(g.br)
    BY <2>1, <2>2, <2>3, MadeOfStored
  <2>6. /\ h.pair = l[1] /\ l[1] \in DOMAIN pairs /\ Chosen(l[1], l[2], h.br) /\ Consistent(h.br)
        /\ h.context[1] = BuildContext(h.br)
    BY <2>1, <2>2, <2>4, MadeOfStored
  <2>7. CASE k[1] = l[1]
    BY <2>1, <2>5, <2>6, <2>7 DEF Inv, OnePerChoice
  <2>8. CASE k[1] # l[1]
    <3>2. PICK n \in DOMAIN pairs[k[1]].br \cap DOMAIN pairs[l[1]].br : \A r, q \in Pool :
            MetExactly(r, n, pairs[k[1]].br[n]) /\ MetExactly(q, n, pairs[l[1]].br[n])
              => r.stream # q.stream
      BY <2>5, <2>6, <2>8 DEF Apart
    <3>3. BuildContext(g.br) # BuildContext(h.br)
      BY <2>5, <2>6, <3>2, ApartContexts
    <3> QED BY <2>5, <2>6, <3>3
  <2> QED BY <2>7, <2>8
<1> QED BY <1>1, InvAlways, MadeAlways, PTL


-----------------------------------------------------------------------------
(* Stream versions.                                                         *)

Written == [value : Nat, len : Nat]

(* What is written of the numbers of a stream, the first i of them.         *)
IsWritten(u, s) ==
  u = [i \in 0..Len(Sections[s]) |->
         IF i = 0 THEN [value |-> 0, len |-> 0] ELSE Write(u[i - 1], Sections[s][i])]

(* One more number is written.                                              *)
LEMMA WriteNumber ==
  ASSUME NEW d \in Written, NEW n \in Nat
  PROVE  /\ Write(d, n) \in Written
         /\ n < 100 => Write(d, n) = [value |-> d.value * 100 + n, len |-> d.len + 2]
<1>1. Power[2] = 100 /\ Power[3] = 1000
  BY DEF Power
<1>2. (n < 100 => Width(n) = 2) /\ Width(n) \in {2, 3}
  BY DEF Width
<1>3. d.value * 100 + n \in Nat /\ d.value * 1000 + n \in Nat
  BY DEF Written
<1>4. Write(d, n) = [value |-> d.value * Power[Width(n)] + n, len |-> d.len + Width(n)]
  BY DEF Write
<1>5. Power[Width(n)] \in {100, 1000}
  BY <1>1, <1>2
<1>6. d.value * Power[Width(n)] + n \in Nat /\ d.len + Width(n) \in Nat
  BY <1>2, <1>3, <1>5 DEF Written
<1> QED BY <1>1, <1>2, <1>4, <1>6 DEF Written

(* All numbers of a stream are written.                                     *)
LEMMA DigitsWritten ==
  ASSUME NEW s \in DOMAIN Sections
  PROVE  \E u : /\ IsWritten(u, s) /\ Digits[s] = u[Len(Sections[s])] /\ Digits[s] \in Written
<1> DEFINE N    == Len(Sections[s])
           none == [value |-> 0, len |-> 0]
           Step == [i \in Nat |-> [d \in Written |-> IF i \in 1..N THEN Write(d, Sections[s][i]) ELSE d]]
<1>1. N \in Nat /\ \A i \in 1..N : Sections[s][i] \in Nat
  BY SectionsAssumption
<1>2. Step \in [Nat -> [Written -> Written]]
  BY <1>1, WriteNumber
<1>3. \A i \in 1..N : \A d \in Written : Step[i][d] = Write(d, Sections[s][i])
  BY <1>1
<1>4. none \in Written
  BY DEF Written
<1> HIDE DEF Step
<1>5. PICK g : Recursion(g, Written, none, Step, N)
  BY <1>1, <1>2, <1>4, RecursionExists
<1>6. IsWritten(g, s)
  <2> USE <1>5 DEF Recursion
  <2>1. g = [i \in 0..N |-> g[i]]
    OBVIOUS
  <2>2. ASSUME NEW i \in 0..N
        PROVE  g[i] = IF i = 0 THEN none ELSE Write(g[i - 1], Sections[s][i])
    <3>1. CASE i = 0
      BY <3>1
    <3>2. CASE i # 0
      <4>1. i \in 1..N /\ i - 1 \in 0..N
        BY <3>2, <1>1
      <4> QED BY <4>1, <3>2, <1>3
    <3> QED BY <3>1, <3>2
  <2> QED BY <2>1, <2>2 DEF IsWritten
<1>7. ASSUME NEW u, IsWritten(u, s) PROVE u[N] \in Written
  <2>1. u[0] \in Written
    BY <1>1, <1>4, <1>7 DEF IsWritten
  <2>2. ASSUME NEW i \in 1..N, u[i - 1] \in Written PROVE u[i] \in Written
    <3>1. i \in 0..N /\ i # 0
      BY <1>1
    <3>2. u[i] = Write(u[i - 1], Sections[s][i])
      BY <1>7, <3>1 DEF IsWritten
    <3> QED BY <3>2, <2>2, <1>1, WriteNumber
  <2> QED BY <2>1, <2>2, <1>1, LastInside
<1> DEFINE w == CHOOSE u : IsWritten(u, s)
<1>8. IsWritten(w, s)
  BY <1>6, Zenon
<1>9. Digits[s] = w[N]
  BY DEF Digits, IsWritten
<1> HIDE DEF w, N
<1> QED BY <1>7, <1>8, <1>9 DEF N

(* Versions are numbers.                                                    *)
LEMMA VersionType ==
  ASSUME NEW s \in DOMAIN Sections
  PROVE  StreamVersion[s] \in Nat /\ RawVersion[s] \in Nat
<1>1. Digits[s] \in Written
  BY DigitsWritten
<1>2. \A k \in 1..6 : Power[k] \in Nat
  BY DEF Power
<1>3. Digits[s].value \in Nat /\ Digits[s].len \in Nat
  BY <1>1 DEF Written
<1>4. ASSUME Digits[s].len < 6 PROVE Digits[s].value * Power[6 - Digits[s].len] \in Nat
  <2>1. 6 - Digits[s].len \in 1..6
    BY <1>3, <1>4
  <2>2. Power[6 - Digits[s].len] \in Nat
    BY <2>1, <1>2
  <2> QED BY <1>3, <2>2
<1> QED BY <1>3, <1>4 DEF StreamVersion, RawVersion

(* A stream with three numbers.                                             *)
Three(s) == Sections[s] \in [1..3 -> 0..99]

(* Its version has two digits for each.                                     *)
LEMMA VersionOfThree ==
  ASSUME NEW s \in DOMAIN Sections, Three(s)
  PROVE  RawVersion[s] = (Sections[s][1] * 100 + Sections[s][2]) * 100 + Sections[s][3]
<1>1. Len(Sections[s]) = 3 /\ \A i \in 1..3 : Sections[s][i] \in Nat /\ Sections[s][i] < 100
  BY DEF Three
<1>2. PICK u : IsWritten(u, s) /\ Digits[s] = u[3]
  BY <1>1, DigitsWritten
<1>3. \A i \in 0..3 : u[i] = IF i = 0 THEN [value |-> 0, len |-> 0] ELSE Write(u[i - 1], Sections[s][i])
  BY <1>1, <1>2 DEF IsWritten
<1>4. u[0] \in Written /\ u[0].value = 0
  BY <1>3 DEF Written
<1>5. u[1] \in Written /\ u[1].value = Sections[s][1]
  <2>1. u[1] = Write(u[0], Sections[s][1])
    BY <1>3
  <2>2. Sections[s][1] \in Nat /\ Sections[s][1] < 100
    BY <1>1
  <2>3. u[1] = [value |-> u[0].value * 100 + Sections[s][1], len |-> u[0].len + 2] /\ u[1] \in Written
    BY <2>1, <2>2, <1>4, WriteNumber
  <2> QED BY <2>2, <2>3, <1>4
<1>6. u[2] \in Written /\ u[2].value = Sections[s][1] * 100 + Sections[s][2]
  <2>1. u[2] = Write(u[1], Sections[s][2])
    BY <1>3
  <2>2. Sections[s][2] \in Nat /\ Sections[s][2] < 100
    BY <1>1
  <2>3. u[2] = [value |-> u[1].value * 100 + Sections[s][2], len |-> u[1].len + 2] /\ u[2] \in Written
    BY <2>1, <2>2, <1>5, WriteNumber
  <2> QED BY <2>2, <2>3, <1>5
<1>7. u[3] \in Written /\ u[3].value = (Sections[s][1] * 100 + Sections[s][2]) * 100 + Sections[s][3]
  <2>1. u[3] = Write(u[2], Sections[s][3])
    BY <1>3
  <2>2. Sections[s][3] \in Nat /\ Sections[s][3] < 100
    BY <1>1
  <2>3. u[3] = [value |-> u[2].value * 100 + Sections[s][3], len |-> u[2].len + 2] /\ u[3] \in Written
    BY <2>1, <2>2, <1>6, WriteNumber
  <2> QED BY <2>2, <2>3, <1>6
<1> QED BY <1>2, <1>7 DEF RawVersion

(* So versions are ordered as the numbers are.                              *)
LEMMA VersionOrder ==
  ASSUME NEW s \in DOMAIN Sections, NEW u \in DOMAIN Sections, Three(s), Three(u),
         RawVersion[s] <= RawVersion[u]
  PROVE  Lexicographic(s, u)
<1> DEFINE a == Sections[s]
           b == Sections[u]
           I == {k \in DOMAIN Sections[s] \cap DOMAIN Sections[u] : Sections[s][k] # Sections[u][k]}
<1>1. (a[1] * 100 + a[2]) * 100 + a[3] <= (b[1] * 100 + b[2]) * 100 + b[3]
  BY VersionOfThree
<1>2. \A k \in 1..3 : a[k] \in 0..99 /\ b[k] \in 0..99
  BY DEF Three
<1>3. I = {k \in 1..3 : a[k] # b[k]}
  BY DEF Three
<1>4. CASE I = {}
  BY <1>4 DEF Lexicographic, Three
<1>5. CASE I # {}
  <2> DEFINE first == CHOOSE k \in I : \A j \in I : k <= j
  <2>1. \E k \in I : \A j \in I : k <= j
    <3>1. I \in SUBSET Nat
      BY <1>3
    <3> QED BY <3>1, <1>5, LeastNumber
  <2>2. first \in I /\ \A j \in I : first <= j
    BY <2>1
  <2> HIDE DEF first
  <2>3. a[first] < b[first]
    <3>1. first \in 1..3 /\ \A j \in 1..3 : j < first => a[j] = b[j]
      BY <1>3, <2>2
    <3>2. a[first] # b[first]
      BY <1>3, <2>2
    <3>3. a[1] <= b[1] /\ (a[1] = b[1] => a[2] <= b[2] /\ (a[2] = b[2] => a[3] <= b[3]))
      <4>1. /\ a[1] \in 0..99 /\ a[2] \in 0..99 /\ a[3] \in 0..99
            /\ b[1] \in 0..99 /\ b[2] \in 0..99 /\ b[3] \in 0..99
        BY <1>2
      <4> HIDE DEF a, b
      <4>2. PICK p \in 0..99, q \in 0..99, r \in 0..99, x \in 0..99, y \in 0..99, z \in 0..99 :
              p = a[1] /\ q = a[2] /\ r = a[3] /\ x = b[1] /\ y = b[2] /\ z = b[3]
        BY <4>1
      <4>3. (p * 100 + q) * 100 + r <= (x * 100 + y) * 100 + z
        BY <1>1, <4>2
      <4>4. p <= x /\ (p = x => q <= y /\ (q = y => r <= z))
        BY <4>3
      <4> QED BY <4>2, <4>4
    <3>4. /\ first = 1 => a[1] < b[1]
          /\ first = 2 => a[2] < b[2]
          /\ first = 3 => a[3] < b[3]
      <4> HIDE DEF a, b
      <4>1. \A k \in 1..3 : a[k] \in Nat /\ b[k] \in Nat
        BY <1>2
      <4> QED BY <3>1, <3>2, <3>3, <4>1
    <3>5. first \in {1, 2, 3}
      BY <3>1
    <3> QED BY <3>4, <3>5
  <2> QED BY <1>5, <2>3 DEF Lexicographic, first
<1> QED BY <1>4, <1>5


(* The hypothesis, on the table: a build was built against one base module, *)
(* whose stream has three numbers if its version is compared at all.        *)
OneBase ==
  \A r \in table : \A p, q \in table : p.id \in r.br /\ q.id \in r.br => p = q
ThreeNumbers ==
  \A r, b \in table : r.name \in BaseModule \/ r.id \in b.br =>
    r.stream \in DOMAIN Sections /\ (XYZ[r.stream] => Three(r.stream))
UsualBuilds == OneBase /\ ThreeNumbers

(* A build in a consistent set that requires a stream of a base module was  *)
(* built against none that is newer than the one in the set.                *)
LEMMA NotNewer ==
  ASSUME UsualBuilds, NEW S \in SUBSET table, Consistent(S), NEW r \in S, NEW base \in S,
         base.name \in BaseModule,
         r.req # {}, \A D \in r.req : base.name \in DOMAIN D /\ D[base.name] # {},
         NEW b \in table, b.id \in r.br, XYZ[b.stream]
  PROVE  Lexicographic(b.stream, base.stream)
<1>1. r \in table /\ base \in table
  OBVIOUS
<1>2. b.stream \in DOMAIN Sections /\ Three(b.stream)
  BY <1>1 DEF UsualBuilds, ThreeNumbers
<1>3. base.stream \in DOMAIN Sections /\ (XYZ[base.stream] => Three(base.stream))
  BY <1>1 DEF UsualBuilds, ThreeNumbers
<1>4. \A s : StreamBuiltOn(r, s) = b.stream
  <2> DEFINE B == {q \in table : q.id \in r.br}
  <2>1. B = {b}
    BY <1>1 DEF UsualBuilds, OneBase
  <2>2. (CHOOSE q \in B : TRUE) = b
    BY <2>1
  <2> QED BY <2>1, <2>2 DEF StreamBuiltOn
<1>5. PICK D \in r.req : \A n \in DOMAIN D : \E q \in S : MetBy(r, q, n, D[n])
  BY DEF Consistent, RequiresMet
<1>6. PICK q \in S : MetBy(r, q, base.name, D[base.name])
  BY <1>5
<1>7. q = base
  BY <1>6 DEF MetBy, Consistent
<1>8. RawVersion[base.stream] >= RawVersion[b.stream]
  BY <1>4, <1>6, <1>7 DEF MetBy
<1>9. RawVersion[b.stream] >= 100 /\ RawVersion[b.stream] \in Nat /\ RawVersion[base.stream] \in Nat
  BY <1>2, <1>3, VersionType DEF XYZ
<1>10. Three(base.stream)
  <2>1. RawVersion[base.stream] >= 100
    BY <1>8, <1>9
  <2>2. XYZ[base.stream]
    BY <1>3, <2>1 DEF XYZ
  <2> QED BY <1>3, <2>2
<1> QED BY <1>2, <1>3, <1>8, <1>9, <1>10, VersionOrder

(* A module is never built with a module that was built against a newer     *)
(* base module than its own, for every table of usual builds, modulemd and  *)
(* request (_deps2reqs).                                                    *)
THEOREM BuiltAgainstOlderHolds == Spec /\ UsualBuilds => []BuiltAgainstOlder
<1>1. UsualBuilds /\ [Next]_vars => UsualBuilds'
  BY TableStays DEF UsualBuilds, OneBase, ThreeNumbers, Three
<1>2. MadeInv /\ UsualBuilds => BuiltAgainstOlder
  <2> SUFFICES ASSUME MadeInv, UsualBuilds, NEW g \in made, NEW r \in g.br, NEW base \in g.br,
                      base.name \in BaseModule, r.req # {},
                      \A D \in r.req : base.name \in DOMAIN D /\ D[base.name] # {},
                      NEW b \in table, b.id \in r.br, XYZ[b.stream]
               PROVE  Lexicographic(b.stream, base.stream)
    BY DEF BuiltAgainstOlder
  <2>1. g.br \subseteq table /\ Consistent(g.br)
    BY MadeInPool DEF MadeInv
  <2> QED BY <2>1, NotNewer
<1> QED BY <1>1, <1>2, MadeAlways, PTL DEF Spec


-----------------------------------------------------------------------------
(* What is highest in an order.                                             *)

(* In a finite set something has nothing above it.                          *)
LEMMA Topmost ==
  ASSUME NEW S, IsFiniteSet(S), S # {}, NEW R, \A x \in S : <<x, x>> \notin R,
         \A x, y, z \in S : <<x, y>> \in R /\ <<y, z>> \in R => <<x, z>> \in R
  PROVE  \E m \in S : \A x \in S : <<m, x>> \notin R
<1> DEFINE above(x) == {y \in S : <<x, y>> \in R}
           many     == {Cardinality(above(x)) : x \in S}
<1>1. \A x \in S : above(x) \in SUBSET S /\ IsFiniteSet(above(x))
  <2>1. \A x \in S : above(x) \in SUBSET S
    OBVIOUS
  <2> HIDE DEF above
  <2> QED BY <2>1, FS_Subset
<1>2. many \in SUBSET Nat /\ many # {}
  <2> HIDE DEF above
  <2>1. \A x \in S : Cardinality(above(x)) \in Nat
    BY <1>1, FS_CardinalityType
  <2> QED BY <2>1
<1>3. PICK least \in many : \A k \in many : least <= k
  <2> HIDE DEF many
  <2> QED BY <1>2, LeastNumber
<1>4. PICK m \in S : least = Cardinality(above(m))
  BY <1>3
<1>5. ASSUME NEW x \in S, <<m, x>> \in R PROVE FALSE
  <2>1. above(x) \in SUBSET above(m) /\ x \in above(m) /\ x \notin above(x)
    BY <1>5
  <2>2. Cardinality(above(m)) <= Cardinality(above(x))
    <3> HIDE DEF above
    <3>1. Cardinality(above(x)) \in many
      OBVIOUS
    <3> QED BY <3>1, <1>3, <1>4
  <2>3. IsFiniteSet(above(m)) /\ IsFiniteSet(above(x))
    BY <1>1
  <2> HIDE DEF above
  <2>4. above(x) # above(m)
    BY <2>1
  <2>5. Cardinality(above(x)) <= Cardinality(above(m)) /\ Cardinality(above(x)) # Cardinality(above(m))
    BY <2>1, <2>3, <2>4, FS_Subset
  <2>6. Cardinality(above(x)) \in Nat /\ Cardinality(above(m)) \in Nat
    BY <2>3, FS_CardinalityType
  <2> QED BY <2>2, <2>5, <2>6
<1> QED BY <1>5

(* Of finitely many things with numbers one has the highest.                *)
LEMMA Highest ==
  ASSUME NEW S, IsFiniteSet(S), S # {}, NEW f \in [S -> Int]
  PROVE  \E m \in S : \A x \in S : f[x] <= f[m]
<1> DEFINE R == {p \in S \X S : f[p[1]] < f[p[2]]}
<1>1. \A x, y \in S : <<x, y>> \in R <=> f[x] < f[y]
  OBVIOUS
<1> HIDE DEF R
<1>2. \A x \in S : f[x] \in Int
  OBVIOUS
<1>3. \A x \in S : <<x, x>> \notin R
  BY <1>1, <1>2
<1>4. \A x, y, z \in S : <<x, y>> \in R /\ <<y, z>> \in R => <<x, z>> \in R
  BY <1>1, <1>2
<1>5. PICK m \in S : \A x \in S : <<m, x>> \notin R
  BY <1>3, <1>4, Topmost
<1>6. ASSUME NEW x \in S PROVE f[x] <= f[m]
  <2>1. ~(f[m] < f[x])
    BY <1>1, <1>5
  <2> QED BY <2>1, <1>2
<1> QED BY <1>6

-----------------------------------------------------------------------------
(* Streams of base modules that stand for others.                           *)

(* The hypothesis, on the table. Only base modules have virtual streams,    *)
(* and no stream is also a virtual one.                                     *)
UsualTable ==
  /\ \A r \in table : r.virtual # {} => r.name \in BaseModule /\ r.stream \in DOMAIN Sections
  /\ \A r, q \in table : r.name = q.name => r.stream \notin q.virtual
  /\ \A s \in DOMAIN Support, r \in table : Support[s] \notin r.virtual

(* Stream s is no virtual stream.                                           *)
Settled(n, s) == \A r \in table : r.name = n => s \notin r.virtual

(* The real stream is none, and it is one that was listed or is of a base   *)
(* module that provides that one.                                           *)
LEMMA RealSettled ==
  ASSUME UsualTable, Given, NEW n, NEW s
  PROVE  /\ Settled(n, RealStream(table, n, s))
         /\ \/ RealStream(table, n, s) = s
            \/ \E r \in table : /\ r.name = n /\ s \in r.virtual
                                /\ r.stream = RealStream(table, n, s)
<1> DEFINE V == {r \in table : r.name = n /\ s \in r.virtual}
           L == {r \in V : \A o \in V : StreamVersion[o.stream] <= StreamVersion[r.stream]}
           N == Newest(L)
           own == \E r \in table : r.name = n /\ r.stream = s
<1>1. RealStream(table, n, s) = IF N = {} \/ own THEN s ELSE (CHOOSE r \in N : TRUE).stream
  BY DEF RealStream, LatestWithVirtual
<1>2. CASE own
  BY <1>1, <1>2 DEF UsualTable, Settled
<1>3. CASE ~own /\ V = {}
  <2>1. N = {}
    BY <1>3 DEF Newest
  <2> QED BY <1>1, <1>3, <2>1 DEF Settled
<1>4. CASE ~own /\ V # {}
  <2>1. V \in SUBSET table /\ IsFiniteSet(V)
    <3>1. V \in SUBSET table
      OBVIOUS
    <3> HIDE DEF V
    <3> QED BY <3>1, FS_Subset DEF Given
  <2>2. L # {}
    <3> DEFINE f == [r \in V |-> StreamVersion[r.stream]]
    <3>1. \A r \in V : StreamVersion[r.stream] \in Int
      BY VersionType DEF UsualTable
    <3>2. f \in [V -> Int] /\ \A r \in V : f[r] = StreamVersion[r.stream]
      BY <3>1
    <3> HIDE DEF f, V
    <3>3. PICK m \in V : \A r \in V : f[r] <= f[m]
      BY <1>4, <2>1, <3>2, Highest
    <3> QED BY <3>2, <3>3
  <2>3. L \in SUBSET V /\ IsFiniteSet(L)
    <3>1. L \in SUBSET V
      OBVIOUS
    <3> HIDE DEF L, V
    <3> QED BY <3>1, <2>1, FS_Subset
  <2>4. N # {}
    <3> DEFINE f == [r \in L |-> r.version]
    <3>1. \A r \in L : r.version \in Int
      BY <2>1, <2>3 DEF Given
    <3>2. f \in [L -> Int] /\ \A r \in L : f[r] = r.version
      BY <3>1
    <3> HIDE DEF f, L
    <3>3. PICK m \in L : \A r \in L : f[r] <= f[m]
      BY <2>2, <2>3, <3>2, Highest
    <3> QED BY <3>2, <3>3 DEF Newest
  <2> DEFINE r == CHOOSE r \in N : TRUE
  <2>5. r \in N /\ RealStream(table, n, s) = r.stream
    BY <1>1, <1>4, <2>4
  <2>6. r \in V
    BY <2>3, <2>5 DEF Newest
  <2> HIDE DEF r
  <2> QED BY <2>5, <2>6 DEF UsualTable, Settled
<1> QED BY <1>2, <1>3, <1>4


(* What comes of the lists of a pair for which there are new streams.       *)
LEMMA MappedList ==
  ASSUME NEW p, PairOfDeps(p), NEW new
  PROVE  /\ DOMAIN Mapped(p, new).br = DOMAIN p.br
         /\ \A n \in DOMAIN p.br :
              IF n \in DOMAIN new THEN Mapped(p, new).br[n].plus = new[n]
              ELSE Mapped(p, new).br[n] = p.br[n]
<1> DEFINE br == [n \in DOMAIN p.br |-> IF n \in DOMAIN new THEN [p.br[n] EXCEPT !.plus = new[n]]
                                        ELSE p.br[n]]
<1>1. p = [br |-> p.br, req |-> p.req]
  BY DEF PairOfDeps
<1>2. Mapped(p, new) = [p EXCEPT !.br = br]
  BY DEF Mapped
<1>3. Mapped(p, new).br = br
  BY <1>1, <1>2
<1>4. ASSUME NEW n \in DOMAIN p.br
      PROVE  IF n \in DOMAIN new THEN br[n].plus = new[n] ELSE br[n] = p.br[n]
  <2>1. ListOfStreams(p.br[n])
    BY DEF PairOfDeps
  <2>2. [p.br[n] EXCEPT !.plus = new[n]].plus = new[n]
    BY <2>1 DEF ListOfStreams
  <2> QED BY <2>2
<1> QED BY <1>3, <1>4

(* The lists of a pair after the three steps before streams are expanded.   *)
LEMMA OverriddenList ==
  ASSUME NEW P, Numbered(P), NEW q, NEW k \in DOMAIN P
  PROVE  \E i \in DOMAIN P : Overridden(P, q)[k].br = Replace(P[i].br, BrOverrides(q))
<1> DEFINE Q == [i \in DOMAIN P |-> [br  |-> Replace(P[i].br, BrOverrides(q)),
                                     req |-> Replace(P[i].req, q.req)]]
<1>1. \A i \in DOMAIN P : Q[i].br = Replace(P[i].br, BrOverrides(q))
  OBVIOUS
<1>2. Overridden(P, q) = ReplacePairs(P, Q)
  BY DEF Overridden
<1> HIDE DEF Q
<1> QED BY <1>1, <1>2, EveryPlace

(* E is what becomes of the buildrequires D: base modules get their real    *)
(* streams, and those the request does not override their support streams.  *)
MadeReal(T, D, E) ==
  /\ DOMAIN E = DOMAIN D
  /\ \A n \in DOMAIN D :
       IF n \in BaseModule THEN E[n].plus = {RealStream(T, n, s) : s \in D[n].plus} ELSE E[n] = D[n]
MadeSupported(q, released, D, E) ==
  /\ DOMAIN E = DOMAIN D
  /\ \A n \in DOMAIN D :
       IF n \in BaseModule \ DOMAIN q.br THEN E[n].plus = {Supported(s, released) : s \in D[n].plus}
       ELSE E[n] = D[n]

(* Each base module a pair lists gets real streams, nothing else changes.   *)
LEMMA RealList ==
  ASSUME NEW P, Numbered(P), Lists(P), NEW T, NEW k \in DOMAIN P
  PROVE  \E i \in DOMAIN P : MadeReal(T, P[i].br, WithRealStreams(T, P)[k].br)
<1> DEFINE Q == [i \in DOMAIN P |-> Mapped(P[i], RealStreams(T, P[i].br))]
<1>1. ASSUME NEW i \in DOMAIN P PROVE MadeReal(T, P[i].br, Q[i].br)
  <2> DEFINE new == RealStreams(T, P[i].br)
  <2>1. DOMAIN new = DOMAIN P[i].br \cap BaseModule
    BY DEF RealStreams
  <2>2. \A n \in DOMAIN new : new[n] = {RealStream(T, n, s) : s \in P[i].br[n].plus}
    BY DEF RealStreams
  <2>3. Q[i] = Mapped(P[i], new) /\ PairOfDeps(P[i])
    BY DEF Lists
  <2> HIDE DEF new, Q
  <2>4. /\ DOMAIN Mapped(P[i], new).br = DOMAIN P[i].br
        /\ \A n \in DOMAIN P[i].br :
             IF n \in DOMAIN new THEN Mapped(P[i], new).br[n].plus = new[n]
             ELSE Mapped(P[i], new).br[n] = P[i].br[n]
    BY <2>3, MappedList
  <2>5. ASSUME NEW n \in DOMAIN P[i].br, n \in BaseModule
        PROVE  Q[i].br[n].plus = {RealStream(T, n, s) : s \in P[i].br[n].plus}
    <3>1. n \in DOMAIN new
      BY <2>1, <2>5
    <3>2. Q[i].br[n].plus = new[n]
      BY <2>3, <2>4, <3>1
    <3> QED BY <2>2, <3>1, <3>2
  <2>6. \A n \in DOMAIN P[i].br : n \notin BaseModule => Q[i].br[n] = P[i].br[n]
    BY <2>1, <2>3, <2>4
  <2>7. DOMAIN Q[i].br = DOMAIN P[i].br
    BY <2>3, <2>4
  <2> HIDE DEF Q
  <2> QED BY <2>5, <2>6, <2>7, Zenon DEF MadeReal
<1>2. PICK i \in DOMAIN P : ReplacePairs(P, Q)[k] = Q[i]
  BY EveryPlace
<1>3. WithRealStreams(T, P)[k] = Q[i]
  BY <1>2 DEF WithRealStreams
<1> HIDE DEF Q
<1> QED BY <1>1, <1>3

(* The same for support streams.                                            *)
LEMMA SupportList ==
  ASSUME NEW P, Numbered(P), Lists(P), NEW q, NEW released, NEW k \in DOMAIN P
  PROVE  \E i \in DOMAIN P :
           MadeSupported(q, released, P[i].br, WithSupport(P, q, released)[k].br)
<1> DEFINE Q == [i \in DOMAIN P |-> Mapped(P[i], SupportStreams(P[i].br, q, released))]
<1>1. ASSUME NEW i \in DOMAIN P PROVE MadeSupported(q, released, P[i].br, Q[i].br)
  <2> DEFINE new == SupportStreams(P[i].br, q, released)
  <2>1. DOMAIN new = (DOMAIN P[i].br \cap BaseModule) \ DOMAIN q.br
    BY DEF SupportStreams
  <2>2. \A n \in DOMAIN new : new[n] = {Supported(s, released) : s \in P[i].br[n].plus}
    BY DEF SupportStreams
  <2>3. Q[i] = Mapped(P[i], new) /\ PairOfDeps(P[i])
    BY DEF Lists
  <2> HIDE DEF new, Q
  <2>4. /\ DOMAIN Mapped(P[i], new).br = DOMAIN P[i].br
        /\ \A n \in DOMAIN P[i].br :
             IF n \in DOMAIN new THEN Mapped(P[i], new).br[n].plus = new[n]
             ELSE Mapped(P[i], new).br[n] = P[i].br[n]
    BY <2>3, MappedList
  <2>5. ASSUME NEW n \in DOMAIN P[i].br, n \in BaseModule \ DOMAIN q.br
        PROVE  Q[i].br[n].plus = {Supported(s, released) : s \in P[i].br[n].plus}
    <3>1. n \in DOMAIN new
      BY <2>1, <2>5
    <3>2. Q[i].br[n].plus = new[n]
      BY <2>3, <2>4, <3>1
    <3> QED BY <2>2, <3>1, <3>2
  <2>6. \A n \in DOMAIN P[i].br : n \notin BaseModule \ DOMAIN q.br => Q[i].br[n] = P[i].br[n]
    BY <2>1, <2>3, <2>4
  <2>7. DOMAIN Q[i].br = DOMAIN P[i].br
    BY <2>3, <2>4
  <2> HIDE DEF Q
  <2> QED BY <2>5, <2>6, <2>7, Zenon DEF MadeSupported
<1>2. PICK i \in DOMAIN P : ReplacePairs(P, Q)[k] = Q[i]
  BY EveryPlace
<1>3. WithSupport(P, q, released)[k] = Q[i]
  BY <1>2 DEF WithSupport
<1> HIDE DEF Q
<1> QED BY <1>1, <1>3

(* Nobody asks a base module for a virtual stream when the streams are      *)
(* expanded.                                                                *)
Later == pc \in {"expand", "collect", "requires", "solve", "done"}
SettledBases ==
  Later => \A i \in DOMAIN mmd : \A n \in DOMAIN mmd[i].br \cap BaseModule :
             \A s \in mmd[i].br[n].plus : Settled(n, s)

(* Only ResolveBaseStreams gets to where the streams are expanded, and      *)
(* nothing changes the modulemd after it.                                   *)
LEMMA LaterNext ==
  ASSUME [Next]_vars, Later', ~ResolveBaseStreams
  PROVE  Later /\ UNCHANGED mmd
<1>1. CASE ApplyOverrides
  BY <1>1, Zenon DEF ApplyOverrides, Fail, Later
<1>2. CASE ExpandStreams
  BY <1>2 DEF ExpandStreams, Later
<1>3. CASE CollectBuildrequires
  BY <1>3 DEF CollectBuildrequires, Later
<1>4. CASE CollectRequires
  BY <1>4 DEF CollectRequires, Later
<1>5. CASE Solve
  BY <1>5 DEF Solve, Later
<1>6. CASE TestCombination
  BY <1>6 DEF TestCombination, Later
<1>7. CASE NextPair
  BY <1>7 DEF NextPair, Later
<1>8. CASE Generate
  BY <1>8 DEF Generate, Later
<1>9. CASE UNCHANGED vars
  BY <1>9 DEF vars, Later
<1> QED BY <1>1, <1>2, <1>3, <1>4, <1>5, <1>6, <1>7, <1>8, <1>9 DEF Next

(* The streams are settled by ResolveBaseStreams.                           *)
LEMMA SettledNext ==
  ASSUME Numbered(mmd), FiniteInv, UsualTable, SettledBases, [Next]_vars
  PROVE  SettledBases'
<1>1. UNCHANGED <<table, params>>
  BY TableStays
<1>2. CASE ResolveBaseStreams
  <2> DEFINE W == WithRealStreams(table, mmd)
  <2>1. mmd' = WithSupport(W, params, params.released)
    BY <1>2 DEF ResolveBaseStreams
  <2>2. Numbered(W) /\ Lists(W)
    BY ReplaceNumbered, RealLists DEF WithRealStreams, FiniteInv
  <2>3. DOMAIN W = DOMAIN mmd /\ DOMAIN mmd' = DOMAIN W
    BY <2>1 DEF WithRealStreams, WithSupport, ReplacePairs
  <2>4. ASSUME NEW j \in DOMAIN W, NEW n \in DOMAIN W[j].br \cap BaseModule, NEW s \in W[j].br[n].plus
        PROVE  Settled(n, s)
    <3>1. PICK i \in DOMAIN mmd : MadeReal(table, mmd[i].br, W[j].br)
      <4> HIDE DEF W
      <4>1. j \in DOMAIN mmd
        BY <2>3
      <4> QED BY <4>1, RealList DEF FiniteInv, W
    <3> HIDE DEF W
    <3>2. W[j].br[n].plus = {RealStream(table, n, t) : t \in mmd[i].br[n].plus}
      BY <3>1, <2>4 DEF MadeReal
    <3>3. PICK t : s = RealStream(table, n, t)
      BY <3>2, <2>4
    <3> QED BY <3>3, RealSettled DEF FiniteInv
  <2>5. ASSUME NEW k \in DOMAIN mmd', NEW n \in DOMAIN mmd'[k].br \cap BaseModule,
               NEW s \in mmd'[k].br[n].plus
        PROVE  Settled(n, s)
    <3> HIDE DEF W
    <3>1. PICK j \in DOMAIN W : MadeSupported(params, params.released, W[j].br, mmd'[k].br)
      BY <2>1, <2>2, <2>3, SupportList
    <3>2. s \in W[j].br[n].plus \/ \E t \in W[j].br[n].plus : s = Supported(t, params.released)
      <4>1. n \in DOMAIN W[j].br
        BY <3>1, <2>5 DEF MadeSupported
      <4>2. CASE n \notin DOMAIN params.br
        <5>1. mmd'[k].br[n].plus = {Supported(t, params.released) : t \in W[j].br[n].plus}
          BY <4>1, <4>2, <3>1, <2>5 DEF MadeSupported
        <5> QED BY <5>1, <2>5
      <4>3. CASE n \in DOMAIN params.br
        BY <4>1, <4>3, <3>1, <2>5 DEF MadeSupported
      <4> QED BY <4>2, <4>3
    <3>3. \A t : Supported(t, params.released) = t \/ \E u \in DOMAIN Support :
                   Supported(t, params.released) = Support[u]
      BY DEF Supported
    <3>4. \A u \in DOMAIN Support : Settled(n, Support[u])
      BY DEF UsualTable, Settled
    <3>5. n \in DOMAIN W[j].br \cap BaseModule
      BY <3>1, <2>5 DEF MadeSupported
    <3> QED BY <2>4, <3>2, <3>3, <3>4, <3>5
  <2> QED BY <2>5, <1>1 DEF SettledBases, Settled
<1>3. CASE ~ResolveBaseStreams
  BY <1>1, <1>3, LaterNext DEF SettledBases, Settled
<1> QED BY <1>2, <1>3


-----------------------------------------------------------------------------
(* Local builds.                                                            *)

(* The hypothesis, on the request and the modulemd. The default streams are *)
(* not of base modules, and none is excluded where no stream is listed.     *)
DefaultKept(n, d) == n \in DOMAIN params.defaults /\ d.plus = {} => params.defaults[n] \notin d.minus
DefaultsKept(D)   == \A n \in DOMAIN D : DefaultKept(n, D[n])
UsualDefaults ==
  /\ DOMAIN params.defaults \cap BaseModule = {}
  /\ DefaultsKept(params.br)
  /\ \A i \in DOMAIN mmd : DefaultsKept(mmd[i].br)

(* The default streams stay usable.                                         *)
LEMMA DefaultsNext ==
  ASSUME Numbered(mmd), FiniteInv, UsualDefaults, [Next]_vars
  PROVE  UsualDefaults'
<1>1. UNCHANGED <<table, params>>
  BY TableStays
<1>2. CASE ApplyOverrides
  <2>1. UNCHANGED mmd \/ mmd' = Overridden(mmd, params)
    BY <1>2 DEF ApplyOverrides
  <2>2. DefaultsKept(BrOverrides(params))
    <3>1. DefaultKept(Override, Plus({params.branch}))
      BY DEF DefaultKept, Plus
    <3>2. [n \in {Override} |-> Plus({params.branch})][Override] = Plus({params.branch})
      OBVIOUS
    <3> QED BY <3>1, <3>2 DEF UsualDefaults, DefaultsKept, BrOverrides, Overlay
  <2>3. ASSUME mmd' = Overridden(mmd, params), NEW k \in DOMAIN mmd' PROVE DefaultsKept(mmd'[k].br)
    <3>1. DOMAIN mmd' = DOMAIN mmd
      BY <2>3 DEF Overridden, ReplacePairs
    <3>2. PICK i \in DOMAIN mmd : mmd'[k].br = Replace(mmd[i].br, BrOverrides(params))
      BY <2>3, <3>1, OverriddenList
    <3>3. DefaultsKept(mmd[i].br)
      BY DEF UsualDefaults
    <3> QED BY <2>2, <3>2, <3>3 DEF DefaultsKept, Replace
  <2> QED BY <1>1, <2>1, <2>3 DEF UsualDefaults, DefaultsKept, DefaultKept
<1>3. CASE ResolveBaseStreams
  <2> DEFINE W == WithRealStreams(table, mmd)
  <2>1. mmd' = WithSupport(W, params, params.released)
    BY <1>3 DEF ResolveBaseStreams
  <2>2. Numbered(W) /\ Lists(W)
    BY ReplaceNumbered, RealLists DEF WithRealStreams, FiniteInv
  <2>3. DOMAIN W = DOMAIN mmd /\ DOMAIN mmd' = DOMAIN W
    BY <2>1 DEF WithRealStreams, WithSupport, ReplacePairs
  <2>4. ASSUME NEW j \in DOMAIN W PROVE DefaultsKept(W[j].br)
    <3>1. PICK i \in DOMAIN mmd : MadeReal(table, mmd[i].br, W[j].br)
      <4> HIDE DEF W
      <4>1. j \in DOMAIN mmd
        BY <2>3
      <4> QED BY <4>1, RealList DEF FiniteInv, W
    <3>2. DefaultsKept(mmd[i].br)
      BY DEF UsualDefaults
    <3> HIDE DEF W
    <3> QED BY <3>1, <3>2 DEF UsualDefaults, DefaultsKept, DefaultKept, MadeReal
  <2>5. ASSUME NEW k \in DOMAIN mmd' PROVE DefaultsKept(mmd'[k].br)
    <3> HIDE DEF W
    <3>1. PICK j \in DOMAIN W : MadeSupported(params, params.released, W[j].br, mmd'[k].br)
      BY <2>1, <2>2, <2>3, SupportList
    <3>2. DefaultsKept(W[j].br)
      BY <2>4
    <3> QED BY <3>1, <3>2 DEF UsualDefaults, DefaultsKept, DefaultKept, MadeSupported
  <2> QED BY <1>1, <2>5 DEF UsualDefaults, DefaultsKept, DefaultKept
<1>4. UNCHANGED mmd => UsualDefaults'
  BY <1>1 DEF UsualDefaults, DefaultsKept, DefaultKept
<1> QED
  BY <1>2, <1>3, <1>4
     DEF Next, vars, ExpandStreams, CollectBuildrequires, CollectRequires, Solve, TestCombination,
         NextPair, Generate

(* Every expanded list is of one stream, that is no virtual one.            *)
Solving == pc \in {"collect", "requires", "solve", "done"}
OneSettled(n, S) == \E s \in S : S = {s} /\ Settled(n, s)
OneStream ==
  Solving /\ params.local =>
    \A i \in DOMAIN pairs : \A n \in DOMAIN pairs[i].br : OneSettled(n, pairs[i].br[n])

(* Nothing changes the expanded pairs.                                      *)
LEMMA SolvingNext ==
  ASSUME [Next]_vars, Solving', ~ExpandStreams
  PROVE  Solving /\ UNCHANGED pairs
<1>1. CASE ApplyOverrides
  BY <1>1, Zenon DEF ApplyOverrides, Fail, Solving
<1>2. CASE ResolveBaseStreams
  BY <1>2 DEF ResolveBaseStreams, Solving
<1>3. CASE CollectBuildrequires
  BY <1>3 DEF CollectBuildrequires, Solving
<1>4. CASE CollectRequires
  BY <1>4 DEF CollectRequires, Solving
<1>5. CASE Solve
  BY <1>5 DEF Solve, Solving
<1>6. CASE TestCombination
  BY <1>6 DEF TestCombination, Solving
<1>7. CASE NextPair
  BY <1>7 DEF NextPair, Solving
<1>8. CASE Generate
  BY <1>8 DEF Generate, Solving
<1>9. CASE UNCHANGED vars
  BY <1>9 DEF vars, Solving
<1> QED BY <1>1, <1>2, <1>3, <1>4, <1>5, <1>6, <1>7, <1>8, <1>9 DEF Next

(* A finite set of no more than one has one, if it has any.                 *)
LEMMA OnlyOne ==
  ASSUME NEW S, IsFiniteSet(S), S # {}, ~(Cardinality(S) > 1)
  PROVE  \E s : S = {s}
<1>1. Cardinality(S) \in Nat /\ Cardinality(S) # 0
  BY FS_CardinalityType, FS_EmptySet
<1> QED BY <1>1, FS_Singleton

(* What is not ambiguous is one stream.                                     *)
LEMMA NotAmbiguous ==
  ASSUME params.local, NEW n, NEW d, ListOfStreams(d), DefaultKept(n, d), ~Ambiguous(n, d)
  PROVE  /\ \E s : Expanded(n, d) = {s}
         /\ n \notin DOMAIN params.defaults => Expanded(n, d) = d.plus
<1>1. CASE n \notin DOMAIN params.defaults
  <2>1. d.plus # {} /\ ~(Cardinality(Candidates(n, d)) > 1)
    BY <1>1 DEF Ambiguous
  <2>2. Candidates(n, d) = d.plus /\ Expanded(n, d) = d.plus
    BY <1>1, <2>1 DEF Candidates, Expanded
  <2> QED BY <2>1, <2>2, OnlyOne DEF ListOfStreams
<1>2. CASE n \in DOMAIN params.defaults
  <2>1. CASE Cardinality(Candidates(n, d)) > 1
    BY <1>2, <2>1 DEF Expanded
  <2>2. CASE ~(Cardinality(Candidates(n, d)) > 1)
    <3>1. Expanded(n, d) = Candidates(n, d)
      BY <2>2 DEF Expanded
    <3>2. CASE d.plus = {}
      BY <1>2, <3>1, <3>2 DEF Candidates, DefaultKept
    <3>3. CASE d.plus # {}
      <4>1. Candidates(n, d) = d.plus
        BY <3>3 DEF Candidates
      <4> QED BY <1>2, <2>2, <3>1, <3>3, <4>1, OnlyOne DEF ListOfStreams
    <3> QED BY <3>2, <3>3
  <2> QED BY <1>2, <2>1, <2>2
<1> QED BY <1>1, <1>2

(* The streams of a local build are expanded to one each.                   *)
LEMMA OneStreamNext ==
  ASSUME FiniteInv, UsualTable, SettledBases, UsualDefaults, OneStream, [Next]_vars
  PROVE  OneStream'
<1>1. UNCHANGED <<table, params>>
  BY TableStays
<1>2. \A n, S : OneSettled(n, S)' <=> OneSettled(n, S)
  BY <1>1 DEF OneSettled, Settled
<1>3. CASE ExpandStreams
  <2> SUFFICES ASSUME Solving', params.local PROVE OneStream'
    BY <1>1 DEF OneStream
  <2>1. /\ pc = "expand"
        /\ \A i \in DOMAIN mmd : ~AmbiguousIn(mmd[i].br)
        /\ pairs' = [i \in DOMAIN mmd |-> [br |-> ExpandDeps(mmd[i].br), req |-> ExpandDeps(mmd[i].req)]]
    BY <1>3 DEF ExpandStreams, Fail, Solving
  <2>2. ASSUME NEW i \in DOMAIN mmd, NEW n \in DOMAIN mmd[i].br
        PROVE  OneSettled(n, Expanded(n, mmd[i].br[n]))
    <3> DEFINE d == mmd[i].br[n]
    <3>1. ListOfStreams(d) /\ DefaultKept(n, d) /\ ~Ambiguous(n, d)
      BY <2>1 DEF FiniteInv, Lists, PairOfDeps, UsualDefaults, DefaultsKept, AmbiguousIn
    <3>2. PICK s : Expanded(n, d) = {s}
      BY <3>1, NotAmbiguous
    <3>3. n \notin DOMAIN params.defaults => Expanded(n, d) = d.plus
      BY <3>1, NotAmbiguous
    <3>4. CASE n \in BaseModule
      <4>1. s \in d.plus
        BY <3>2, <3>3, <3>4 DEF UsualDefaults
      <4> QED BY <2>1, <3>2, <3>4, <4>1 DEF SettledBases, Later, OneSettled
    <3>5. CASE n \notin BaseModule
      BY <3>2, <3>5 DEF Settled, UsualTable, OneSettled
    <3> QED BY <3>4, <3>5
  <2>3. \A i \in DOMAIN pairs' : /\ i \in DOMAIN mmd /\ DOMAIN pairs'[i].br = DOMAIN mmd[i].br
                                 /\ \A n \in DOMAIN mmd[i].br :
                                      pairs'[i].br[n] = Expanded(n, mmd[i].br[n])
    BY <2>1 DEF ExpandDeps
  <2> QED BY <1>2, <2>2, <2>3 DEF OneStream
<1>4. CASE ~ExpandStreams
  BY <1>1, <1>4, <1>2, SolvingNext DEF OneStream
<1> QED BY <1>3, <1>4

(* A module that meets a dependency on one stream is of that stream.        *)
LEMMA OnlyStream ==
  ASSUME Pool \subseteq table, NEW D, NEW f \in Combinations(D), NEW n \in DOMAIN D,
         NEW s, D[n] = {s}, Settled(n, s)
  PROVE  f[n].stream = s
<1>1. MetExactly(f[n], n, {s}) /\ f[n] \in Pool
  BY CombinationNames DEF Combinations
<1>2. s \in {f[n].stream} \cup f[n].virtual /\ f[n].name = n
  BY <1>1 DEF MetExactly, Provides
<1> QED BY <1>1, <1>2 DEF Settled

(* A local build gets at most one modulemd of a pair of dependencies, for   *)
(* every table, modulemd and request, as long as no base module is asked    *)
(* for by a default stream, no default stream is excluded, and no stream of *)
(* a base module is a virtual one of another (expand_single_mse_streams,    *)
(* raise_if_stream_ambigous).                                               *)
THEOREM LocalUnambiguousHolds == Spec /\ UsualTable /\ UsualDefaults => []LocalUnambiguous
<1> DEFINE LocalInv == UsualTable /\ UsualDefaults /\ SettledBases /\ OneStream
<1>1. Init /\ UsualTable /\ UsualDefaults => LocalInv
  BY DEF Init, SettledBases, Later, OneStream, Solving
<1>2. Inv /\ MadeInv /\ LocalInv /\ [Next]_vars => LocalInv'
  <2> SUFFICES ASSUME Inv, MadeInv, LocalInv, [Next]_vars PROVE LocalInv'
    OBVIOUS
  <2>1. UsualTable'
    BY TableStays DEF UsualTable
  <2> QED BY <2>1, DefaultsNext, SettledNext, OneStreamNext DEF Inv, MadeInv
<1>3. MadeInv /\ LocalInv => LocalUnambiguous
  <2> SUFFICES ASSUME MadeInv, LocalInv, params.local, NEW g \in made, NEW h \in made, g.pair = h.pair
               PROVE  g = h
    BY DEF LocalUnambiguous
  <2>1. pc = "done"
    BY MadeInPool
  <2>2. PICK gen : MadeFrom(gen)
    BY <2>1 DEF MadeInv, AllMade
  <2>3. PICK k \in DOMAIN alts : g = gen[k]
    BY <2>2 DEF MadeFrom
  <2>4. PICK l \in DOMAIN alts : h = gen[l]
    BY <2>2 DEF MadeFrom
  <2>5. /\ g.pair = k[1] /\ k[1] \in DOMAIN pairs /\ Chosen(k[1], k[2], g.br)
        /\ k = <<k[1], k[2]>>
    BY <2>1, <2>2, <2>3, MadeOfStored
  <2>6. /\ h.pair = l[1] /\ Chosen(l[1], l[2], h.br) /\ l = <<l[1], l[2]>>
    BY <2>1, <2>2, <2>4, MadeOfStored
  <2> DEFINE D == pairs[k[1]].br
  <2>7. PICK f \in Combinations(D) : StreamsOf(f) = k[2]
    BY <2>5 DEF Chosen
  <2>8. PICK e \in Combinations(D) : StreamsOf(e) = l[2]
    BY <2>5, <2>6 DEF Chosen
  <2>9. ASSUME NEW n \in DOMAIN D PROVE f[n].stream = e[n].stream
    <3>1. PICK s : D[n] = {s} /\ Settled(n, s)
      BY <2>1, <2>5 DEF OneStream, Solving, OneSettled
    <3> HIDE DEF D
    <3> QED BY <3>1, OnlyStream DEF MadeInv
  <2>10. k[2] = l[2]
    <3> HIDE DEF D
    <3>1. k[2] = [n \in DOMAIN D |-> f[n].stream] /\ l[2] = [n \in DOMAIN D |-> e[n].stream]
      BY <2>7, <2>8, CombinationNames
    <3> QED BY <2>9, <3>1
  <2> QED BY <2>3, <2>4, <2>5, <2>6, <2>10
<1> HIDE DEF LocalInv
<1> QED BY <1>1, <1>2, <1>3, InvAlways, MadeAlways, PTL DEF Spec


-----------------------------------------------------------------------------
(* The base module that is asked for.                                       *)

(* The hypothesis, on the table, the request and the modulemd. Builds of   *)
(* one base stream have the same virtual streams; a released stream with a *)
(* support stream has a version, and the support stream is not such a one  *)
(* itself; default streams are not of base modules; an override of a base  *)
(* module names a stream, or none at all; and a pair of dependencies with  *)
(* any buildrequires has the base modules among them.                      *)
UsualOverride(n) ==
  params.br[n].plus # {} \/ (params.br[n] = Empty /\ ~(FromBranch(params) /\ n = Override))
BasesNamed == \A i \in DOMAIN mmd : DOMAIN mmd[i].br = {} \/ BaseModule \subseteq DOMAIN mmd[i].br
UsualBases ==
  /\ \A r, q \in table : r.name \in BaseModule /\ r.name = q.name /\ r.stream = q.stream
                           => r.virtual = q.virtual
  /\ \A s \in DOMAIN Support \cap params.released :
       StreamVersion[s] # 0 /\ Support[s] \notin DOMAIN Support \cap params.released
  /\ DOMAIN params.defaults \cap BaseModule = {}
  /\ \A n \in DOMAIN params.br \cap BaseModule : UsualOverride(n)
  /\ BasesNamed

(* What the request overrides is as it says.                                *)
OverridesTaken ==
  pc = "streams" => \A i \in DOMAIN mmd : \A n \in DOMAIN mmd[i].br \cap DOMAIN params.br :
                      n \in BaseModule => mmd[i].br[n] = params.br[n]

(* Stream s of module n is listed in S or provides a stream that is.        *)
Stands(n, s, S) ==
  \E u \in S : u = s \/ \E r \in table : r.name = n /\ r.stream = s /\ u \in r.virtual

(* The streams of d, listed for base module n, are those that the request   *)
(* asks for, and otherwise not released ones with a support stream.         *)
Asked(n, d) ==
  IF n \in DOMAIN params.br /\ params.br[n] # Empty
  THEN d.plus # {} /\ \A s \in d.plus : Stands(n, s, params.br[n].plus)
  ELSE d.plus \cap DOMAIN Support \cap params.released = {}
AskedBases ==
  Later => \A i \in DOMAIN mmd : \A n \in DOMAIN mmd[i].br \cap BaseModule : Asked(n, mmd[i].br[n])

(* The expanded pairs have the streams that were listed.                    *)
ExpandedBases ==
  Solving => \A i \in DOMAIN pairs :
    /\ i \in DOMAIN mmd /\ DOMAIN pairs[i].br = DOMAIN mmd[i].br
    /\ \A n \in DOMAIN mmd[i].br \cap BaseModule :
         mmd[i].br[n].plus # {} => pairs[i].br[n] = mmd[i].br[n].plus

(* An override of a base module is not lost for the branch.                 *)
LEMMA OverrideKept ==
  ASSUME NEW n \in DOMAIN params.br, UsualOverride(n)
  PROVE  n \in DOMAIN BrOverrides(params) /\ BrOverrides(params)[n] = params.br[n]
<1>1. ~(FromBranch(params) /\ n = Override)
  <2>1. Empty.plus = {}
    BY DEF Empty
  <2> QED BY <2>1 DEF UsualOverride, FromBranch
<1>2. CASE FromBranch(params)
  <2>1. n # Override
    BY <1>1, <1>2
  <2> QED BY <1>2, <2>1 DEF BrOverrides, Overlay
<1>3. CASE ~FromBranch(params)
  BY <1>3 DEF BrOverrides
<1> QED BY <1>2, <1>3

(* The overrides are taken before the base streams are resolved.            *)
LEMMA OverridesNext ==
  ASSUME Numbered(mmd), UsualBases, OverridesTaken, [Next]_vars
  PROVE  OverridesTaken'
<1>1. UNCHANGED <<table, params>>
  BY TableStays
<1>2. CASE ApplyOverrides
  <2> SUFFICES ASSUME pc' = "streams", NEW k \in DOMAIN mmd',
                      NEW n \in DOMAIN mmd'[k].br \cap DOMAIN params.br, n \in BaseModule
               PROVE  mmd'[k].br[n] = params.br[n]
    BY <1>1 DEF OverridesTaken
  <2>1. mmd' = Overridden(mmd, params)
    BY <1>2 DEF ApplyOverrides, Fail
  <2>2. DOMAIN mmd' = DOMAIN mmd
    BY <2>1 DEF Overridden, ReplacePairs
  <2>3. PICK i \in DOMAIN mmd : mmd'[k].br = Replace(mmd[i].br, BrOverrides(params))
    BY <2>1, <2>2, OverriddenList
  <2>4. n \in DOMAIN BrOverrides(params) /\ BrOverrides(params)[n] = params.br[n]
    BY OverrideKept DEF UsualBases
  <2> QED BY <2>3, <2>4 DEF Replace
<1>3. CASE ResolveBaseStreams
  BY <1>3 DEF ResolveBaseStreams, OverridesTaken
<1>4. CASE UNCHANGED vars
  BY <1>4 DEF vars, OverridesTaken
<1>5. CASE Next /\ ~ApplyOverrides /\ ~ResolveBaseStreams
  <2>1. pc' # "streams"
    <3>1. CASE ExpandStreams
      BY <3>1, Zenon DEF ExpandStreams, Fail
    <3>2. CASE CollectBuildrequires
      BY <3>2, Zenon DEF CollectBuildrequires, Fail
    <3>3. CASE CollectRequires
      BY <3>3, Zenon DEF CollectRequires, Fail
    <3>4. CASE Solve
      BY <3>4 DEF Solve, Fail
    <3>5. CASE TestCombination
      BY <3>5, Zenon DEF TestCombination, Fail
    <3>6. CASE NextPair
      BY <3>6 DEF NextPair
    <3>7. CASE Generate
      BY <3>7, Zenon DEF Generate, Fail
    <3> QED BY <1>5, <3>1, <3>2, <3>3, <3>4, <3>5, <3>6, <3>7 DEF Next
  <2> QED BY <2>1 DEF OverridesTaken
<1> QED BY <1>2, <1>3, <1>4, <1>5


(* A stream that has its support stream is no released one without.         *)
LEMMA SupportedFree ==
  ASSUME UsualBases, NEW s
  PROVE  Supported(s, params.released) \notin DOMAIN Support \cap params.released
BY DEF UsualBases, Supported

(* Every list for a base module is as the request asks when the base        *)
(* streams are resolved.                                                    *)
LEMMA AskedNext ==
  ASSUME Numbered(mmd), FiniteInv, UsualTable, UsualBases, OverridesTaken, AskedBases, [Next]_vars
  PROVE  AskedBases'
<1>1. UNCHANGED <<table, params>>
  BY TableStays
<1>2. \A n, d : Asked(n, d)' <=> Asked(n, d)
  BY <1>1 DEF Asked, Stands
<1>3. CASE ResolveBaseStreams
  <2> DEFINE W == WithRealStreams(table, mmd)
  <2>1. mmd' = WithSupport(W, params, params.released) /\ pc = "streams"
    BY <1>3 DEF ResolveBaseStreams
  <2>2. Numbered(W) /\ Lists(W)
    BY ReplaceNumbered, RealLists DEF WithRealStreams, FiniteInv
  <2>3. DOMAIN W = DOMAIN mmd /\ DOMAIN mmd' = DOMAIN W
    BY <2>1 DEF WithRealStreams, WithSupport, ReplacePairs
  <2>4. ASSUME NEW k \in DOMAIN mmd', NEW n \in DOMAIN mmd'[k].br \cap BaseModule
        PROVE  Asked(n, mmd'[k].br[n])
    <3> DEFINE d == mmd'[k].br[n]
    <3>1. PICK j \in DOMAIN W : MadeSupported(params, params.released, W[j].br, mmd'[k].br)
      <4> HIDE DEF W
      <4> QED BY <2>1, <2>2, <2>3, SupportList
    <3>2. PICK i \in DOMAIN mmd : MadeReal(table, mmd[i].br, W[j].br)
      <4> HIDE DEF W
      <4>1. j \in DOMAIN mmd
        BY <2>3
      <4> QED BY <4>1, RealList DEF FiniteInv, W
    <3> HIDE DEF W
    <3>3. n \in DOMAIN W[j].br /\ n \in DOMAIN mmd[i].br /\ n \in BaseModule
      BY <2>4, <3>1, <3>2 DEF MadeSupported, MadeReal
    <3>4. W[j].br[n].plus = {RealStream(table, n, s) : s \in mmd[i].br[n].plus}
      BY <3>2, <3>3 DEF MadeReal
    <3>5. CASE n \in DOMAIN params.br
      <4>1. mmd[i].br[n] = params.br[n] /\ UsualOverride(n)
        BY <2>1, <3>3, <3>5 DEF OverridesTaken, UsualBases
      <4>2. d.plus = {RealStream(table, n, s) : s \in params.br[n].plus}
        <5>1. d = W[j].br[n]
          BY <3>1, <3>3, <3>5 DEF MadeSupported
        <5> HIDE DEF d
        <5> QED BY <5>1, <3>4, <4>1
      <4> HIDE DEF d
      <4>3. CASE params.br[n] # Empty
        <5>1. d.plus # {}
          BY <4>1, <4>2, <4>3 DEF UsualOverride
        <5>2. ASSUME NEW s \in d.plus PROVE Stands(n, s, params.br[n].plus)
          <6>1. PICK u \in params.br[n].plus : s = RealStream(table, n, u)
            BY <4>2, <5>2
          <6>2. s = u \/ \E r \in table : r.name = n /\ u \in r.virtual /\ r.stream = s
            BY <6>1, RealSettled DEF FiniteInv
          <6> QED BY <6>1, <6>2 DEF Stands
        <5>3. Asked(n, d)
          BY <3>5, <4>3, <5>1, <5>2 DEF Asked
        <5> QED BY <5>3 DEF d
      <4>4. CASE params.br[n] = Empty
        <5>1. d.plus = {}
          BY <4>2, <4>4 DEF Empty
        <5>2. Asked(n, d)
          BY <4>4, <5>1 DEF Asked
        <5> QED BY <5>2 DEF d
      <4> QED BY <4>3, <4>4
    <3>6. CASE n \notin DOMAIN params.br
      <4>1. d.plus = {Supported(s, params.released) : s \in W[j].br[n].plus}
        BY <3>1, <3>3, <3>6 DEF MadeSupported
      <4> HIDE DEF d
      <4>2. d.plus \cap DOMAIN Support \cap params.released = {}
        <5> SUFFICES ASSUME NEW s \in d.plus PROVE s \notin DOMAIN Support \cap params.released
          OBVIOUS
        <5>1. PICK t : s = Supported(t, params.released)
          BY <4>1
        <5> QED BY <5>1, SupportedFree
      <4>3. Asked(n, d)
        BY <3>6, <4>2 DEF Asked
      <4> QED BY <4>3 DEF d
    <3> QED BY <3>5, <3>6
  <2> QED BY <2>4, <1>2 DEF AskedBases
<1>4. CASE ~ResolveBaseStreams
  BY <1>2, <1>4, LaterNext DEF AskedBases
<1> QED BY <1>3, <1>4

(* The hypothesis stays: no step changes which modules a pair buildrequires.*)
LEMMA BasesNext ==
  ASSUME Numbered(mmd), FiniteInv, UsualBases, [Next]_vars
  PROVE  UsualBases'
<1>1. UNCHANGED <<table, params>>
  BY TableStays
<1>2. CASE ApplyOverrides
  <2>1. UNCHANGED mmd \/ mmd' = Overridden(mmd, params)
    BY <1>2 DEF ApplyOverrides
  <2>2. ASSUME mmd' = Overridden(mmd, params), NEW k \in DOMAIN mmd'
        PROVE  \E i \in DOMAIN mmd : DOMAIN mmd'[k].br = DOMAIN mmd[i].br
    <3>1. DOMAIN mmd' = DOMAIN mmd
      BY <2>2 DEF Overridden, ReplacePairs
    <3>2. PICK i \in DOMAIN mmd : mmd'[k].br = Replace(mmd[i].br, BrOverrides(params))
      BY <2>2, <3>1, OverriddenList
    <3> QED BY <3>2 DEF Replace
  <2>3. BasesNamed'
    BY <2>1, <2>2 DEF UsualBases, BasesNamed
  <2> QED BY <1>1, <2>3 DEF UsualBases, UsualOverride, FromBranch
<1>3. CASE ResolveBaseStreams
  <2> DEFINE W == WithRealStreams(table, mmd)
  <2>1. mmd' = WithSupport(W, params, params.released)
    BY <1>3 DEF ResolveBaseStreams
  <2>2. Numbered(W) /\ Lists(W)
    BY ReplaceNumbered, RealLists DEF WithRealStreams, FiniteInv
  <2>3. DOMAIN W = DOMAIN mmd /\ DOMAIN mmd' = DOMAIN W
    BY <2>1 DEF WithRealStreams, WithSupport, ReplacePairs
  <2>4. ASSUME NEW j \in DOMAIN W PROVE \E i \in DOMAIN mmd : DOMAIN W[j].br = DOMAIN mmd[i].br
    <3>1. j \in DOMAIN mmd
      BY <2>3
    <3>2. PICK i \in DOMAIN mmd : MadeReal(table, mmd[i].br, W[j].br)
      BY <3>1, RealList DEF FiniteInv
    <3> HIDE DEF W
    <3> QED BY <3>2 DEF MadeReal
  <2> HIDE DEF W
  <2>5. ASSUME NEW k \in DOMAIN mmd'
        PROVE  \E j \in DOMAIN W : DOMAIN mmd'[k].br = DOMAIN W[j].br
    BY <2>1, <2>2, <2>3, SupportList DEF MadeSupported
  <2>6. \A j \in DOMAIN W : DOMAIN W[j].br = {} \/ BaseModule \subseteq DOMAIN W[j].br
    BY <2>4 DEF UsualBases, BasesNamed
  <2>7. BasesNamed'
    BY <2>5, <2>6 DEF BasesNamed
  <2> QED BY <1>1, <2>7 DEF UsualBases, UsualOverride, FromBranch
<1>4. UNCHANGED mmd => UsualBases'
  BY <1>1 DEF UsualBases, UsualOverride, FromBranch, BasesNamed
<1> QED
  BY <1>2, <1>3, <1>4
     DEF Next, vars, ExpandStreams, CollectBuildrequires, CollectRequires, Solve, TestCombination,
         NextPair, Generate

(* No default stream takes the place of a base module's streams.            *)
LEMMA ExpandedNext ==
  ASSUME UsualBases, ExpandedBases, [Next]_vars
  PROVE  ExpandedBases'
<1>1. UNCHANGED <<table, params>>
  BY TableStays
<1>2. CASE ExpandStreams
  <2> SUFFICES ASSUME Solving' PROVE ExpandedBases'
    BY DEF ExpandedBases
  <2>1. /\ UNCHANGED mmd
        /\ pairs' = [i \in DOMAIN mmd |-> [br |-> ExpandDeps(mmd[i].br), req |-> ExpandDeps(mmd[i].req)]]
    BY <1>2 DEF ExpandStreams, Fail, Solving
  <2>2. \A i \in DOMAIN pairs' : /\ i \in DOMAIN mmd /\ DOMAIN pairs'[i].br = DOMAIN mmd[i].br
                                 /\ \A n \in DOMAIN mmd[i].br :
                                      pairs'[i].br[n] = Expanded(n, mmd[i].br[n])
    BY <2>1 DEF ExpandDeps
  <2>3. \A n \in BaseModule : \A d : d.plus # {} => Expanded(n, d) = d.plus
    BY DEF UsualBases, Expanded, Candidates
  <2> QED BY <2>1, <2>2, <2>3 DEF ExpandedBases
<1>3. CASE ~ExpandStreams
  <2> SUFFICES ASSUME Solving' PROVE ExpandedBases'
    BY DEF ExpandedBases
  <2>1. Solving /\ UNCHANGED pairs
    BY <1>3, SolvingNext
  <2>2. UNCHANGED mmd
    <3>1. ~ResolveBaseStreams /\ Later'
      BY DEF ResolveBaseStreams, Solving, Later
    <3> QED BY <3>1, LaterNext
  <2> QED BY <2>1, <2>2 DEF ExpandedBases
<1> QED BY <1>2, <1>3

(* The base module is the one that was asked for, for every table,          *)
(* modulemd and request that are usual (_apply_dep_overrides,               *)
(* _process_support_streams).                                               *)
THEOREM BaseAskedHolds == Spec /\ UsualTable /\ UsualBases => []BaseAsked
<1> DEFINE AskedInv == /\ UsualTable /\ UsualBases /\ SettledBases
                       /\ OverridesTaken /\ AskedBases /\ ExpandedBases
<1>1. Init /\ UsualTable /\ UsualBases => AskedInv
  BY DEF Init, SettledBases, OverridesTaken, AskedBases, ExpandedBases, Later, Solving
<1>2. Inv /\ MadeInv /\ AskedInv /\ [Next]_vars => AskedInv'
  <2> SUFFICES ASSUME Inv, MadeInv, AskedInv, [Next]_vars PROVE AskedInv'
    OBVIOUS
  <2>1. UsualTable'
    BY TableStays DEF UsualTable
  <2> QED
    BY <2>1, BasesNext, SettledNext, OverridesNext, AskedNext, ExpandedNext DEF Inv, MadeInv
<1>3. MadeInv /\ AskedInv => BaseAsked
  <2> SUFFICES ASSUME MadeInv, AskedInv, NEW g \in made, NEW base \in g.br, base.name \in BaseModule
               PROVE  LET n == base.name
                      IN IF n \in DOMAIN params.br /\ params.br[n] # Empty
                         THEN ({base.stream} \cup base.virtual) \cap params.br[n].plus # {}
                         ELSE base.stream \in DOMAIN Support \cap params.released
                                => n \in DOMAIN mmd[g.pair].br /\ mmd[g.pair].br[n].plus = {}
    BY DEF BaseAsked
  <2> DEFINE n == base.name
             i == g.pair
             d == mmd[i].br[n]
  <2>1. pc = "done"
    BY MadeInPool
  <2>2. PICK gen : MadeFrom(gen)
    BY <2>1 DEF MadeInv, AllMade
  <2>3. PICK k \in DOMAIN alts : g = gen[k]
    BY <2>2 DEF MadeFrom
  <2>4. /\ i = k[1] /\ i \in DOMAIN pairs /\ g.br \in alts[k] /\ g.br \subseteq table
        /\ Consistent(g.br) /\ Chosen(i, k[2], g.br)
    BY <2>1, <2>2, <2>3, MadeOfStored DEF MadeInv
  <2>5. DOMAIN pairs[i].br # {}
    BY <2>1, <2>4 DEF MadeInv, Lone
  <2>6. n \in DOMAIN pairs[i].br /\ n \in DOMAIN mmd[i].br /\ i \in DOMAIN mmd
    BY <2>1, <2>4, <2>5 DEF ExpandedBases, Solving, UsualBases, BasesNamed
  <2>7. MetExactly(base, n, pairs[i].br[n])
    <3>1. PICK f \in Combinations(pairs[i].br) : Range(f) \subseteq g.br
      BY <2>4 DEF Chosen
    <3>2. f[n] \in g.br /\ f[n].name = n /\ MetExactly(f[n], n, pairs[i].br[n])
      BY <2>6, <3>1, CombinationNames DEF Combinations
    <3>3. f[n] = base
      BY <2>4, <3>2 DEF Consistent
    <3> QED BY <3>2, <3>3
  <2>8. Asked(n, d)
    BY <2>1, <2>6 DEF AskedBases, Later
  <2>9. d.plus # {} => base.stream \in d.plus
    <3> SUFFICES ASSUME d.plus # {} PROVE base.stream \in d.plus
      OBVIOUS
    <3>1. pairs[i].br[n] = d.plus
      BY <2>1, <2>4, <2>6 DEF ExpandedBases, Solving
    <3>2. PICK s \in d.plus : s \in {base.stream} \cup base.virtual
      BY <2>7, <3>1 DEF MetExactly, Provides
    <3>3. s \notin base.virtual
      BY <2>1, <2>4, <2>6 DEF SettledBases, Later, Settled
    <3> QED BY <3>2, <3>3
  <2>10. CASE n \in DOMAIN params.br /\ params.br[n] # Empty
    <3>1. Stands(n, base.stream, params.br[n].plus)
      BY <2>8, <2>9, <2>10 DEF Asked
    <3>2. PICK u \in params.br[n].plus :
            u = base.stream \/ \E r \in table : r.name = n /\ r.stream = base.stream /\ u \in r.virtual
      BY <3>1 DEF Stands
    <3>3. u \in {base.stream} \cup base.virtual
      BY <2>4, <3>2 DEF UsualBases
    <3> QED BY <2>10, <3>3
  <2>11. CASE ~(n \in DOMAIN params.br /\ params.br[n] # Empty)
    BY <2>6, <2>8, <2>9, <2>11 DEF Asked
  <2> QED BY <2>10, <2>11
<1> HIDE DEF AskedInv
<1> QED BY <1>1, <1>2, <1>3, InvAlways, MadeAlways, PTL DEF Spec


-----------------------------------------------------------------------------
(* The choice that ends the search.                                         *)

Stored == \A k \in DOMAIN alts : alts[k] # {}

(* The sets in A that are not outdone by another of them.                   *)
LEMMA SomeBest ==
  ASSUME NEW T, IsFiniteSet(T), \A r \in T : r.version \in Int,
         NEW A \in SUBSET (SUBSET T), A # {}, \A S \in A : Consistent(S)
  PROVE  Best(A) # {}
<1>1. IsFiniteSet(A)
  BY FS_SUBSET, FS_Subset
<1> DEFINE R == {p \in A \X A : Outdone(p[1], p[2])}
<1>2. \A S, U \in A : <<S, U>> \in R <=> Outdone(S, U)
  OBVIOUS
<1> HIDE DEF R
<1>3. \A S \in A : \A r \in S : r.version \in Int
  OBVIOUS
<1>4. ASSUME NEW S \in A PROVE <<S, S>> \notin R
  <2> SUFFICES ASSUME Outdone(S, S) PROVE FALSE
    BY <1>2
  <2>1. PICK q \in S, r \in S : <<q.name, q.stream>> = <<r.name, r.stream>> /\ q.version > r.version
    BY DEF Outdone
  <2>2. q = r
    BY <2>1 DEF Consistent
  <2> QED BY <2>1, <2>2, <1>3
<1>5. ASSUME NEW S \in A, NEW U \in A, NEW V \in A, <<S, U>> \in R, <<U, V>> \in R
      PROVE  <<S, V>> \in R
  <2>1. Outdone(S, U) /\ Outdone(U, V)
    BY <1>2, <1>5
  <2>2. ASSUME NEW v \in V, NEW u \in U, <<v.name, v.stream>> = <<u.name, u.stream>>, v.version >= u.version
        PROVE  \E s \in S : /\ <<v.name, v.stream>> = <<s.name, s.stream>>
                            /\ v.version >= s.version /\ (v.version > u.version => v.version > s.version)
    <3>1. PICK s \in S : <<u.name, u.stream>> = <<s.name, s.stream>> /\ u.version >= s.version
      BY <2>1 DEF Outdone
    <3>2. v.version \in Int /\ u.version \in Int /\ s.version \in Int
      BY <1>3
    <3>3. v.version >= s.version /\ (v.version > u.version => v.version > s.version)
      BY <2>2, <3>1, <3>2
    <3> QED BY <2>2, <3>1, <3>3
  <2>3. \A v \in V : \E s \in S : <<v.name, v.stream>> = <<s.name, s.stream>> /\ v.version >= s.version
    <3> SUFFICES ASSUME NEW v \in V
                 PROVE  \E s \in S : /\ <<v.name, v.stream>> = <<s.name, s.stream>>
                                     /\ v.version >= s.version
      OBVIOUS
    <3>1. PICK u \in U : <<v.name, v.stream>> = <<u.name, u.stream>> /\ v.version >= u.version
      BY <2>1 DEF Outdone
    <3> QED BY <3>1, <2>2
  <2>4. \E v \in V, s \in S : <<v.name, v.stream>> = <<s.name, s.stream>> /\ v.version > s.version
    <3>1. PICK v \in V, u \in U : <<v.name, v.stream>> = <<u.name, u.stream>> /\ v.version > u.version
      BY <2>1 DEF Outdone
    <3>2. v.version >= u.version
      BY <1>3, <3>1
    <3> QED BY <3>1, <3>2, <2>2
  <2> QED BY <1>2, <2>3, <2>4 DEF Outdone
<1>6. PICK S \in A : \A U \in A : <<S, U>> \notin R
  BY <1>1, <1>4, <1>5, Topmost
<1> QED BY <1>2, <1>6 DEF Best

(* Something is stored for every choice of streams that is kept.            *)
LEMMA StoredNext == ASSUME Untried, Stored, [Next]_vars PROVE Stored'
<1>1. UNCHANGED alts => Stored'
  BY DEF Stored
<1>2. CASE TestCombination
  <2> DEFINE D   == pairs[current].br
             f   == CHOOSE g \in todo : TRUE
             key == <<current, StreamsOf(f)>>
  <2>1. UNCHANGED alts \/ \E S : alts' = Merge(alts, [k \in {key} |-> {S}])
    BY <1>2 DEF TestCombination
  <2> HIDE DEF key
  <2>2. ASSUME NEW S, alts' = Merge(alts, [k \in {key} |-> {S}]) PROVE Stored'
    BY <2>2 DEF Merge, Stored
  <2> QED BY <1>1, <2>1, <2>2
<1>3. CASE NextPair
  <2>1. UNCHANGED alts \/ alts' = [k \in {<<current, <<>>>>} |-> {{}}]
    BY <1>3 DEF NextPair
  <2> QED BY <1>1, <2>1 DEF Stored
<1> QED
  BY <1>1, <1>2, <1>3
     DEF Next, vars, ApplyOverrides, ResolveBaseStreams, ExpandStreams, CollectBuildrequires,
         CollectRequires, Solve, Generate

(* When the search is over, one of the sets stored for each choice of       *)
(* streams is the best: no modulemd is missing because each of them is      *)
(* outdone by another (MMDResolver.solve).                                  *)
THEOREM BestExists == Spec => [](pc = "solve" => \A k \in DOMAIN alts : Best(alts[k]) # {})
<1>1. Init => Stored
  BY DEF Init, Stored
<1>2. Inv /\ Stored /\ [Next]_vars => Stored'
  BY StoredNext DEF Inv
<1>3. Inv /\ MadeInv /\ Stored => (pc = "solve" => \A k \in DOMAIN alts : Best(alts[k]) # {})
  <2> SUFFICES ASSUME Inv, MadeInv, Stored, pc = "solve", NEW k \in DOMAIN alts
               PROVE  Best(alts[k]) # {}
    OBVIOUS
  <2>1. alts[k] \in SUBSET (SUBSET table) /\ alts[k] # {}
    BY DEF MadeInv, AltsInPool, Stored
  <2>2. \A S \in alts[k] : Consistent(S)
    BY DEF Inv, Searching, Progress, AltsConsistent
  <2> QED BY <2>1, <2>2, SomeBest DEF MadeInv, FiniteInv, Given
<1> QED BY <1>1, <1>2, <1>3, InvAlways, MadeAlways, PTL DEF Spec
=============================================================================
