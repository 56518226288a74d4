--------------------------- MODULE MetaRun_proofs ---------------------------
(***************************************************************************)
(* Proofs about generated D programs: a program whose clauses are regular  *)
(* counts each operation once, for any number of operations, threads and   *)
(* zones, and leaves no variables behind.                                  *)
(***************************************************************************)
EXTENDS MetaRun, FiniteSetTheorems, WellFoundedInduction, TLAPS

-----------------------------------------------------------------------------
(* An enabling runs one clause after the other.                            *)

LEMMA Least == ASSUME NEW T \in SUBSET Nat, T # {} PROVE \E m \in T : \A k \in T : m <= k
<1> DEFINE R == {ss \in Nat \X Nat : ss[1] < ss[2]}
<1>1. IsWellFoundedOn(R, Nat)
  BY NatLessThanWellFounded DEF OpToRel
<1>2. \A x, y \in Nat : x < y => <<x, y>> \in R
  OBVIOUS
<1> HIDE DEF R
<1>3. PICK m \in T : \A y \in T : ~(<<y, m>> \in R)
  BY <1>1, WFMin
<1>4. \A y \in T : ~(y < m)
  BY <1>2, <1>3
<1>5. \A y \in T : m <= y
  BY <1>4
<1> QED BY <1>5

\* What is true of 0, and of the next number with each below n, is true of n.
LEMMA Climb ==
  ASSUME NEW n \in Nat, NEW T \in SUBSET Nat, 0 \in T,
         \A i \in 0..(n - 1) : i \in T => i + 1 \in T
  PROVE  n \in T
<1> SUFFICES ASSUME NEW j \in 0..n, j \notin T PROVE FALSE
  OBVIOUS
<1> DEFINE B == (0..n) \ T
<1>0. B \in SUBSET Nat /\ B # {}
  OBVIOUS
<1>1. PICK m \in B : \A k \in B : m <= k
  <2> HIDE DEF B
  <2> QED BY <1>0, Least
<1>2. m # 0 /\ m - 1 \in 0..(n - 1) /\ m - 1 \in 0..n
  BY <1>1
<1>3. m - 1 \in T
  BY <1>1, <1>2
<1>4. (m - 1) + 1 \in T
  BY <1>2, <1>3
<1> QED BY <1>1, <1>4

Start0(vs) == [vars |-> vs, hits |-> <<>>]
Upto(vs, o, point, n, f) ==
    f = [i \in 0..n |-> IF i = 0 THEN Start0(vs) ELSE Run(script[i], o, point, f[i - 1])]

LEMMA UptoExists ==
  ASSUME NEW vs, NEW o, NEW point, NEW n \in Nat
  PROVE  \E f : Upto(vs, o, point, n, f)
<1> DEFINE Fun(m, f) == Upto(vs, o, point, m, f)
           T == {m \in Nat : \A f : ~Fun(m, f)}
<1>1. SUFFICES ASSUME n \in T PROVE FALSE
  OBVIOUS
<1>2. PICK m \in T : \A k \in T : m <= k
  <2>1. T \in SUBSET Nat /\ T # {}
    BY <1>1
  <2> HIDE DEF T
  <2> QED BY <2>1, Least
<1>3. m \in Nat /\ \A f : ~Fun(m, f)
  OBVIOUS
<1>4. CASE m = 0
  <2>1. Fun(m, [i \in 0..0 |-> Start0(vs)])
    BY <1>4 DEF Upto
  <2> QED BY <1>3, <2>1
<1>5. CASE m # 0
  <2>1. m - 1 \in Nat /\ m - 1 \notin T
    <3> HIDE DEF T
    <3> QED BY <1>2, <1>3, <1>5
  <2>2. PICK f : Fun(m - 1, f)
    BY <2>1
  <2> DEFINE x == Run(script[m], o, point, f[m - 1])
             g == [i \in 0..m |-> IF i = m THEN x ELSE f[i]]
  <2>3. ASSUME NEW i \in 0..m
        PROVE  g[i] = IF i = 0 THEN Start0(vs) ELSE Run(script[i], o, point, g[i - 1])
    <3>1. CASE i = m
      <4>1. g[i] = x /\ g[m - 1] = f[m - 1]
        BY <1>3, <1>5, <3>1
      <4> QED BY <1>5, <3>1, <4>1
    <3>2. CASE i # m
      <4>1. g[i] = f[i] /\ i \in 0..(m - 1) /\ (i # 0 => g[i - 1] = f[i - 1])
        BY <1>3, <3>2
      <4> QED BY <2>2, <4>1 DEF Upto
    <3> QED BY <3>1, <3>2
  <2>4. g = [i \in 0..m |-> g[i]]
    OBVIOUS
  <2> HIDE DEF g
  <2>5. Fun(m, g)
    BY <2>3, <2>4 DEF Upto
  <2> QED BY <1>3, <2>5
<1> QED BY <1>4, <1>5

\* What an enabling goes through.
Goes(vs, o, point, f) ==
    /\ f[0] = Start0(vs) /\ f[Len(script)] = Enabling(vs, o, point)
    /\ \A i \in 1..Len(script) : f[i] = Run(script[i], o, point, f[i - 1])

LEMMA EnablingGoes ==
  ASSUME NEW vs, NEW o, NEW point, Len(script) \in Nat
  PROVE  \E f : Goes(vs, o, point, f)
<1> DEFINE f == CHOOSE g : Upto(vs, o, point, Len(script), g)
<1>1. Upto(vs, o, point, Len(script), f)
  BY UptoExists
<1>2. Enabling(vs, o, point) = f[Len(script)]
  BY DEF Enabling, Upto, Start0
<1> HIDE DEF f
<1>3. f[0] = Start0(vs) /\ \A i \in 1..Len(script) : f[i] = Run(script[i], o, point, f[i - 1])
  BY <1>1 DEF Upto
<1> QED BY <1>2, <1>3 DEF Goes


-----------------------------------------------------------------------------
(* A regular program.                                                      *)

Good == Regular(desc, metric, script)
Meets(o, c) == c.pred # {} => o.fits
In(z, o) == z = {} \/ o.zone \in z

\* What is gathered when an operation begins, and the variables of an operation.
Gives(o, r) == \E i \in DOMAIN script :
    <<o.name, "start">> \in script[i].probes /\ Meets(o, script[i]) /\ r \in Refs(script[i])
Has(vs, o, f, at) == \E v \in vs : v.name = f /\ v.key = Key(o, at)
Of(v, o) == v.by = o.id /\ \E at : Gives(o, <<v.name, at>>) /\ v.key = Key(o, at)

LEMMA GoodIs ==
  ASSUME Good, NEW i \in DOMAIN script
  PROVE  /\ Len(script) \in Nat /\ DOMAIN script = 1..Len(script)
         /\ ClauseRegular(script[i], metric) /\ ClearedIn(script, script[i])
         /\ script[i].aggs => CountsIn(script, i, desc, metric)
         /\ \A f \in DOMAIN script[i].sets : Distinct(desc, script[i].sets[f].at)
BY DEF Good, Regular

LEMMA GoodLen ==
  ASSUME Good
  PROVE  Len(script) \in Nat /\ DOMAIN script = 1..Len(script)
BY DEF Good, Regular

LEMMA HoldingIs ==
  ASSUME NEW vs, NEW o, NEW r, NEW v
  PROVE  v \in Holding(vs, o, r) <=> v \in vs /\ v.name = r[1] /\ v.key = Key(o, r[2])
BY DEF Holding

LEMMA PassesIs ==
  ASSUME NEW vs, NEW o, NEW point, NEW c, ClauseRegular(c, metric), o.fits \in BOOLEAN
  PROVE  Passes(c, vs, o, point) <=>
             /\ \A r \in c.verify : Holding(vs, o, r) # {}
             /\ c.zones # {} => o.zone \in c.zones
             /\ Meets(o, c)
             /\ c.filtered => o.fits
<1>1. Holds("fits", vs, o, point) = o.fits
  BY DEF Holds
<1>2. c.pred \subseteq {"fits"}
  BY DEF ClauseRegular
<1>3. (\A p \in c.pred : Holds(p, vs, o, point)) <=> Meets(o, c)
  BY <1>1, <1>2 DEF Meets
<1> QED BY <1>3 DEF Passes

\* A clause that does not count asks for nothing but "fits".
LEMMA PlainPasses ==
  ASSUME NEW vs, NEW o, NEW point, NEW c, ClauseRegular(c, metric), o.fits \in BOOLEAN, ~c.aggs
  PROVE  Passes(c, vs, o, point) <=> Meets(o, c)
<1>1. c.verify = {} /\ c.zones = {} /\ ~c.filtered
  BY DEF ClauseRegular
<1> QED BY <1>1, PassesIs

-----------------------------------------------------------------------------
(* Operations in progress together have variables of their own.            *)

Clash(o, x) == IF Indexed(desc) THEN o.arg = x.arg /\ (Kernel(desc) \/ o.thread = x.thread)
               ELSE o.thread = x.thread

LEMMA KeysClash ==
  ASSUME NEW o, NEW x, NEW at, NEW at2, Distinct(desc, at), Key(o, at2) = Key(x, at)
  PROVE  at2 = at /\ Clash(o, x)
<1>1. Key(o, at2).at = at2 /\ Key(x, at).at = at
  BY DEF Key
<1>2. at2 = at
  BY <1>1
<1>3. /\ Key(o, at).thread = IF at = <<>> \/ "pid" \in Range(at) THEN o.thread ELSE "any"
      /\ Key(x, at).thread = IF at = <<>> \/ "pid" \in Range(at) THEN x.thread ELSE "any"
      /\ Key(o, at).arg = IF at = <<>> THEN 0 ELSE o.arg
      /\ Key(x, at).arg = IF at = <<>> THEN 0 ELSE x.arg
  BY DEF Key
<1> QED BY <1>2, <1>3 DEF Distinct, Clash

LEMMA GivesDistinct ==
  ASSUME Good, NEW o, NEW f, NEW at, Gives(o, <<f, at>>)
  PROVE  Distinct(desc, at)
<1>1. PICK i \in DOMAIN script : <<f, at>> \in Refs(script[i])
  BY DEF Gives
<1>2. f \in DOMAIN script[i].sets /\ at = script[i].sets[f].at
  BY <1>1 DEF Refs
<1> QED BY <1>2, GoodIs

\* The variables that one enabling holds: each is one of an operation in progress that it has
\* seen begin, and it holds all of those.
Owned(vs, ops, z) == \A v \in vs : \E o \in ops : o.seen /\ In(z, o) /\ Of(v, o)
Held(vs, ops, z) == \A o \in ops : o.seen /\ In(z, o) =>
    \A f, at : Gives(o, <<f, at>>) => Has(vs, o, f, at)
State(vs, ops, z) == Owned(vs, ops, z) /\ Held(vs, ops, z)
Apart(ops) == \A o, x \in ops : Clash(o, x) => o = x

\* Whose variables they are.
LEMMA OwnerIs ==
  ASSUME Good, NEW ops, NEW vs, NEW z, Owned(vs, ops, z), NEW v \in vs, NEW o, NEW at,
         v.key = Key(o, at), \A x \in ops : Clash(o, x) => o = x
  PROVE  o \in ops /\ o.seen /\ In(z, o) /\ Of(v, o)
<1>1. PICK x \in ops : x.seen /\ In(z, x) /\ Of(v, x)
  BY DEF Owned
<1>2. PICK a : Gives(x, <<v.name, a>>) /\ v.key = Key(x, a)
  BY <1>1 DEF Of
<1>3. Clash(o, x)
  BY <1>2, GivesDistinct, KeysClash
<1> QED BY <1>1, <1>3


-----------------------------------------------------------------------------
(* What one clause does.                                                   *)

LEMMA NotRun ==
  ASSUME NEW c, NEW o, NEW point, NEW S,
         <<o.name, point>> \notin c.probes \/ ~Passes(c, S.vars, o, point)
  PROVE  Run(c, o, point, S) = S
BY DEF Run

LEMMA RunVars ==
  ASSUME NEW c, NEW o, NEW point, NEW S,
         <<o.name, point>> \in c.probes, Passes(c, S.vars, o, point)
  PROVE  Run(c, o, point, S).vars = Clear(Set(S.vars, o, c), o, c)
BY DEF Run

Contributors(vs, o, c) == {v.by : v \in UNION {Holding(vs, o, r) : r \in c.agg.reads}}

LEMMA RunHits ==
  ASSUME NEW c, NEW o, NEW point, NEW S,
         <<o.name, point>> \in c.probes, Passes(c, S.vars, o, point)
  PROVE  /\ ~c.aggs => Run(c, o, point, S).hits = S.hits
         /\ c.aggs => Run(c, o, point, S).hits =
                          Append(S.hits, Contributors(Set(S.vars, o, c), o, c))
BY DEF Run, Contributors

LEMMA SetIs ==
  ASSUME NEW vs, NEW o, NEW c
  PROVE  /\ \A v \in Set(vs, o, c) :
                \/ v \in vs
                \/ \E f \in DOMAIN c.sets :
                       v.name = f /\ v.key = Key(o, c.sets[f].at) /\ v.by = o.id
         /\ \A v \in vs : \/ v \in Set(vs, o, c)
                          \/ \E f \in DOMAIN c.sets : v.name = f /\ v.key = Key(o, c.sets[f].at)
         /\ \A f \in DOMAIN c.sets : Has(Set(vs, o, c), o, f, c.sets[f].at)
         /\ ~Gathering(c) => Set(vs, o, c) = vs
<1> DEFINE old(f) == UNION {v.value : v \in Holding(vs, o, <<f, c.sets[f].at>>)}
           new(f) == CASE c.sets[f].as = "depth" -> {IF o.nested THEN "inner" ELSE "outer"}
                       [] c.sets[f].as = "executed" -> old(f) \cup {"executed"}
                       [] OTHER -> {c.sets[f].as}
           made(f) == [name |-> f, key |-> Key(o, c.sets[f].at), value |-> new(f), by |-> o.id]
           keep == {v \in vs : \A f \in DOMAIN c.sets : v \notin Holding(vs, o, <<f, c.sets[f].at>>)}
<1>1. Set(vs, o, c) = keep \cup {made(f) : f \in DOMAIN c.sets}
  BY DEF Set
<1>2. \A f : made(f).name = f /\ made(f).key = Key(o, c.sets[f].at) /\ made(f).by = o.id
  OBVIOUS
<1> HIDE DEF made
<1>3. \A v, f : v \in Holding(vs, o, <<f, c.sets[f].at>>) => v.name = f /\ v.key = Key(o, c.sets[f].at)
  BY DEF Holding
<1>4. ASSUME NEW v \in vs, v \notin Set(vs, o, c)
      PROVE  \E f \in DOMAIN c.sets : v.name = f /\ v.key = Key(o, c.sets[f].at)
  BY <1>1, <1>3, <1>4
<1>5. ASSUME NEW f \in DOMAIN c.sets PROVE Has(Set(vs, o, c), o, f, c.sets[f].at)
  BY <1>1, <1>2 DEF Has
<1>6. ASSUME NEW v \in Set(vs, o, c)
      PROVE  \/ v \in vs
             \/ \E f \in DOMAIN c.sets : v.name = f /\ v.key = Key(o, c.sets[f].at) /\ v.by = o.id
  BY <1>1, <1>2
<1>7. ~Gathering(c) => Set(vs, o, c) = vs
  BY <1>1 DEF Gathering
<1> QED BY <1>4, <1>5, <1>6, <1>7

LEMMA ClearIs ==
  ASSUME NEW vs, NEW o, NEW c
  PROVE  /\ Clear(vs, o, c) \subseteq vs
         /\ c.clears = {} => Clear(vs, o, c) = vs
         /\ \A v \in vs : v \in Clear(vs, o, c) \/ \E r \in c.clears : v.key = Key(o, r[2])
         /\ \A r \in c.clears, v \in Clear(vs, o, c) : ~(v.name = r[1] /\ v.key = Key(o, r[2]))
BY HoldingIs DEF Clear

\* An operation that begins.
Begun(o, before, after) ==
    /\ \A v \in after : v \in before \/ Of(v, o)
    /\ \A v \in before : v \in after \/ \E at : v.key = Key(o, at)
    /\ \A f, at : Has(before, o, f, at) => Has(after, o, f, at)

LEMMA RunStart ==
  ASSUME Good, NEW i \in DOMAIN script, NEW o, o.fits \in BOOLEAN, NEW S
  PROVE  LET n == Run(script[i], o, "start", S)
         IN  /\ Begun(o, S.vars, n.vars)
             /\ <<o.name, "start">> \in script[i].probes /\ Meets(o, script[i]) =>
                    \A f \in DOMAIN script[i].sets : Has(n.vars, o, f, script[i].sets[f].at)
<1> DEFINE c == script[i]
           n == Run(c, o, "start", S)
           set == Set(S.vars, o, c)
<1> SUFFICES /\ Begun(o, S.vars, n.vars)
             /\ <<o.name, "start">> \in c.probes /\ Meets(o, c) =>
                    \A f \in DOMAIN c.sets : Has(n.vars, o, f, c.sets[f].at)
  OBVIOUS
<1>0. ClauseRegular(c, metric)
  BY GoodIs
<1>1. CASE <<o.name, "start">> \notin c.probes \/ ~Passes(c, S.vars, o, "start")
  <2>1. n = S
    BY <1>1, NotRun
  <2>2. <<o.name, "start">> \in c.probes /\ Meets(o, c) => DOMAIN c.sets = {}
    <3>1. ASSUME DOMAIN c.sets # {} PROVE ~c.aggs
      BY <1>0, <3>1 DEF ClauseRegular, Gathering
    <3> QED BY <1>0, <1>1, <3>1, PlainPasses
  <2> QED BY <2>1, <2>2 DEF Begun
<1>2. CASE <<o.name, "start">> \in c.probes /\ Passes(c, S.vars, o, "start")
  <2>1. c.clears = {}
    BY <1>0, <1>2 DEF ClauseRegular, Only
  <2>2. n.vars = set
    <3>1. n.vars = Clear(set, o, c)
      BY <1>2, RunVars
    <3>2. Clear(set, o, c) = set
      BY <2>1, ClearIs
    <3> QED BY <3>1, <3>2
  <2>3. Meets(o, c)
    BY <1>0, <1>2, PassesIs
  <2>4. ASSUME NEW f \in DOMAIN c.sets PROVE Gives(o, <<f, c.sets[f].at>>)
    BY <1>2, <2>3 DEF Gives, Refs
  <2> HIDE DEF c, n
  <2>5. ASSUME NEW v \in set PROVE v \in S.vars \/ Of(v, o)
    BY <2>4, SetIs DEF Of
  <2>6. ASSUME NEW v \in S.vars PROVE v \in set \/ \E at : v.key = Key(o, at)
    BY SetIs
  <2>7. ASSUME NEW f, NEW at, Has(S.vars, o, f, at) PROVE Has(set, o, f, at)
    <3>1. PICK v \in S.vars : v.name = f /\ v.key = Key(o, at)
      BY <2>7 DEF Has
    <3>2. CASE v \in set
      BY <3>1, <3>2 DEF Has
    <3>3. CASE v \notin set
      <4>1. f \in DOMAIN c.sets /\ Key(o, at) = Key(o, c.sets[f].at)
        BY <3>1, <3>3, SetIs
      <4>2. Has(set, o, f, c.sets[f].at)
        BY <4>1, SetIs
      <4> QED BY <4>1, <4>2 DEF Has
    <3> QED BY <3>2, <3>3
  <2>8. \A f \in DOMAIN c.sets : Has(set, o, f, c.sets[f].at)
    BY SetIs
  <2> QED BY <2>2, <2>5, <2>6, <2>7, <2>8 DEF Begun
<1> QED BY <1>1, <1>2

\* An operation that ends.
Ended(o, before, after) ==
    /\ after \subseteq before
    /\ \A v \in before : v \in after \/ \E at : v.key = Key(o, at)

LEMMA RunDone ==
  ASSUME Good, NEW i \in DOMAIN script, NEW o, o.fits \in BOOLEAN, NEW S
  PROVE  LET n == Run(script[i], o, "done", S)
         IN  /\ Ended(o, S.vars, n.vars)
             /\ script[i].clears = {} \/ <<o.name, "done">> \notin script[i].probes =>
                    n.vars = S.vars
             /\ <<o.name, "done">> \in script[i].probes /\ Meets(o, script[i]) =>
                    \A r \in script[i].clears, v \in n.vars : ~(v.name = r[1] /\ v.key = Key(o, r[2]))
<1> DEFINE c == script[i]
           n == Run(c, o, "done", S)
<1> SUFFICES /\ Ended(o, S.vars, n.vars)
             /\ c.clears = {} \/ <<o.name, "done">> \notin c.probes => n.vars = S.vars
             /\ <<o.name, "done">> \in c.probes /\ Meets(o, c) =>
                    \A r \in c.clears, v \in n.vars : ~(v.name = r[1] /\ v.key = Key(o, r[2]))
  OBVIOUS
<1>0. ClauseRegular(c, metric)
  BY GoodIs
<1>1. CASE <<o.name, "done">> \notin c.probes \/ ~Passes(c, S.vars, o, "done")
  <2>1. n = S
    BY <1>1, NotRun
  <2>2. <<o.name, "done">> \in c.probes /\ Meets(o, c) => c.clears = {}
    <3>1. ASSUME c.clears # {} PROVE ~c.aggs
      BY <1>0, <3>1 DEF ClauseRegular
    <3> QED BY <1>0, <1>1, <3>1, PlainPasses
  <2> QED BY <2>1, <2>2 DEF Ended
<1>2. CASE <<o.name, "done">> \in c.probes /\ Passes(c, S.vars, o, "done")
  <2>1. ~Gathering(c)
    BY <1>0, <1>2 DEF ClauseRegular, Only
  <2>2. n.vars = Clear(S.vars, o, c)
    <3>1. n.vars = Clear(Set(S.vars, o, c), o, c)
      BY <1>2, RunVars
    <3>2. Set(S.vars, o, c) = S.vars
      BY <2>1, SetIs
    <3> QED BY <3>1, <3>2
  <2> HIDE DEF c, n
  <2> QED BY <1>2, <2>2, ClearIs DEF Ended
<1> QED BY <1>1, <1>2

\* An event.
LEMMA RunFires ==
  ASSUME Good, NEW i \in DOMAIN script, NEW o, NEW S
  PROVE  Run(script[i], o, "fires", S).vars = S.vars
<1>0. ClauseRegular(script[i], metric)
  BY GoodIs
<1>1. CASE <<o.name, "fires">> \notin script[i].probes \/ ~Passes(script[i], S.vars, o, "fires")
  BY <1>1, NotRun
<1>2. CASE <<o.name, "fires">> \in script[i].probes /\ Passes(script[i], S.vars, o, "fires")
  <2>1. ~Gathering(script[i]) /\ script[i].clears = {}
    BY <1>0, <1>2 DEF ClauseRegular, Only
  <2>2. Run(script[i], o, "fires", S).vars = Clear(Set(S.vars, o, script[i]), o, script[i])
    BY <1>2, RunVars
  <2>3. Set(S.vars, o, script[i]) = S.vars
    BY <2>1, SetIs
  <2>4. Clear(S.vars, o, script[i]) = S.vars
    BY <2>1, ClearIs
  <2> QED BY <2>2, <2>3, <2>4
<1> QED BY <1>1, <1>2


-----------------------------------------------------------------------------
(* What one enabling does.                                                 *)

LEMMA StartGoes ==
  ASSUME Good, NEW o, o.fits \in BOOLEAN, NEW vs
  PROVE  LET e == Enabling(vs, o, "start")
         IN  /\ Begun(o, vs, e.vars)
             /\ \A x, at : Gives(o, <<x, at>>) => Has(e.vars, o, x, at)
<1> DEFINE N == Len(script)
<1>0. N \in Nat /\ DOMAIN script = 1..N
  BY GoodLen
<1>1. PICK f : Goes(vs, o, "start", f)
  BY <1>0, EnablingGoes
<1> DEFINE Got(i, j) == <<o.name, "start">> \in script[j].probes /\ Meets(o, script[j]) =>
               \A x \in DOMAIN script[j].sets : Has(f[i].vars, o, x, script[j].sets[x].at)
           T == {i \in Nat : Begun(o, vs, f[i].vars) /\ \A j \in 1..i : Got(i, j)}
<1>2. 0 \in T
  <2>1. f[0].vars = vs
    BY <1>1 DEF Goes, Start0
  <2> QED BY <2>1 DEF Begun
<1>3. ASSUME NEW i \in 0..(N - 1), i \in T PROVE i + 1 \in T
  <2>1. i + 1 \in DOMAIN script /\ i + 1 \in Nat
    BY <1>0
  <2>2. f[i + 1] = Run(script[i + 1], o, "start", f[i])
    <3>1. f[i + 1] = Run(script[i + 1], o, "start", f[(i + 1) - 1])
      BY <1>0, <1>1, <2>1 DEF Goes
    <3>2. (i + 1) - 1 = i
      OBVIOUS
    <3> QED BY <3>1, <3>2
  <2>3. Begun(o, f[i].vars, f[i + 1].vars) /\ Got(i + 1, i + 1)
    BY <2>1, <2>2, RunStart
  <2>4. Begun(o, vs, f[i + 1].vars)
    BY <1>3, <2>3 DEF Begun
  <2>5. ASSUME NEW j \in 1..i PROVE Got(i + 1, j)
    BY <1>3, <2>3, <2>5 DEF Begun
  <2>6. \A j \in 1..(i + 1) : j \in 1..i \/ j = i + 1
    OBVIOUS
  <2> QED BY <2>1, <2>3, <2>4, <2>5, <2>6
<1>4. N \in T
  <2>1. T \in SUBSET Nat
    OBVIOUS
  <2> HIDE DEF T, N
  <2> QED BY <1>0, <1>2, <1>3, <2>1, Climb
<1>5. Enabling(vs, o, "start") = f[N]
  BY <1>1 DEF Goes
<1>6. ASSUME NEW x, NEW at, Gives(o, <<x, at>>) PROVE Has(f[N].vars, o, x, at)
  <2>1. PICK j \in DOMAIN script : /\ <<o.name, "start">> \in script[j].probes /\ Meets(o, script[j])
                                   /\ <<x, at>> \in Refs(script[j])
    BY <1>6 DEF Gives
  <2>2. x \in DOMAIN script[j].sets /\ at = script[j].sets[x].at
    BY <2>1 DEF Refs
  <2> QED BY <1>0, <1>4, <2>1, <2>2
<1> QED BY <1>4, <1>5, <1>6

LEMMA DoneGoes ==
  ASSUME Good, NEW o, o.fits \in BOOLEAN, NEW vs
  PROVE  LET e == Enabling(vs, o, "done")
         IN  /\ Ended(o, vs, e.vars)
             /\ \A j \in DOMAIN script :
                    <<o.name, "done">> \in script[j].probes /\ Meets(o, script[j]) =>
                        \A r \in script[j].clears, v \in e.vars :
                            ~(v.name = r[1] /\ v.key = Key(o, r[2]))
<1> DEFINE N == Len(script)
<1>0. N \in Nat /\ DOMAIN script = 1..N
  BY GoodLen
<1>1. PICK f : Goes(vs, o, "done", f)
  BY <1>0, EnablingGoes
<1> DEFINE Got(i, j) == <<o.name, "done">> \in script[j].probes /\ Meets(o, script[j]) =>
               \A r \in script[j].clears, v \in f[i].vars : ~(v.name = r[1] /\ v.key = Key(o, r[2]))
           T == {i \in Nat : Ended(o, vs, f[i].vars) /\ \A j \in 1..i : Got(i, j)}
<1>2. 0 \in T
  <2>1. f[0].vars = vs
    BY <1>1 DEF Goes, Start0
  <2> QED BY <2>1 DEF Ended
<1>3. ASSUME NEW i \in 0..(N - 1), i \in T PROVE i + 1 \in T
  <2>1. i + 1 \in DOMAIN script /\ i + 1 \in Nat
    BY <1>0
  <2>2. f[i + 1] = Run(script[i + 1], o, "done", f[i])
    <3>1. f[i + 1] = Run(script[i + 1], o, "done", f[(i + 1) - 1])
      BY <1>0, <1>1, <2>1 DEF Goes
    <3>2. (i + 1) - 1 = i
      OBVIOUS
    <3> QED BY <3>1, <3>2
  <2>3. Ended(o, f[i].vars, f[i + 1].vars) /\ Got(i + 1, i + 1)
    BY <2>1, <2>2, RunDone
  <2>4. Ended(o, vs, f[i + 1].vars)
    BY <1>3, <2>3 DEF Ended
  <2>5. ASSUME NEW j \in 1..i PROVE Got(i + 1, j)
    BY <1>3, <2>3, <2>5 DEF Ended
  <2>6. \A j \in 1..(i + 1) : j \in 1..i \/ j = i + 1
    OBVIOUS
  <2> QED BY <2>1, <2>3, <2>4, <2>5, <2>6
<1>4. N \in T
  <2>1. T \in SUBSET Nat
    OBVIOUS
  <2> HIDE DEF T, N
  <2> QED BY <1>0, <1>2, <1>3, <2>1, Climb
<1>5. Enabling(vs, o, "done") = f[N]
  BY <1>1 DEF Goes
<1> QED BY <1>0, <1>4, <1>5

LEMMA FiresGoes ==
  ASSUME Good, NEW o, NEW vs
  PROVE  Enabling(vs, o, "fires").vars = vs
<1> DEFINE N == Len(script)
<1>0. N \in Nat /\ DOMAIN script = 1..N
  BY GoodLen
<1>1. PICK f : Goes(vs, o, "fires", f)
  BY <1>0, EnablingGoes
<1> DEFINE T == {i \in Nat : f[i].vars = vs}
<1>2. 0 \in T
  BY <1>1 DEF Goes, Start0
<1>3. ASSUME NEW i \in 0..(N - 1), i \in T PROVE i + 1 \in T
  <2>1. i + 1 \in DOMAIN script /\ i + 1 \in Nat
    BY <1>0
  <2>2. f[i + 1] = Run(script[i + 1], o, "fires", f[i])
    <3>1. f[i + 1] = Run(script[i + 1], o, "fires", f[(i + 1) - 1])
      BY <1>0, <1>1, <2>1 DEF Goes
    <3>2. (i + 1) - 1 = i
      OBVIOUS
    <3> QED BY <3>1, <3>2
  <2> QED BY <1>3, <2>1, <2>2, RunFires
<1>4. N \in T
  <2>1. T \in SUBSET Nat
    OBVIOUS
  <2> HIDE DEF T, N
  <2> QED BY <1>0, <1>2, <1>3, <2>1, Climb
<1> QED BY <1>1, <1>4 DEF Goes


-----------------------------------------------------------------------------
(* What is counted.                                                        *)

Telling(j, o, point) == CountsAt(script, j, o.name, point)

LEMMA RunUncounted ==
  ASSUME NEW j \in DOMAIN script, NEW o, NEW point, NEW S, ~Telling(j, o, point)
  PROVE  Run(script[j], o, point, S).hits = S.hits
<1>1. CASE <<o.name, point>> \notin script[j].probes \/ ~Passes(script[j], S.vars, o, point)
  BY <1>1, NotRun
<1>2. CASE <<o.name, point>> \in script[j].probes /\ Passes(script[j], S.vars, o, point)
  <2>1. ~script[j].aggs
    BY <1>2 DEF Telling, CountsAt
  <2> QED BY <1>2, <2>1, RunHits
<1> QED BY <1>1, <1>2

Tally(vs, o, point, k) ==
    IF Passes(script[k], vs, o, point) THEN <<Contributors(vs, o, script[k])>> ELSE <<>>

LEMMA RunCounted ==
  ASSUME Good, NEW k \in DOMAIN script, NEW o, NEW point, NEW S, Telling(k, o, point), S.hits = <<>>
  PROVE  Run(script[k], o, point, S).hits = Tally(S.vars, o, point, k)
<1>1. script[k].aggs /\ <<o.name, point>> \in script[k].probes /\ ~Gathering(script[k])
  BY GoodIs DEF Telling, CountsAt, ClauseRegular
<1>2. CASE ~Passes(script[k], S.vars, o, point)
  BY <1>2, NotRun DEF Tally
<1>3. CASE Passes(script[k], S.vars, o, point)
  <2>1. Run(script[k], o, point, S).hits =
            Append(S.hits, Contributors(Set(S.vars, o, script[k]), o, script[k]))
    BY <1>1, <1>3, RunHits
  <2>2. Set(S.vars, o, script[k]) = S.vars
    BY <1>1, SetIs
  <2>3. \A x : Append(<<>>, x) = <<x>>
    OBVIOUS
  <2> QED BY <1>3, <2>1, <2>2, <2>3 DEF Tally
<1> QED BY <1>2, <1>3

\* What is not read makes no difference.
LEMMA TallyBlind ==
  ASSUME Good, NEW k \in DOMAIN script, NEW o, o.fits \in BOOLEAN, NEW point,
         script[k].verify \cup script[k].agg.reads = {}, NEW vs, NEW ws
  PROVE  Tally(vs, o, point, k) = Tally(ws, o, point, k)
<1>1. ClauseRegular(script[k], metric)
  BY GoodIs
<1>2. Passes(script[k], vs, o, point) <=> Passes(script[k], ws, o, point)
  BY <1>1, PassesIs
<1>3. Contributors(vs, o, script[k]) = {} /\ Contributors(ws, o, script[k]) = {}
  BY DEF Contributors
<1> QED BY <1>2, <1>3 DEF Tally

LEMMA Tallied ==
  ASSUME Good, NEW o, o.fits \in BOOLEAN, NEW vs, NEW point, NEW k \in DOMAIN script,
         \A j \in DOMAIN script : Telling(j, o, point) <=> j = k,
         point = "done" \/ script[k].verify \cup script[k].agg.reads = {}
  PROVE  Enabling(vs, o, point).hits = Tally(vs, o, point, k)
<1> DEFINE N == Len(script)
<1>0. N \in Nat /\ DOMAIN script = 1..N /\ k \in 1..N
  BY GoodLen
<1>1. PICK f : Goes(vs, o, point, f)
  BY <1>0, EnablingGoes
<1>a. ASSUME NEW i \in 0..(N - 1)
      PROVE  i + 1 \in DOMAIN script /\ i + 1 \in Nat /\ f[i + 1] = Run(script[i + 1], o, point, f[i])
  <2>1. i + 1 \in DOMAIN script /\ i + 1 \in Nat
    BY <1>0
  <2>2. f[i + 1] = Run(script[i + 1], o, point, f[(i + 1) - 1])
    BY <1>0, <1>1, <2>1 DEF Goes
  <2>3. (i + 1) - 1 = i
    OBVIOUS
  <2> QED BY <2>1, <2>2, <2>3
<1> DEFINE T == {i \in Nat : /\ f[i].hits = IF i < k THEN <<>> ELSE Tally(vs, o, point, k)
                             /\ point = "done" /\ i < k => f[i].vars = vs}
<1>2. 0 \in T
  <2>1. f[0].vars = vs /\ f[0].hits = <<>>
    BY <1>1 DEF Goes, Start0
  <2> QED BY <1>0, <2>1
<1>3. ASSUME NEW i \in 0..(N - 1), i \in T PROVE i + 1 \in T
  <2>1. i + 1 \in DOMAIN script /\ i + 1 \in Nat /\ f[i + 1] = Run(script[i + 1], o, point, f[i])
    BY <1>a
  <2>2. CASE i + 1 = k
    <3>1. f[i].hits = <<>> /\ (point = "done" => f[i].vars = vs)
      BY <1>3, <2>2
    <3>2. Telling(k, o, point)
      OBVIOUS
    <3>3. f[i + 1].hits = Tally(f[i].vars, o, point, k)
      BY <2>1, <2>2, <3>1, <3>2, RunCounted
    <3>4. Tally(f[i].vars, o, point, k) = Tally(vs, o, point, k)
      BY <3>1, TallyBlind
    <3> QED BY <2>1, <2>2, <3>3, <3>4
  <2>3. CASE i + 1 # k
    <3>1. f[i + 1].hits = f[i].hits
      BY <2>1, <2>3, RunUncounted
    <3>2. i + 1 < k <=> i < k
      BY <1>0, <2>3
    <3>3. ASSUME point = "done", i + 1 < k PROVE f[i + 1].vars = vs
      <4>1. CountsIn(script, k, desc, metric) /\ <<o.name, "done">> \in script[k].probes
        <5>1. Telling(k, o, "done")
          BY <3>3
        <5> QED BY <5>1, GoodIs DEF Telling, CountsAt
      <4>2. <<o.name, "done">>[2] = "done" /\ <<o.name, "done">>[1] = o.name
        OBVIOUS
      <4>3. <<o.name, "done">> \in script[i + 1].probes /\ script[i + 1].clears # {} => k < i + 1
        BY <2>1, <4>1, <4>2 DEF CountsIn
      <4>4. script[i + 1].clears = {} \/ <<o.name, "done">> \notin script[i + 1].probes
        BY <1>0, <3>3, <4>3
      <4>5. f[i + 1].vars = f[i].vars
        BY <2>1, <3>3, <4>4, RunDone
      <4> QED BY <1>3, <3>2, <3>3, <4>5
    <3> QED BY <1>3, <2>1, <3>1, <3>2, <3>3
  <2> QED BY <2>2, <2>3
<1>4. N \in T
  <2>1. T \in SUBSET Nat
    OBVIOUS
  <2> HIDE DEF T, N
  <2> QED BY <1>0, <1>2, <1>3, <2>1, Climb
<1>5. Enabling(vs, o, point) = f[N] /\ ~(N < k)
  BY <1>0, <1>1 DEF Goes
<1> QED BY <1>4, <1>5


-----------------------------------------------------------------------------
(* All enablings of a program.                                             *)

Took(vs, o, point, z) ==
    IF on /\ In(z, o) THEN Enabling(vs, o, point) ELSE [vars |-> vs, hits |-> <<>>]

LEMMA FiredVars ==
  ASSUME NEW o, NEW point, NEW z \in enablings
  PROVE  VarsOf(Fired(o, point))[z] = Took(vars[z], o, point, z).vars
<1> DEFINE f == Fired(o, point)
           S == {x.of.vars : x \in {y \in f : y.in = z}}
<1>1. \A y : y \in f <=> \E w \in enablings : y = [in |-> w, of |-> Took(vars[w], o, point, w)]
  BY DEF Fired, Took, In
<1> HIDE DEF f
<1>2. \A y : y \in f /\ y.in = z <=> y = [in |-> z, of |-> Took(vars[z], o, point, z)]
  BY <1>1
<1> DEFINE y0 == [in |-> z, of |-> Took(vars[z], o, point, z)]
<1>3. S = {Took(vars[z], o, point, z).vars}
  <2>1. y0.of = Took(vars[z], o, point, z)
    OBVIOUS
  <2>2. {y \in f : y.in = z} = {y0}
    BY <1>2
  <2> HIDE DEF y0
  <2>3. S = {x.of.vars : x \in {y0}}
    BY <2>2
  <2> QED BY <2>1, <2>3
<1>4. VarsOf(f)[z] = UNION S
  BY DEF VarsOf
<1> QED BY <1>3, <1>4 DEF f

LEMMA FiredHits ==
  ASSUME NEW o, NEW point, NEW h
  PROVE  h \in HitsOf(Fired(o, point)) <=>
             \E z \in enablings : LET hits == Took(vars[z], o, point, z).hits
                                  IN  \E i \in DOMAIN hits : h = <<z, i, hits[i]>>
<1> DEFINE f == Fired(o, point)
<1>1. \A y : y \in f <=> \E w \in enablings : y = [in |-> w, of |-> Took(vars[w], o, point, w)]
  BY DEF Fired, Took, In
<1> HIDE DEF f
<1>2. h \in HitsOf(f) <=> \E y \in f : \E i \in DOMAIN y.of.hits : h = <<y.in, i, y.of.hits[i]>>
  BY DEF HitsOf
<1>3. ASSUME NEW w \in enablings
      PROVE  \E y \in f : y.in = w /\ y.of = Took(vars[w], o, point, w)
  <2> DEFINE y == [in |-> w, of |-> Took(vars[w], o, point, w)]
  <2>1. y \in f /\ y.in = w /\ y.of = Took(vars[w], o, point, w)
    BY <1>1, <1>3
  <2> HIDE DEF y
  <2> QED BY <2>1
<1>4. ASSUME NEW y \in f
      PROVE  y.in \in enablings /\ y.of = Took(vars[y.in], o, point, y.in)
  BY <1>1
<1> DEFINE Hit(w, of) == \E i \in DOMAIN of.hits : h = <<w, i, of.hits[i]>>
<1>5. h \in HitsOf(f) <=> \E y \in f : Hit(y.in, y.of)
  BY <1>2
<1> HIDE DEF Hit
<1>6. h \in HitsOf(f) <=> \E w \in enablings : Hit(w, Took(vars[w], o, point, w))
  BY <1>3, <1>4, <1>5
<1> QED BY <1>6 DEF f, Hit

LEMMA EnablingsAre ==
  \/ metric.zones # {} /\ enablings = {{z} : z \in metric.zones}
  \/ enablings = {{}}
BY DEF enablings, Scripts

-----------------------------------------------------------------------------
(* The invariant.                                                          *)

Proper(o, isOn) ==
    /\ o \in [id : Nat, thread : {o.thread}, name : {o.name}, zone : {o.zone}, fits : BOOLEAN,
              arg : {o.arg}, nested : {FALSE}, seen : BOOLEAN]
    /\ o.seen => isOn
    /\ o.fits \/ Selective
    /\ o.name \in Names(desc, "start") /\ Names(desc, "done") # {}

InvWith(vs, ops, isOn, n) ==
    /\ n \in Nat /\ isOn \in BOOLEAN
    /\ \A o \in ops : Proper(o, isOn)
    /\ Apart(ops)
    /\ \A z \in enablings : State(vs[z], ops, z)
RunInv == InvWith(vars, live, on, started)

LEMMA ProgStays ==
  ASSUME UNCHANGED prog
  PROVE  /\ desc' = desc /\ metric' = metric /\ script' = script
         /\ enablings' = enablings /\ Good' = Good
BY DEF desc, metric, script, enablings, Good

LEMMA InvNext ==
  ASSUME UNCHANGED prog, InvWith(vars', live', on', started')
  PROVE  RunInv'
<1>0. /\ desc' = desc /\ metric' = metric /\ script' = script
      /\ enablings' = enablings
  BY ProgStays
<1>1. (\A o \in live : Proper(o, on))'
  BY <1>0 DEF InvWith, Proper, Selective
<1>2. Apart(live)'
  BY <1>0 DEF InvWith, Apart, Clash
<1>a. ASSUME NEW o, NEW r PROVE Gives(o, r)' <=> Gives(o, r)
  BY <1>0 DEF Gives, Meets
<1>b. ASSUME NEW v, NEW o PROVE Of(v, o)' <=> Of(v, o)
  BY <1>a DEF Of
<1>3. (\A z \in enablings : Owned(vars[z], live, z))'
  BY <1>0, <1>b DEF InvWith, State, Owned, In
<1>4. (\A z \in enablings : Held(vars[z], live, z))'
  BY <1>0, <1>a DEF InvWith, State, Held, In, Has
<1>5. (started \in Nat /\ on \in BOOLEAN)'
  BY DEF InvWith
<1> QED BY <1>1, <1>2, <1>3, <1>4, <1>5 DEF RunInv, InvWith, State

LEMMA EnableInv ==
  ASSUME RunInv, instrument
  PROVE  RunInv'
<1> DEFINE blind(o) == [o EXCEPT !.seen = FALSE]
<1>1. UNCHANGED <<prog, started>> /\ on' = TRUE /\ vars' = Unset /\ live' = {blind(o) : o \in live}
  BY DEF instrument
<1>2. ASSUME NEW o \in live
      PROVE  Proper(blind(o), TRUE) /\ blind(o).seen = FALSE /\ (\A x : Clash(blind(o), x) <=> Clash(o, x))
                                    /\ (\A x : Clash(x, blind(o)) <=> Clash(x, o))
  <2>1. Proper(o, on)
    BY DEF RunInv, InvWith
  <2>2. /\ blind(o) \in [id : {o.id}, thread : {o.thread}, name : {o.name}, zone : {o.zone},
                           fits : {o.fits}, arg : {o.arg}, nested : {FALSE}, seen : {FALSE}]
    BY <2>1 DEF Proper
  <2> HIDE DEF blind
  <2> QED BY <2>1, <2>2 DEF Proper, Clash
<1>3. Apart(live')
  <2> SUFFICES ASSUME NEW o \in live, NEW x \in live, Clash(blind(o), blind(x)) PROVE blind(o) = blind(x)
    BY <1>1 DEF Apart
  <2> HIDE DEF blind
  <2>1. Clash(o, x)
    BY <1>2
  <2> QED BY <2>1 DEF RunInv, InvWith, Apart
<1> HIDE DEF blind
<1>4. ASSUME NEW z \in enablings PROVE State(vars'[z], live', z)
  <2>1. vars'[z] = {}
    BY <1>1 DEF Unset
  <2>2. \A o \in live' : o.seen = FALSE
    BY <1>1, <1>2
  <2> QED BY <2>1, <2>2 DEF State, Owned, Held
<1>5. InvWith(vars', live', on', started')
  BY <1>1, <1>2, <1>3, <1>4 DEF RunInv, InvWith
<1> QED BY <1>1, <1>5, InvNext


-----------------------------------------------------------------------------
(* What becomes of it when an operation begins, ends or happens.           *)

LEMMA BeginState ==
  ASSUME Good, NEW vs, NEW ops, NEW z, State(vs, ops, z), NEW o, o.fits \in BOOLEAN, o.seen = on,
         \A x \in ops : ~Clash(o, x)
  PROVE  State(Took(vs, o, "start", z).vars, ops \cup {o}, z)
<1>1. CASE ~(on /\ In(z, o))
  <2>1. Took(vs, o, "start", z).vars = vs
    BY <1>1 DEF Took
  <2>2. ~(o.seen /\ In(z, o))
    BY <1>1
  <2> QED BY <2>1, <2>2 DEF State, Owned, Held
<1>2. CASE on /\ In(z, o)
  <2> DEFINE e == Enabling(vs, o, "start")
  <2>1. Took(vs, o, "start", z) = e
    BY <1>2 DEF Took
  <2>2. /\ Begun(o, vs, e.vars)
        /\ \A x, at : Gives(o, <<x, at>>) => Has(e.vars, o, x, at)
    BY StartGoes
  <2> HIDE DEF e
  <2>3. Owned(e.vars, ops \cup {o}, z)
    <3> SUFFICES ASSUME NEW v \in e.vars
                 PROVE  \E x \in ops \cup {o} : x.seen /\ In(z, x) /\ Of(v, x)
      BY DEF Owned
    <3>1. v \in vs \/ Of(v, o)
      BY <2>2 DEF Begun
    <3> QED BY <1>2, <3>1 DEF State, Owned
  <2>4. ASSUME NEW x \in ops, x.seen, In(z, x), NEW f, NEW at, Gives(x, <<f, at>>)
        PROVE  Has(e.vars, x, f, at)
    <3>1. PICK v \in vs : v.name = f /\ v.key = Key(x, at)
      BY <2>4 DEF State, Held, Has
    <3>2. v \in e.vars
      <4>1. v \in e.vars \/ \E at2 : v.key = Key(o, at2)
        BY <2>2 DEF Begun
      <4>2. Distinct(desc, at)
        BY <2>4, GivesDistinct
      <4>3. ASSUME NEW at2, v.key = Key(o, at2) PROVE FALSE
        BY <3>1, <4>2, <4>3, KeysClash
      <4> QED BY <4>1, <4>3
    <3> QED BY <3>1, <3>2 DEF Has
  <2>5. Held(e.vars, ops \cup {o}, z)
    BY <2>2, <2>4 DEF Held
  <2> QED BY <2>1, <2>3, <2>5 DEF State
<1> QED BY <1>1, <1>2

LEMMA StartBegins ==
  ASSUME Good, NEW o, o.fits \in BOOLEAN, NEW vs
  PROVE  Begun(o, vs, Enabling(vs, o, "start").vars)
<1> DEFINE e == Enabling(vs, o, "start")
           Given(after) == \A x, at : Gives(o, <<x, at>>) => Has(after, o, x, at)
<1>1. Begun(o, vs, e.vars) /\ Given(e.vars)
  BY StartGoes
<1> HIDE DEF Given
<1> QED BY <1>1

LEMMA DoneEnds ==
  ASSUME Good, NEW o, o.fits \in BOOLEAN, NEW vs
  PROVE  Ended(o, vs, Enabling(vs, o, "done").vars)
<1> DEFINE e == Enabling(vs, o, "done")
           Cleared(after) == \A j \in DOMAIN script :
                    <<o.name, "done">> \in script[j].probes /\ Meets(o, script[j]) =>
                        \A r \in script[j].clears, v \in after :
                            ~(v.name = r[1] /\ v.key = Key(o, r[2]))
<1>1. Ended(o, vs, e.vars) /\ Cleared(e.vars)
  BY DoneGoes
<1> HIDE DEF Cleared
<1> QED BY <1>1

LEMMA EndState ==
  ASSUME Good, NEW vs, NEW ops, NEW z, State(vs, ops, z), Apart(ops),
         NEW o \in ops, o.fits \in BOOLEAN, o.seen => on
  PROVE  State(Took(vs, o, "done", z).vars, ops \ {o}, z)
<1> DEFINE after == Took(vs, o, "done", z).vars
<1>1. Ended(o, vs, after)
  <2>1. CASE on /\ In(z, o)
    <3>1. after = Enabling(vs, o, "done").vars
      BY <2>1 DEF Took
    <3>2. Ended(o, vs, Enabling(vs, o, "done").vars)
      BY DoneEnds
    <3> HIDE DEF after
    <3> QED BY <3>1, <3>2
  <2>2. CASE ~(on /\ In(z, o))
    BY <2>2 DEF Took, Ended
  <2> QED BY <2>1, <2>2
<1>2. ASSUME NEW v \in after, o.seen, In(z, o), Of(v, o) PROVE FALSE
  <2>1. after = Enabling(vs, o, "done").vars
    BY <1>2 DEF Took
  <2>2. PICK at : Gives(o, <<v.name, at>>) /\ v.key = Key(o, at)
    BY <1>2 DEF Of
  <2>3. PICK i \in DOMAIN script : /\ <<o.name, "start">> \in script[i].probes
                                   /\ Meets(o, script[i]) /\ <<v.name, at>> \in Refs(script[i])
    BY <2>2 DEF Gives
  <2>4. \A q \in script[i].probes, r \in Refs(script[i]) : \E j \in DOMAIN script :
            /\ <<q[1], "done">> \in script[j].probes /\ r \in script[j].clears
            /\ script[j].pred \subseteq script[i].pred
    BY GoodIs DEF ClearedIn
  <2>5. <<o.name, "start">>[1] = o.name
    OBVIOUS
  <2>6. PICK j \in DOMAIN script :
            /\ <<o.name, "done">> \in script[j].probes /\ <<v.name, at>> \in script[j].clears
            /\ script[j].pred \subseteq script[i].pred
    BY <2>3, <2>4, <2>5
  <2>7. Meets(o, script[j])
    BY <2>3, <2>6 DEF Meets
  <2>8. ~(v.name = <<v.name, at>>[1] /\ v.key = Key(o, <<v.name, at>>[2]))
    <3> HIDE DEF after
    <3> QED BY <1>2, <2>1, <2>6, <2>7, DoneGoes
  <2> QED BY <2>2, <2>8
<1> HIDE DEF after
<1>3. Owned(after, ops \ {o}, z)
  <2> SUFFICES ASSUME NEW v \in after
               PROVE  \E x \in ops \ {o} : x.seen /\ In(z, x) /\ Of(v, x)
    BY DEF Owned
  <2>1. v \in vs
    BY <1>1 DEF Ended
  <2>2. PICK x \in ops : x.seen /\ In(z, x) /\ Of(v, x)
    BY <2>1 DEF State, Owned
  <2>3. x # o
    BY <1>2, <2>2
  <2> QED BY <2>2, <2>3
<1>4. ASSUME NEW x \in ops \ {o}, x.seen, In(z, x), NEW f, NEW at, Gives(x, <<f, at>>)
      PROVE  Has(after, x, f, at)
  <2>1. PICK v \in vs : v.name = f /\ v.key = Key(x, at)
    BY <1>4 DEF State, Held, Has
  <2>2. v \in after
    <3>1. v \in after \/ \E at2 : v.key = Key(o, at2)
      BY <1>1 DEF Ended
    <3>2. Distinct(desc, at)
      BY <1>4, GivesDistinct
    <3>3. ASSUME NEW at2, v.key = Key(o, at2) PROVE FALSE
      <4>1. Clash(o, x)
        BY <2>1, <3>2, <3>3, KeysClash
      <4> QED BY <4>1 DEF Apart
    <3> QED BY <3>1, <3>3
  <2> QED BY <2>1, <2>2 DEF Has
<1> QED BY <1>3, <1>4 DEF State, Held, after

\* The operation that begins.
Begins(o) ==
    /\ o.id \in Nat /\ o.fits \in BOOLEAN /\ o.seen = on /\ o.name \in Names(desc, "start")
    /\ o.fits \/ Selective
    /\ Proper(o, on) \/ Names(desc, "done") = {}
    /\ \A x \in live : ~Clash(o, x) /\ ~Clash(x, o)
    /\ vars' = VarsOf(Fired(o, "start")) /\ started' = started + 1 /\ UNCHANGED <<prog, on>>
    /\ Names(desc, "done") = {} =>
          last' = {[op |-> o, hits |-> HitsOf(Fired(o, "start")), part |-> FALSE]} /\ live' = live
    /\ Names(desc, "done") # {} => last' = {} /\ live' = live \cup {o}

LEMMA BeginIs ==
  ASSUME Good, RunInv, NEW t, NEW name \in Names(desc, "start"), NEW fits \in BOOLEAN, NEW arg,
         Begin(t, name, fits, arg)
  PROVE  Begins(Op(t, name, fits, arg, FALSE))
<1> DEFINE above == {x \in live : x.thread = t}
           nested == ~Indexed(desc) /\ above # {}
           o == Op(t, name, fits, arg, nested)
           f == Fired(o, "start")
           e == [op |-> o, hits |-> HitsOf(f), part |-> FALSE]
<1>1. /\ fits \/ Selective
      /\ IF Indexed(desc)
         THEN \A x \in live : x.arg = arg => ~Kernel(desc) /\ x.thread # t
         ELSE TRUE
      /\ Indexed(desc) \/ MayStart(desc, name, above)
      /\ vars' = VarsOf(f) /\ started' = started + 1 /\ UNCHANGED <<prog, on>>
      /\ last' = IF Names(desc, "done") = {} THEN {e} ELSE {}
      /\ live' = IF last' = {} THEN live \cup {o} ELSE live
  BY DEF Begin
<1>2. Indexed(desc) \/ above = {}
  <2>1. ~Nests(desc)
    BY DEF Good, Regular
  <2> QED BY <1>1, <2>1 DEF MayStart, MayNest, Nests
<1>3. nested = FALSE
  BY <1>2
<1>4. o = [id |-> started + 1, thread |-> t, name |-> name, zone |-> ZoneOf[t], fits |-> fits,
           arg |-> arg, nested |-> FALSE, seen |-> on]
  BY <1>3 DEF Op
<1>5. o = Op(t, name, fits, arg, FALSE)
  BY <1>4 DEF Op
<1>6. started \in Nat /\ on \in BOOLEAN
  BY DEF RunInv, InvWith
<1> HIDE DEF o, f, e, nested
<1>7. \A x \in live : ~Clash(o, x) /\ ~Clash(x, o)
  BY <1>1, <1>2, <1>4 DEF Clash
<1>8. Proper(o, on) \/ Names(desc, "done") = {}
  BY <1>1, <1>4, <1>6 DEF Proper
<1>9. /\ Names(desc, "done") = {} => last' = {e} /\ live' = live
      /\ Names(desc, "done") # {} => last' = {} /\ live' = live \cup {o}
  BY <1>1
<1>10. /\ o.id \in Nat /\ o.fits \in BOOLEAN /\ o.seen = on /\ o.name = name
       /\ o.fits \/ Selective
  BY <1>1, <1>4, <1>6
<1>11. Begins(o)
  BY <1>1, <1>7, <1>8, <1>9, <1>10 DEF f, e, Begins
<1> QED BY <1>5, <1>11


LEMMA BeginInv ==
  ASSUME Good, RunInv, NEW t, NEW name \in Names(desc, "start"), NEW fits \in BOOLEAN, NEW arg,
         Begin(t, name, fits, arg)
  PROVE  RunInv'
<1> DEFINE o == Op(t, name, fits, arg, FALSE)
<1>0. Begins(o)
  BY BeginIs
<1> HIDE DEF o
<1>1. /\ o.fits \in BOOLEAN /\ o.seen = on /\ o.name \in Names(desc, "start")
      /\ Proper(o, on) \/ Names(desc, "done") = {}
      /\ \A x \in live : ~Clash(o, x) /\ ~Clash(x, o)
      /\ vars' = VarsOf(Fired(o, "start")) /\ started' = started + 1 /\ UNCHANGED <<prog, on>>
      /\ Names(desc, "done") = {} => live' = live
      /\ Names(desc, "done") # {} => live' = live \cup {o}
  BY <1>0 DEF Begins
<1>2. /\ \A x \in live : Proper(x, on)
      /\ Apart(live) /\ started \in Nat /\ on \in BOOLEAN
      /\ \A z \in enablings : State(vars[z], live, z)
  BY DEF RunInv, InvWith
<1>3. CASE Names(desc, "done") # {}
  <2>1. live' = live \cup {o} /\ Proper(o, on)
    BY <1>1, <1>3
  <2>2. Apart(live')
    BY <1>1, <1>2, <2>1 DEF Apart
  <2>3. ASSUME NEW z \in enablings PROVE State(vars'[z], live', z)
    <3>1. vars'[z] = Took(vars[z], o, "start", z).vars
      BY <1>1, FiredVars
    <3>2. State(Took(vars[z], o, "start", z).vars, live \cup {o}, z)
      BY <1>1, <1>2, BeginState
    <3> QED BY <2>1, <3>1, <3>2
  <2>4. InvWith(vars', live', on', started')
    BY <1>1, <1>2, <2>1, <2>2, <2>3 DEF InvWith
  <2> QED BY <1>1, <2>4, InvNext
<1>4. CASE Names(desc, "done") = {}
  <2>1. live = {} /\ live' = {}
    BY <1>1, <1>2, <1>4 DEF Proper
  <2>2. \A i \in DOMAIN script : ~Gathering(script[i])
    BY <1>4 DEF Good, Regular
  <2>3. ASSUME NEW z \in enablings PROVE vars'[z] = {}
    <3>1. vars'[z] = Took(vars[z], o, "start", z).vars
      BY <1>1, FiredVars
    <3>2. vars[z] = {}
      BY <1>2, <2>1 DEF State, Owned
    <3>3. CASE on /\ In(z, o)
      <4>1. vars'[z] = Enabling(vars[z], o, "start").vars
        BY <3>1, <3>3 DEF Took
      <4>2. Begun(o, vars[z], vars'[z])
        <5>1. Begun(o, vars[z], Enabling(vars[z], o, "start").vars)
          BY <1>1, StartBegins
        <5> QED BY <4>1, <5>1
      <4>3. \A v \in vars'[z] : Of(v, o)
        BY <3>2, <4>2 DEF Begun
      <4>4. \A r : ~Gives(o, r)
        BY <2>2 DEF Gives, Refs, Gathering
      <4> QED BY <4>3, <4>4 DEF Of
    <3>4. CASE ~(on /\ In(z, o))
      BY <3>1, <3>2, <3>4 DEF Took
    <3> QED BY <3>3, <3>4
  <2>4. \A z \in enablings : State(vars'[z], live', z)
    BY <2>1, <2>3 DEF State, Owned, Held
  <2>5. InvWith(vars', live', on', started')
    BY <1>1, <1>2, <2>1, <2>4 DEF InvWith, Apart
  <2> QED BY <1>1, <2>5, InvNext
<1> QED BY <1>3, <1>4

LEMMA FinishInv ==
  ASSUME Good, RunInv, NEW o \in live, Finish(o)
  PROVE  RunInv'
<1>1. /\ live' = live \ {o} /\ vars' = VarsOf(Fired(o, "done"))
      /\ UNCHANGED <<prog, on, started>>
  BY DEF Finish
<1>2. /\ \A x \in live : Proper(x, on)
      /\ Apart(live) /\ started \in Nat /\ on \in BOOLEAN
      /\ \A z \in enablings : State(vars[z], live, z)
  BY DEF RunInv, InvWith
<1>3. o.fits \in BOOLEAN /\ (o.seen => on)
  BY <1>2 DEF Proper
<1>4. ASSUME NEW z \in enablings PROVE State(vars'[z], live', z)
  <2>1. vars'[z] = Took(vars[z], o, "done", z).vars
    BY <1>1, FiredVars
  <2>2. State(Took(vars[z], o, "done", z).vars, live \ {o}, z)
    BY <1>2, <1>3, EndState
  <2> QED BY <1>1, <2>1, <2>2
<1>5. Apart(live')
  BY <1>1, <1>2 DEF Apart
<1>6. InvWith(vars', live', on', started')
  BY <1>1, <1>2, <1>4, <1>5 DEF InvWith
<1> QED BY <1>1, <1>6, InvNext

LEMMA EventInv ==
  ASSUME Good, RunInv, NEW t, NEW name, NEW fits, Event(t, name, fits)
  PROVE  RunInv'
<1> DEFINE o == Op(t, name, fits, CHOOSE a \in Args : TRUE, FALSE)
<1>1. /\ vars' = VarsOf(Fired(o, "fires")) /\ started' = started + 1
      /\ UNCHANGED <<prog, on, live>>
  BY DEF Event
<1> HIDE DEF o
<1>2. ASSUME NEW z \in enablings PROVE vars'[z] = vars[z]
  <2>1. vars'[z] = Took(vars[z], o, "fires", z).vars
    BY <1>1, FiredVars
  <2>2. Enabling(vars[z], o, "fires").vars = vars[z]
    BY FiresGoes
  <2> QED BY <2>1, <2>2 DEF Took
<1>3. InvWith(vars', live', on', started')
  BY <1>1, <1>2 DEF RunInv, InvWith
<1> QED BY <1>1, <1>3, InvNext


-----------------------------------------------------------------------------
(* What all enablings together have counted.                               *)

LEMMA HitIs ==
  ASSUME Good, NEW o, o.fits \in BOOLEAN, NEW point, NEW k \in DOMAIN script,
         \A j \in DOMAIN script : Telling(j, o, point) <=> j = k,
         point = "done" \/ script[k].verify \cup script[k].agg.reads = {}, NEW h
  PROVE  h \in HitsOf(Fired(o, point)) <=>
             \E z \in enablings : /\ on /\ In(z, o) /\ Passes(script[k], vars[z], o, point)
                                  /\ h = <<z, 1, Contributors(vars[z], o, script[k])>>
<1> DEFINE hits(z) == Took(vars[z], o, point, z).hits
           Hit(z) == \E i \in DOMAIN hits(z) : h = <<z, i, hits(z)[i]>>
<1>1. h \in HitsOf(Fired(o, point)) <=> \E z \in enablings : Hit(z)
  BY FiredHits
<1>2. ASSUME NEW z \in enablings
      PROVE  Hit(z) <=> /\ on /\ In(z, o) /\ Passes(script[k], vars[z], o, point)
                        /\ h = <<z, 1, Contributors(vars[z], o, script[k])>>
  <2>1. /\ on /\ In(z, o) => hits(z) = Tally(vars[z], o, point, k)
        /\ ~(on /\ In(z, o)) => hits(z) = <<>>
    <3>1. Enabling(vars[z], o, point).hits = Tally(vars[z], o, point, k)
      BY Tallied
    <3> QED BY <3>1 DEF Took
  <2> HIDE DEF hits
  <2>2. CASE on /\ In(z, o) /\ Passes(script[k], vars[z], o, point)
    <3>1. hits(z) = <<Contributors(vars[z], o, script[k])>>
      BY <2>1, <2>2 DEF Tally
    <3>2. DOMAIN hits(z) = {1} /\ hits(z)[1] = Contributors(vars[z], o, script[k])
      BY <3>1
    <3> QED BY <2>2, <3>2
  <2>3. CASE ~(on /\ In(z, o) /\ Passes(script[k], vars[z], o, point))
    <3>1. hits(z) = <<>>
      BY <2>1, <2>3 DEF Tally
    <3>2. DOMAIN hits(z) = {}
      BY <3>1
    <3> QED BY <2>3, <3>2
  <2> QED BY <2>2, <2>3
<1> HIDE DEF Hit
<1> QED BY <1>1, <1>2

InZone(o) == metric.zones = {} \/ o.zone \in metric.zones

\* One enabling looks at an operation.
LEMMA OneEnabling ==
  ASSUME NEW o
  PROVE  \E w : /\ \A z \in enablings : In(z, o) => z = w
                /\ InZone(o) => w \in enablings /\ In(w, o)
<1>1. CASE metric.zones # {} /\ enablings = {{z} : z \in metric.zones}
  <2>1. \A z \in enablings : In(z, o) => z = {o.zone}
    BY <1>1 DEF In
  <2>2. InZone(o) => {o.zone} \in enablings /\ In({o.zone}, o)
    BY <1>1 DEF In, InZone
  <2> QED BY <2>1, <2>2
<1>2. CASE enablings = {{}}
  BY <1>2 DEF In
<1> QED BY <1>1, <1>2, EnablingsAre

\* A count that is due.
Due(o) == on /\ o.fits /\ InZone(o) /\ (Gathers => o.seen)
Once(o, hits) ==
    /\ Cardinality(hits) = IF Due(o) THEN 1 ELSE 0
    /\ \A h \in hits : \A by \in h[3] : by >= o.id

LEMMA CountsOnce ==
  ASSUME Good, NEW o, o.fits \in BOOLEAN, NEW point, NEW k \in DOMAIN script,
         \A j \in DOMAIN script : Telling(j, o, point) <=> j = k,
         point = "done" \/ script[k].verify \cup script[k].agg.reads = {},
         \A z \in enablings : on /\ In(z, o) =>
             /\ Passes(script[k], vars[z], o, point) <=> Due(o)
             /\ Due(o) => \A by \in Contributors(vars[z], o, script[k]) : by >= o.id
  PROVE  Once(o, HitsOf(Fired(o, point)))
<1> DEFINE hits == HitsOf(Fired(o, point))
           hit(z) == <<z, 1, Contributors(vars[z], o, script[k])>>
<1>1. \A h : h \in hits <=> \E z \in enablings :
          on /\ In(z, o) /\ Passes(script[k], vars[z], o, point) /\ h = hit(z)
  BY HitIs
<1> HIDE DEF hits
<1>2. \A h : h \in hits <=> \E z \in enablings : In(z, o) /\ Due(o) /\ h = hit(z)
  BY <1>1 DEF Due
<1>3. PICK w : /\ \A z \in enablings : In(z, o) => z = w
               /\ InZone(o) => w \in enablings /\ In(w, o)
  BY OneEnabling
<1>4. CASE Due(o)
  <2>1. w \in enablings /\ In(w, o) /\ on
    BY <1>3, <1>4 DEF Due
  <2>2. hits = {hit(w)}
    <3> HIDE DEF hit
    <3> QED BY <1>2, <1>3, <1>4, <2>1
  <2>3. Cardinality(hits) = 1
    BY <2>2, FS_Singleton
  <2>4. \A by \in Contributors(vars[w], o, script[k]) : by >= o.id
    BY <1>4, <2>1
  <2>5. hit(w)[3] = Contributors(vars[w], o, script[k])
    OBVIOUS
  <2>6. \A h \in hits : \A by \in h[3] : by >= o.id
    <3> HIDE DEF hit
    <3> QED BY <2>2, <2>4, <2>5
  <2> QED BY <1>4, <2>3, <2>6 DEF Once, hits
<1>5. CASE ~Due(o)
  <2>1. hits = {}
    BY <1>2, <1>5
  <2>2. Cardinality(hits) = 0
    BY <2>1, FS_EmptySet
  <2> QED BY <1>5, <2>1, <2>2 DEF Once, hits
<1> QED BY <1>4, <1>5

LEMMA GathersIs ==
  ASSUME Good
  PROVE  Gathers <=> \E i \in DOMAIN script : Gathering(script[i])
<1> SUFFICES ASSUME NEW i \in DOMAIN script
             PROVE  script[i].sets # Nothing <=> Gathering(script[i])
  BY DEF Gathers
<1>1. script[i].sets =
          [f \in DOMAIN script[i].sets |-> [at |-> script[i].sets[f].at, as |-> script[i].sets[f].as]]
  BY GoodIs DEF ClauseRegular
<1>2. ASSUME DOMAIN script[i].sets = {} PROVE script[i].sets = <<>>
  BY <1>1, <1>2
<1>3. DOMAIN <<>> = {}
  OBVIOUS
<1> QED BY <1>2, <1>3 DEF Gathering, Nothing

\* What a clause that counts asks for besides variables.
LEMMA Asks ==
  ASSUME Good, NEW o, o.fits \in BOOLEAN, o.fits \/ Selective, NEW k \in DOMAIN script,
         script[k].aggs, NEW vs, NEW point
  PROVE  Passes(script[k], vs, o, point) <=>
             /\ \A r \in script[k].verify : Holding(vs, o, r) # {}
             /\ InZone(o) /\ o.fits
<1>1. ClauseRegular(script[k], metric) /\ CountsIn(script, k, desc, metric)
  BY GoodIs
<1>2. script[k].zones = metric.zones /\ script[k].pred \subseteq {"fits"}
  BY <1>1 DEF ClauseRegular
<1>3. "fits" \in script[k].pred \/ script[k].filtered \/ ~Selective
  BY <1>1 DEF CountsIn, Selective
<1> DEFINE held == \A r \in script[k].verify : Holding(vs, o, r) # {}
<1>4. Passes(script[k], vs, o, point) <=>
          /\ held /\ (script[k].zones # {} => o.zone \in script[k].zones)
          /\ Meets(o, script[k]) /\ (script[k].filtered => o.fits)
  BY <1>1, PassesIs
<1> HIDE DEF held
<1>5. Passes(script[k], vs, o, point) <=> held /\ InZone(o) /\ o.fits
  BY <1>2, <1>3, <1>4 DEF InZone, Meets
<1> QED BY <1>5 DEF held

\* Where nothing is read.
LEMMA PlainlyCounted ==
  ASSUME Good, NEW o, o.fits \in BOOLEAN, o.fits \/ Selective, o.seen = on, NEW point,
         point # "done", OneAt(script, o.name, point)
  PROVE  Once(o, HitsOf(Fired(o, point)))
<1>1. PICK k \in DOMAIN script : \A j \in DOMAIN script : Telling(j, o, point) <=> j = k
  BY DEF OneAt, Telling
<1>2. Telling(k, o, point)
  BY <1>1
<1>3. script[k].aggs /\ <<o.name, point>> \in script[k].probes
  BY <1>2 DEF Telling, CountsAt
<1>4. script[k].verify \cup script[k].agg.reads = {}
  <2>1. <<o.name, point>>[2] = point
    OBVIOUS
  <2> QED BY <1>3, <2>1, GoodIs DEF CountsIn
<1>5. ASSUME NEW z \in enablings, on, In(z, o)
      PROVE  /\ Passes(script[k], vars[z], o, point) <=> Due(o)
             /\ \A by \in Contributors(vars[z], o, script[k]) : by >= o.id
  <2>1. Passes(script[k], vars[z], o, point) <=> InZone(o) /\ o.fits
    <3>1. \A r \in script[k].verify : Holding(vars[z], o, r) # {}
      BY <1>4
    <3> QED BY <1>3, <3>1, Asks
  <2>2. Contributors(vars[z], o, script[k]) = {}
    BY <1>4 DEF Contributors
  <2> QED BY <1>5, <2>1, <2>2 DEF Due
<1> QED BY <1>1, <1>4, <1>5, CountsOnce

\* Where what was gathered is read.
LEMMA FinishCounted ==
  ASSUME Good, RunInv, NEW o \in live
  PROVE  Once(o, HitsOf(Fired(o, "done")))
<1>0. /\ Proper(o, on) /\ Apart(live)
      /\ \A z \in enablings : State(vars[z], live, z)
  BY DEF RunInv, InvWith
<1>1. /\ o.fits \in BOOLEAN /\ o.id \in Nat /\ (o.fits \/ Selective)
      /\ o.name \in Names(desc, "start") /\ Names(desc, "done") # {}
  BY <1>0 DEF Proper
<1>2. OneAt(script, o.name, "done")
  BY <1>1 DEF Good, Regular
<1>3. PICK k \in DOMAIN script : \A j \in DOMAIN script : Telling(j, o, "done") <=> j = k
  BY <1>2 DEF OneAt, Telling
<1> DEFINE c == script[k]
<1>4. Telling(k, o, "done")
  BY <1>3
<1>5. c.aggs /\ <<o.name, "done">> \in c.probes
  BY <1>4 DEF Telling, CountsAt
<1>6. CountsIn(script, k, desc, metric)
  BY <1>5, GoodIs
<1>7. /\ \A r \in c.verify \cup c.agg.reads : \E j \in DOMAIN script :
             <<o.name, "start">> \in script[j].probes /\ r \in Refs(script[j]) /\ script[j].pred \subseteq c.pred
      /\ (\E j \in DOMAIN script : Gathering(script[j])) => c.verify # {}
  <2>1. <<o.name, "done">>[1] = o.name /\ <<o.name, "done">>[2] = "done"
    OBVIOUS
  <2> QED BY <1>5, <1>6, <2>1 DEF CountsIn
<1> HIDE DEF c
<1>8. ASSUME NEW z \in enablings, on, In(z, o)
      PROVE  /\ Passes(c, vars[z], o, "done") <=> Due(o)
             /\ \A by \in Contributors(vars[z], o, c) : by >= o.id
  <2>1. Owned(vars[z], live, z) /\ Held(vars[z], live, z)
    BY <1>0 DEF State
  <2>2. ASSUME NEW r, NEW v \in Holding(vars[z], o, r)
        PROVE  o.seen /\ v.by = o.id
    <3>1. v \in vars[z] /\ v.key = Key(o, r[2])
      BY HoldingIs
    <3>2. \A x \in live : Clash(o, x) => o = x
      BY <1>0 DEF Apart
    <3> QED BY <2>1, <3>1, <3>2, OwnerIs DEF Of
  <2>3. \A by \in Contributors(vars[z], o, c) : by >= o.id
    <3>1. \A by \in Contributors(vars[z], o, c) : by = o.id
      BY <2>2 DEF Contributors
    <3> QED BY <1>1, <3>1
  <2>4. Passes(c, vars[z], o, "done") <=>
            /\ \A r \in c.verify : Holding(vars[z], o, r) # {}
            /\ InZone(o) /\ o.fits
    BY <1>1, <1>5, Asks DEF c
  <2>5. ASSUME o.seen, o.fits, NEW r \in c.verify PROVE Holding(vars[z], o, r) # {}
    <3>1. PICK j \in DOMAIN script : /\ <<o.name, "start">> \in script[j].probes
                                     /\ r \in Refs(script[j]) /\ script[j].pred \subseteq c.pred
      BY <1>7
    <3>2. PICK f \in DOMAIN script[j].sets : r = <<f, script[j].sets[f].at>>
      BY <3>1 DEF Refs
    <3>3. Gives(o, r)
      BY <2>5, <3>1 DEF Gives, Meets
    <3>4. Has(vars[z], o, f, script[j].sets[f].at)
      BY <1>8, <2>1, <2>5, <3>2, <3>3 DEF Held
    <3>5. PICK v \in vars[z] : v.name = f /\ v.key = Key(o, script[j].sets[f].at)
      BY <3>4 DEF Has
    <3>6. r[1] = f /\ r[2] = script[j].sets[f].at
      BY <3>2
    <3>7. v \in Holding(vars[z], o, r)
      BY <3>5, <3>6, HoldingIs
    <3> QED BY <3>7
  <2>6. ASSUME ~Gathers, NEW r \in c.verify PROVE FALSE
    <3>1. PICK j \in DOMAIN script : r \in Refs(script[j])
      BY <1>7
    <3>2. Gathering(script[j])
      BY <3>1 DEF Refs, Gathering
    <3> QED BY <2>6, <3>2, GathersIs
  <2>7. ASSUME Gathers, \A r \in c.verify : Holding(vars[z], o, r) # {} PROVE o.seen
    <3>1. PICK r \in c.verify : TRUE
      BY <1>7, <2>7, GathersIs
    <3> QED BY <2>2, <2>7, <3>1
  <2>8. Passes(c, vars[z], o, "done") <=> Due(o)
    BY <1>8, <2>4, <2>5, <2>6, <2>7 DEF Due
  <2> QED BY <2>3, <2>8
<1> QED BY <1>1, <1>3, <1>8, CountsOnce DEF c


-----------------------------------------------------------------------------
(* Each step.                                                              *)

LEMMA LastCounted ==
  ASSUME Good, UNCHANGED <<prog, on>>, NEW o, NEW hits, Once(o, hits),
         last' = {[op |-> o, hits |-> hits, part |-> FALSE]}
  PROVE  CountedOnce'
<1> DEFINE e == [op |-> o, hits |-> hits, part |-> FALSE]
<1>1. last' = {e} /\ e.op = o /\ e.hits = hits /\ e.part = FALSE
  OBVIOUS
<1> HIDE DEF e
<1>2. desc' = desc /\ metric' = metric /\ script' = script
  BY ProgStays
<1>3. Gathers' <=> Gathers
  BY <1>2 DEF Gathers
<1> DEFINE meets == /\ on' /\ e.op.fits
                    /\ metric'.zones = {} \/ e.op.zone \in metric'.zones
                    /\ Gathers' => e.op.seen
<1>4. meets <=> Due(o)
  BY <1>1, <1>2, <1>3 DEF Due, InZone
<1>5. /\ Cardinality(e.hits) = IF meets /\ ~e.part THEN 1 ELSE 0
      /\ Cardinality(e.hits) <= IF meets THEN 1 ELSE 0
      /\ \A h \in e.hits : \A by \in h[3] : by >= e.op.id
  <2> HIDE DEF meets
  <2> QED BY <1>1, <1>4 DEF Once
<1> QED BY <1>1, <1>5 DEF CountedOnce

RunSafe == RunInv /\ CountedOnce

LEMMA RunInit == Init => RunSafe
<1> SUFFICES ASSUME Init PROVE RunSafe
  OBVIOUS
<1>1. started = 0 /\ on = FALSE /\ live = {} /\ last = {} /\ \A z \in enablings : vars[z] = {}
  BY DEF Init, Unset
<1>2. RunInv
  BY <1>1 DEF RunInv, InvWith, Apart, State, Owned, Held
<1>3. CountedOnce
  BY <1>1 DEF CountedOnce
<1> QED BY <1>2, <1>3 DEF RunSafe

LEMMA RunNext ==
  ASSUME Good, RunSafe, [Next]_runvars
  PROVE  RunSafe' /\ UNCHANGED prog
<1>0. RunInv /\ CountedOnce
  BY DEF RunSafe
<1>1. CASE instrument
  <2>1. RunInv'
    BY <1>0, <1>1, EnableInv
  <2>2. last' = {} /\ UNCHANGED prog
    BY <1>1 DEF instrument
  <2>3. CountedOnce'
    BY <2>2 DEF CountedOnce
  <2> QED BY <2>1, <2>2, <2>3 DEF RunSafe
<1>2. ASSUME NEW t, NEW fits \in BOOLEAN, NEW name \in Names(desc, "start"), NEW arg,
             Begin(t, name, fits, arg)
      PROVE  RunSafe' /\ UNCHANGED prog
  <2> DEFINE o == Op(t, name, fits, arg, FALSE)
  <2>1. RunInv'
    BY <1>0, <1>2, BeginInv
  <2>2. Begins(o)
    BY <1>0, <1>2, BeginIs
  <2> HIDE DEF o
  <2>3. UNCHANGED <<prog, on>>
    BY <2>2 DEF Begins
  <2>4. CASE Names(desc, "done") # {}
    <3>1. last' = {}
      BY <2>2, <2>4 DEF Begins
    <3>2. CountedOnce'
      BY <3>1 DEF CountedOnce
    <3> QED BY <2>1, <2>3, <3>2 DEF RunSafe
  <2>5. CASE Names(desc, "done") = {}
    <3>1. /\ last' = {[op |-> o, hits |-> HitsOf(Fired(o, "start")), part |-> FALSE]}
          /\ o.fits \in BOOLEAN /\ (o.fits \/ Selective) /\ o.seen = on
          /\ o.name \in Names(desc, "start")
      BY <2>2, <2>5 DEF Begins
    <3>2. OneAt(script, o.name, "start")
      BY <2>5, <3>1 DEF Good, Regular
    <3>3. Once(o, HitsOf(Fired(o, "start")))
      BY <3>1, <3>2, PlainlyCounted
    <3>4. CountedOnce'
      BY <2>3, <3>1, <3>3, LastCounted
    <3> QED BY <2>1, <2>3, <3>4 DEF RunSafe
  <2> QED BY <2>4, <2>5
<1>3. ASSUME NEW t, NEW fits \in BOOLEAN, NEW name \in Names(desc, "fires"), Event(t, name, fits)
      PROVE  RunSafe' /\ UNCHANGED prog
  <2> DEFINE o == Op(t, name, fits, CHOOSE a \in Args : TRUE, FALSE)
  <2>1. RunInv'
    BY <1>0, <1>3, EventInv
  <2>2. /\ last' = {[op |-> o, hits |-> HitsOf(Fired(o, "fires")), part |-> FALSE]}
        /\ fits \/ Selective
        /\ UNCHANGED <<prog, on>>
    BY <1>3 DEF Event
  <2>3. o.fits = fits /\ o.seen = on /\ o.name = name
    BY DEF Op
  <2> HIDE DEF o
  <2>4. OneAt(script, o.name, "fires")
    BY <2>3 DEF Good, Regular
  <2>5. Once(o, HitsOf(Fired(o, "fires")))
    BY <2>2, <2>3, <2>4, PlainlyCounted
  <2>6. CountedOnce'
    BY <2>2, <2>5, LastCounted
  <2> QED BY <2>1, <2>2, <2>6 DEF RunSafe
<1>4. ASSUME NEW o \in live, Finish(o)
      PROVE  RunSafe' /\ UNCHANGED prog
  <2>1. RunInv'
    BY <1>0, <1>4, FinishInv
  <2>2. /\ last' = {[op |-> o, hits |-> HitsOf(Fired(o, "done")), part |-> Within(o)]}
        /\ UNCHANGED <<prog, on>>
    BY <1>4 DEF Finish
  <2>3. Within(o) = FALSE
    <3>1. o.nested = FALSE
      BY <1>0 DEF RunInv, InvWith, Proper
    <3> QED BY <3>1 DEF Within
  <2>4. Once(o, HitsOf(Fired(o, "done")))
    BY <1>0, FinishCounted
  <2>5. CountedOnce'
    BY <2>2, <2>3, <2>4, LastCounted
  <2> QED BY <2>1, <2>2, <2>5 DEF RunSafe
<1>5. CASE UNCHANGED runvars
  <2>1. UNCHANGED <<prog, on, live, started, vars, last>>
    BY <1>5 DEF runvars
  <2>2. RunInv'
    <3>1. InvWith(vars', live', on', started')
      BY <1>0, <2>1 DEF RunInv
    <3> QED BY <2>1, <3>1, InvNext
  <2>3. CountedOnce'
    <3>1. desc' = desc /\ metric' = metric /\ script' = script
      BY <2>1, ProgStays
    <3> QED BY <1>0, <2>1, <3>1 DEF CountedOnce, Gathers, Opening
  <2> QED BY <2>1, <2>2, <2>3 DEF RunSafe
<1> QED BY <1>1, <1>2, <1>3, <1>4, <1>5 DEF Next, Enable, Reenable

LEMMA SameProg == [Next]_runvars => UNCHANGED prog
<1>1. Enable \/ Reenable => UNCHANGED prog
  BY DEF Enable, Reenable, instrument
<1>2. ASSUME NEW t, NEW name, NEW fits, NEW arg, Begin(t, name, fits, arg) PROVE UNCHANGED prog
  BY <1>2 DEF Begin
<1>3. ASSUME NEW t, NEW name, NEW fits, Event(t, name, fits) PROVE UNCHANGED prog
  BY <1>3 DEF Event
<1>4. ASSUME NEW o, Finish(o) PROVE UNCHANGED prog
  BY <1>4 DEF Finish
<1> QED BY <1>1, <1>2, <1>3, <1>4 DEF Next, runvars

\* A program whose operations do not nest and whose clauses are regular counts an operation
\* once, in one enabling, if it ran in a zone and met the conditions asked for and began
\* under the program, and otherwise not, with no value another operation saved: whatever
\* operations overlap, on however many threads, and however often it is enabled anew
\* (lib/ca/ca-metad.js:1080, mdGenerateDScript; cmd/cainst/modules/dtrace.js:66).
THEOREM RegularCountedOnce == Spec => [](Regular(desc, metric, script) => CountedOnce)
<1>1. Init => (Good => RunSafe)
  BY RunInit
<1>2. (Good => RunSafe) /\ [Next]_runvars => (Good => RunSafe)'
  <2> SUFFICES ASSUME Good => RunSafe, [Next]_runvars, Good' PROVE RunSafe'
    OBVIOUS
  <2>1. Good
    BY SameProg, ProgStays
  <2> QED BY <2>1, RunNext
<1>3. (Good => RunSafe) => (Regular(desc, metric, script) => CountedOnce)
  BY DEF RunSafe, Good
<1> QED BY <1>1, <1>2, <1>3, PTL DEF Spec

\* When no operation is in progress that such a program has seen begin, it holds no variable.
THEOREM RegularNothingLeft == Spec => [](Regular(desc, metric, script) => NothingLeft)
<1>1. Init => (Good => RunSafe)
  BY RunInit
<1>2. (Good => RunSafe) /\ [Next]_runvars => (Good => RunSafe)'
  <2> SUFFICES ASSUME Good => RunSafe, [Next]_runvars, Good' PROVE RunSafe'
    OBVIOUS
  <2>1. Good
    BY SameProg, ProgStays
  <2> QED BY <2>1, RunNext
<1>3. (Good => RunSafe) => (Regular(desc, metric, script) => NothingLeft)
  <2> SUFFICES ASSUME RunSafe, ~\E o \in live : o.seen, NEW z \in enablings PROVE vars[z] = {}
    BY DEF NothingLeft, Good
  <2>1. Owned(vars[z], live, z)
    BY DEF RunSafe, RunInv, InvWith, State
  <2> QED BY <2>1 DEF Owned
<1> QED BY <1>1, <1>2, <1>3, PTL DEF Spec

=============================================================================
