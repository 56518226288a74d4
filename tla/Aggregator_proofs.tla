------------------------- MODULE Aggregator_proofs -------------------------
(***************************************************************************)
(* Proofs about the aggregator service, for any sources, requests, times   *)
(* and intervals, and any commands, faults and crashes: its types, that a  *)
(* load or a save that is under way will be ended by an answer or a        *)
(* timeout, and that the data in the stash are never replaced by fewer.    *)
(***************************************************************************)
EXTENDS Aggregator, FiniteSetTheorems, SequenceTheorems, WellFoundedInduction, TLAPS

-----------------------------------------------------------------------------
(* The inductive invariants.                                               *)

\* Whoever waits for an answer is an object of this life.
Addressed == \A i \in DOMAIN cmds :
    /\ cmds[i].inst <= Len(insts)
    /\ cmds[i].live => cmds[i].inst # 0

IInv == TypeOK /\ Addressed /\ Engaged

\* At the second t, the dataset e has all that d has, save what has expired; and
\* all of a content of the bucket, if it has one.
Expired(t, p) == Retention > 0 /\ p < t - Retention
Keeps(t, e, d) ==
    \A p \in Periods : \/ d.reporting[p] \subseteq e.reporting[p] /\ d.data[p] <= e.data[p]
                       \/ Expired(t, p)
Covers(t, e, content) == content # None => Keeps(t, e, content)

\* A save is on its way to the stash; what the stash holds (b) or will hold.
SentPut(cs, i) == cs[i].op = "put" /\ cs[i].state = "sent"
HasAll(t, d, b, cs) ==
    Covers(t, d, b) /\ \A i \in DOMAIN cs : SentPut(cs, i) => Covers(t, d, cs[i].data)

\* Each save on its way has what it will replace.
SavesGrow(t, b, cs) == \A j \in DOMAIN cs : SentPut(cs, j) =>
    /\ Covers(t, cs[j].data, b)
    /\ \A i \in DOMAIN cs : i < j /\ SentPut(cs, i) => Covers(t, cs[j].data, cs[i].data)

\* Object o, number n, has all of it once it is loaded; it will have when it takes
\* in the content that a load has read; and what is saved behind a load that is
\* on its way has been saved by this object, which had been loaded before.
Merged(d, content) == IF content = None THEN d ELSE unstash(d, content)
Loading(cs, n, i, state) ==
    cs[i].inst = n /\ cs[i].live /\ cs[i].op = "get" /\ cs[i].state = state
LoadedHasAll(t, o, b, cs) == o.load = "loaded" => HasAll(t, o.dataset, b, cs)
ReadHasAll(t, n, o, b, cs) == \A i \in DOMAIN cs :
    Loading(cs, n, i, "done") => HasAll(t, Merged(o.dataset, cs[i].data), b, cs)
SavedBehind(t, n, o, cs) == \A i, j \in DOMAIN cs :
    Loading(cs, n, i, "sent") /\ i < j /\ SentPut(cs, j) => Covers(t, o.dataset, cs[j].data)
ObjectSafe(t, n, o, b, cs) ==
    LoadedHasAll(t, o, b, cs) /\ ReadHasAll(t, n, o, b, cs) /\ SavedBehind(t, n, o, cs)

\* An error of the stash would be taken for an empty bucket.
NoFailedLoad(cs) == \A i \in DOMAIN cs : cs[i].op = "get" => cs[i].state # "failed"

SInv == /\ SavesGrow(now, bucket, cmds)
        /\ current # 0 => ObjectSafe(now, current, insts[current], bucket, cmds)
        /\ NoFailedLoad(cmds)

-----------------------------------------------------------------------------
(* Numbers and sequences.                                                  *)

LEMMA Least == ASSUME NEW T \in SUBSET Nat, T # {} PROVE \E m \in T : \A k \in T : m <= k
<1> DEFINE R == {ss \in Nat \X Nat : ss[1] < ss[2]}
<1>1. IsWellFoundedOn(R, Nat)
  BY NatLessThanWellFounded DEF OpToRel
<1>2. \A x, y \in Nat : x < y => <<x, y>> \in R
  OBVIOUS
<1> HIDE DEF R
<1>3. PICK m \in T : \A y \in T : ~(<<y, m>> \in R)
  BY <1>1, WFMin
<1>4. \A y \in T : ~(y < m)
  BY <1>2, <1>3
<1>5. \A y \in T : m <= y
  BY <1>4
<1> QED BY <1>5

\* A finite set of numbers can be listed in increasing order.
Listings(K) == {f \in [1 .. Cardinality(K) -> K] : \A i, j \in DOMAIN f : i < j => f[i] < f[j]}

LEMMA ListingExists ==
    ASSUME NEW n \in Nat, NEW K \in SUBSET (1 .. n)
    PROVE  IsFiniteSet(K) /\ Cardinality(K) \in Nat /\ Listings(K) # {}
<1> DEFINE T == {m \in Nat : \E L \in SUBSET (1 .. m) : Listings(L) = {}}
<1>0. \A m \in Nat : IsFiniteSet(1 .. m)
  BY FS_Interval
<1>1. \A m \in Nat : \A L \in SUBSET (1 .. m) : IsFiniteSet(L) /\ Cardinality(L) \in Nat
  BY <1>0, FS_Subset, FS_CardinalityType
<1>2. ASSUME T # {} PROVE FALSE
  <2>1. PICK m \in T : \A k \in T : m <= k
    BY <1>2, Least
  <2>2. PICK L \in SUBSET (1 .. m) : Listings(L) = {}
    BY <2>1
  <2>3. CASE m \notin L
    <3>1. CASE m = 0
      <4>1. L = {} /\ Cardinality({}) = 0
        BY <3>1, FS_EmptySet
      <4>2. [i \in 1 .. 0 |-> 0] \in [1 .. 0 -> {}]
        OBVIOUS
      <4>3. [i \in 1 .. 0 |-> 0] \in Listings({})
        BY <4>1, <4>2 DEF Listings
      <4>. QED BY <2>2, <4>1, <4>3
    <3>2. CASE m # 0
      <4>1. m - 1 \in Nat /\ L \in SUBSET (1 .. (m - 1))
        BY <2>3, <3>2
      <4>2. m - 1 \in T
        BY <2>2, <4>1
      <4>. QED BY <2>1, <4>1, <4>2
    <3>. QED BY <3>1, <3>2
  <2>4. CASE m \in L
    <3> DEFINE M == L \ {m}
               c == Cardinality(M)
    <3>1. m \in Nat /\ m - 1 \in Nat /\ M \in SUBSET (1 .. (m - 1))
      BY <2>4
    <3>2. c \in Nat /\ Cardinality(L) = c + 1
      <4>1. IsFiniteSet(L) /\ Cardinality(L) \in Nat
        BY <1>1, <2>1
      <4>2. Cardinality(M) = Cardinality(L) - 1
        BY <2>4, <4>1, FS_RemoveElement
      <4>3. Cardinality(M) \in Nat
        BY <1>1, <3>1
      <4>. QED BY <4>1, <4>2, <4>3
    <3>3. Listings(M) # {}
      <4>1. m - 1 \notin T
        BY <2>1, <3>1
      <4>. QED BY <3>1, <4>1
    <3>4. PICK f \in [1 .. c -> M] : \A i, j \in 1 .. c : i < j => f[i] < f[j]
      BY <3>3 DEF Listings
    <3> DEFINE g == [i \in 1 .. (c + 1) |-> IF i = c + 1 THEN m ELSE f[i]]
    <3> HIDE DEF M, c
    <3>5. \A i \in 1 .. c : f[i] \in M /\ f[i] \in Nat /\ f[i] < m
      <4>1. \A x \in M : x \in Nat /\ x < m
        BY <3>1
      <4>. QED BY <3>4, <4>1
    <3>6. g \in [1 .. (c + 1) -> L]
      BY <2>4, <3>2, <3>4 DEF M
    <3>7. \A i, j \in 1 .. (c + 1) : i < j => g[i] < g[j]
      BY <3>2, <3>4, <3>5
    <3>8. g \in Listings(L)
      BY <3>2, <3>6, <3>7 DEF Listings
    <3>. QED BY <2>2, <3>8
  <2>. QED BY <2>3, <2>4
<1>3. n \notin T
  BY <1>2
<1>. QED BY <1>1, <1>3

LEMMA RemovedAt ==
    ASSUME NEW S, NEW s \in Seq(S), NEW i \in DOMAIN s
    PROVE  /\ RemoveAt(s, i) \in Seq(S) /\ Len(RemoveAt(s, i)) = Len(s) - 1
           /\ DOMAIN RemoveAt(s, i) = 1 .. (Len(s) - 1)
           /\ \A k \in 1 .. (Len(s) - 1) : RemoveAt(s, i)[k] = IF k < i THEN s[k] ELSE s[k + 1]
<1>1. i \in 1 .. Len(s) /\ Len(s) \in Nat
  OBVIOUS
<1> DEFINE a == SubSeq(s, 1, i - 1)
           b == SubSeq(s, i + 1, Len(s))
<1>2. a \in Seq(S) /\ Len(a) = i - 1 /\ \A k \in 1 .. (i - 1) : a[k] = s[k]
  BY <1>1
<1>3. b \in Seq(S) /\ Len(b) = Len(s) - i /\ \A k \in 1 .. (Len(s) - i) : b[k] = s[i + k]
  BY <1>1
<1>4. RemoveAt(s, i) = a \o b
  BY DEF RemoveAt
<1> HIDE DEF a, b
<1>5. /\ a \o b \in Seq(S) /\ Len(a \o b) = Len(s) - 1
      /\ \A k \in 1 .. (Len(s) - 1) : (a \o b)[k] = IF k <= i - 1 THEN a[k] ELSE b[k - (i - 1)]
  <2>1. a \o b \in Seq(S) /\ Len(a \o b) = Len(a) + Len(b)
    BY <1>2, <1>3, ConcatProperties
  <2>2. \A k \in 1 .. (Len(a) + Len(b)) :
           (a \o b)[k] = IF k <= Len(a) THEN a[k] ELSE b[k - Len(a)]
    BY <1>2, <1>3, ConcatProperties
  <2>3. Len(a) + Len(b) = Len(s) - 1 /\ Len(a) = i - 1
    BY <1>1, <1>2, <1>3
  <2>. QED BY <2>1, <2>2, <2>3
<1>6. ASSUME NEW k \in 1 .. (Len(s) - 1)
      PROVE  (a \o b)[k] = IF k < i THEN s[k] ELSE s[k + 1]
  <2>1. CASE k < i
    BY <1>1, <1>2, <1>5, <2>1
  <2>2. CASE ~(k < i)
    <3>1. k - (i - 1) \in 1 .. (Len(s) - i) /\ i + (k - (i - 1)) = k + 1
      BY <1>1, <2>2
    <3>2. (a \o b)[k] = b[k - (i - 1)]
      BY <1>1, <1>5, <2>2
    <3>3. b[k - (i - 1)] = s[i + (k - (i - 1))]
      BY <1>3, <3>1
    <3>. QED BY <2>2, <3>1, <3>2, <3>3
  <2>. QED BY <2>1, <2>2
<1>7. DOMAIN (a \o b) = 1 .. (Len(s) - 1)
  BY <1>5, LenProperties
<1> DEFINE c == a \o b
<1> HIDE DEF c
<1>8. /\ c \in Seq(S) /\ Len(c) = Len(s) - 1 /\ DOMAIN c = 1 .. (Len(s) - 1)
      /\ \A k \in 1 .. (Len(s) - 1) : c[k] = IF k < i THEN s[k] ELSE s[k + 1]
  BY <1>5, <1>6, <1>7 DEF c
<1>9. RemoveAt(s, i) = c
  BY <1>4 DEF c
<1>. QED BY <1>8, <1>9, Zenon

LEMMA Extended ==
    ASSUME NEW S, NEW s \in Seq(S), NEW x \in S
    PROVE  /\ s \o <<x>> \in Seq(S) /\ Len(s \o <<x>>) = Len(s) + 1
           /\ DOMAIN (s \o <<x>>) = 1 .. (Len(s) + 1)
           /\ \A k \in 1 .. Len(s) : (s \o <<x>>)[k] = s[k]
           /\ (s \o <<x>>)[Len(s) + 1] = x
OBVIOUS

-----------------------------------------------------------------------------
(* Times, datasets and objects.                                            *)

LEMMA TimeTypes ==
    /\ Times \subseteq Nat \ {0} /\ FirstSecond \in Times
    /\ \A t \in Times : ptime(t) \in Periods
    /\ \A p \in Periods : p \in Int
    /\ Granularity \in Nat \ {0} /\ Retention \in Nat /\ MaxCmds \in Nat
<1>1. Times \subseteq Nat \ {0} /\ FirstSecond \in Times
  BY AggregatorAssumption DEF Times
<1>2. Granularity \in Nat \ {0} /\ Retention \in Nat /\ MaxCmds \in Nat
  BY AggregatorAssumption
<1>3. \A t \in Times : ptime(t) \in Int
  BY <1>1, <1>2 DEF ptime
<1>. QED BY <1>1, <1>2, <1>3 DEF Periods

LEMMA DatasetParts ==
    ASSUME NEW d \in Datasets, NEW p \in Periods
    PROVE  d.reporting[p] \subseteq Hosts /\ d.data[p] \in Nat
BY DEF Datasets

\* A dataset has all that another one has.
Grows(d, e) == \A p \in Periods : d.reporting[p] \subseteq e.reporting[p] /\ d.data[p] <= e.data[p]

LEMMA EmptyType == EmptyDataset \in Datasets
BY DEF EmptyDataset, Datasets

LEMMA UpdateGrows ==
    ASSUME NEW d \in Datasets, NEW h \in Hosts, NEW t \in Times
    PROVE  update(d, h, t) \in Datasets /\ Grows(d, update(d, h, t))
<1>1. ptime(t) \in Periods
  BY TimeTypes
<1>2. \A p \in Periods : d.reporting[p] \subseteq Hosts /\ d.data[p] \in Nat
  BY DatasetParts
<1>3. CASE h \in d.reporting[ptime(t)] /\ ~DoAdd
  <2>1. update(d, h, t) = d
    BY <1>3 DEF update
  <2>. QED BY <1>2, <2>1 DEF Grows
<1>4. CASE ~(h \in d.reporting[ptime(t)] /\ ~DoAdd)
  <2> DEFINE e == [d EXCEPT !.reporting[ptime(t)] = @ \cup {h}, !.data[ptime(t)] = @ + 1]
  <2>1. update(d, h, t) = e
    BY <1>4 DEF update
  <2>2. /\ e.reporting = [d.reporting EXCEPT ![ptime(t)] = @ \cup {h}]
        /\ e.data = [d.data EXCEPT ![ptime(t)] = @ + 1]
    BY DEF Datasets
  <2>3. e \in Datasets
    <3>1. e.reporting \in [Periods -> SUBSET Hosts] /\ e.data \in [Periods -> Nat]
      BY <1>1, <1>2, <2>2 DEF Datasets
    <3>2. ASSUME NEW R \in [Periods -> SUBSET Hosts], NEW D \in [Periods -> Nat]
          PROVE  [d EXCEPT !.reporting = R, !.data = D] \in Datasets
      BY DEF Datasets
    <3>3. e = [d EXCEPT !.reporting = e.reporting, !.data = e.data]
      BY <2>2 DEF Datasets
    <3> HIDE DEF e
    <3>4. [d EXCEPT !.reporting = e.reporting, !.data = e.data] \in Datasets
      BY <3>1, <3>2
    <3>. QED BY <3>3, <3>4
  <2> HIDE DEF e
  <2>4. \A p \in Periods : d.reporting[p] \subseteq e.reporting[p] /\ d.data[p] <= e.data[p]
    BY <1>1, <1>2, <2>2 DEF Datasets
  <2>. QED BY <2>1, <2>3, <2>4 DEF Grows
<1>. QED BY <1>3, <1>4

LEMMA UnstashGrows ==
    ASSUME NEW d \in Datasets, NEW s \in Datasets
    PROVE  unstash(d, s) \in Datasets /\ Grows(d, unstash(d, s)) /\ Grows(s, unstash(d, s))
<1>1. \A p \in Periods : /\ d.reporting[p] \subseteq Hosts /\ d.data[p] \in Nat
                         /\ s.reporting[p] \subseteq Hosts /\ s.data[p] \in Nat
  BY DatasetParts
<1>. QED BY <1>1 DEF unstash, Datasets, Grows

LEMMA ExpireType ==
    ASSUME NEW d \in Datasets, NEW t \in Int
    PROVE  /\ expireBefore(d, t) \in Datasets
           /\ \A p \in Periods : ~(p < t) => /\ expireBefore(d, t).reporting[p] = d.reporting[p]
                                             /\ expireBefore(d, t).data[p] = d.data[p]
<1>1. \A p \in Periods : d.reporting[p] \subseteq Hosts /\ d.data[p] \in Nat
  BY DatasetParts
<1>. QED BY <1>1 DEF expireBefore, Datasets

LEMMA MergedType ==
    ASSUME NEW d \in Datasets, NEW c \in Datasets \cup {None}
    PROVE  Merged(d, c) \in Datasets /\ Grows(d, Merged(d, c))
<1>1. Grows(d, d)
  BY DatasetParts DEF Grows
<1>. QED BY <1>1, UnstashGrows DEF Merged

LEMMA CmdType ==
    ASSUME now \in Times, NEW op \in {"get", "put", "delete"}, NEW n \in Nat,
           NEW d \in Datasets \cup {None}
    PROVE  /\ Cmd(op, n, d) \in Cmds
           /\ Cmd(op, n, d).op = op /\ Cmd(op, n, d).inst = n /\ Cmd(op, n, d).data = d
           /\ Cmd(op, n, d).live /\ Cmd(op, n, d).state = "sent"
BY DEF Cmd, Cmds

LEMMA Typed ==
    ASSUME TypeOK
    PROVE  /\ now \in Times /\ now \in Nat /\ bucket \in Datasets \cup {None}
           /\ insts \in Seq(Insts) /\ Len(insts) \in Nat /\ DOMAIN insts = 1 .. Len(insts)
           /\ \A n \in DOMAIN insts : insts[n] \in Insts
           /\ current \in Nat /\ (current # 0 => current \in DOMAIN insts)
           /\ cmds \in Seq(Cmds) /\ Len(cmds) \in Nat /\ DOMAIN cmds = 1 .. Len(cmds)
           /\ \A i \in DOMAIN cmds : cmds[i] \in Cmds
<1>1. now \in Times /\ now \in Nat /\ bucket \in Datasets \cup {None}
  BY TimeTypes DEF TypeOK
<1>2. insts \in Seq(Insts) /\ cmds \in Seq(Cmds) /\ current \in 0 .. Len(insts)
  BY DEF TypeOK
<1>. QED BY <1>1, <1>2

LEMMA CmdParts ==
    ASSUME NEW c \in Cmds
    PROVE  /\ c.op \in {"get", "put", "delete"} /\ c.inst \in Nat /\ c.at \in Times
           /\ c.data \in Datasets \cup {None}
           /\ c.state \in {"sent", "done", "failed", "lost"}
BY DEF Cmds

LEMMA InstParts ==
    ASSUME NEW o \in Insts
    PROVE  /\ o.load \in Loads /\ o.loadLast \in Times \cup {0} /\ o.lastSaved \in Times \cup {0}
           /\ o.dataset \in Datasets
BY DEF Insts

\* Who waits for the answer to a command.
Waits(c, n, op) == c.inst = n /\ c.op = op /\ c.live
Awaits(cs, n, op) == \E i \in DOMAIN cs : Waits(cs[i], n, op)

LEMMA EngagedParts ==
    Engaged <=> \A n \in DOMAIN insts : /\ insts[n].load = "pending" => Awaits(cmds, n, "get")
                                        /\ insts[n].saving => Awaits(cmds, n, "put")
BY DEF Engaged, Awaits, Waits

LEMMA EngagedPartsNext ==
    Engaged' <=> \A n \in DOMAIN insts' : /\ insts'[n].load = "pending" => Awaits(cmds', n, "get")
                                          /\ insts'[n].saving => Awaits(cmds', n, "put")
BY DEF Engaged, Awaits, Waits

LEMMA AwaitsMore ==
    ASSUME NEW S, NEW cs \in Seq(S), NEW x \in S, NEW n, NEW op
    PROVE  /\ Awaits(cs, n, op) => Awaits(cs \o <<x>>, n, op)
           /\ Waits(x, n, op) => Awaits(cs \o <<x>>, n, op)
<1>1. /\ \A k \in DOMAIN cs : k \in DOMAIN (cs \o <<x>>) /\ (cs \o <<x>>)[k] = cs[k]
      /\ Len(cs) + 1 \in DOMAIN (cs \o <<x>>) /\ (cs \o <<x>>)[Len(cs) + 1] = x
  BY Extended
<1>. QED BY <1>1 DEF Awaits

LEMMA AwaitsLess ==
    ASSUME NEW S, NEW cs \in Seq(S), NEW i \in DOMAIN cs, NEW n, NEW op,
           Awaits(cs, n, op), ~Waits(cs[i], n, op)
    PROVE  Awaits(RemoveAt(cs, i), n, op)
<1>1. PICK k \in DOMAIN cs : Waits(cs[k], n, op)
  BY DEF Awaits
<1>2. k # i /\ k \in 1 .. Len(cs) /\ i \in 1 .. Len(cs) /\ Len(cs) \in Nat
  BY <1>1
<1>3. CASE k < i
  <2>1. k \in 1 .. (Len(cs) - 1)
    BY <1>2, <1>3
  <2>2. k \in DOMAIN RemoveAt(cs, i) /\ RemoveAt(cs, i)[k] = cs[k]
    BY <1>2, <1>3, <2>1, RemovedAt
  <2>. QED BY <1>1, <2>2 DEF Awaits
<1>4. CASE k > i
  <2>1. k - 1 \in 1 .. (Len(cs) - 1) /\ ~(k - 1 < i) /\ (k - 1) + 1 = k
    BY <1>2, <1>4
  <2>2. k - 1 \in DOMAIN RemoveAt(cs, i) /\ RemoveAt(cs, i)[k - 1] = cs[k]
    BY <1>2, <2>1, RemovedAt
  <2>. QED BY <1>1, <2>2 DEF Awaits
<1>. QED BY <1>2, <1>3, <1>4

LEMMA AwaitsChanged ==
    ASSUME NEW S, NEW cs \in Seq(S), NEW i \in DOMAIN cs, NEW y, NEW n, NEW op,
           Awaits(cs, n, op), Waits(cs[i], n, op) => Waits(y, n, op)
    PROVE  Awaits([cs EXCEPT ![i] = y], n, op)
BY DEF Awaits

LEMMA EditedInsts ==
    ASSUME insts \in Seq(Insts), NEW n \in DOMAIN insts, NEW y \in Insts
    PROVE  /\ [insts EXCEPT ![n] = y] \in Seq(Insts)
           /\ Len([insts EXCEPT ![n] = y]) = Len(insts)
           /\ DOMAIN [insts EXCEPT ![n] = y] = DOMAIN insts
           /\ [insts EXCEPT ![n] = y][n] = y
           /\ \A m \in DOMAIN insts : m # n => [insts EXCEPT ![n] = y][m] = insts[m]
OBVIOUS

\* A step that sends at most one command, and lets nobody wait without it.
LEMMA SameCmds ==
    ASSUME IInv, cmds' = cmds, insts' \in Seq(Insts), Len(insts) <= Len(insts'),
           \A n \in DOMAIN insts' :
              /\ insts'[n].load = "pending" => n \in DOMAIN insts /\ insts[n].load = "pending"
              /\ insts'[n].saving => n \in DOMAIN insts /\ insts[n].saving
    PROVE  Addressed' /\ Engaged'
<1>1. Addressed'
  <2>1. Len(insts) \in Nat /\ Len(insts') \in Nat /\ \A i \in DOMAIN cmds : cmds[i].inst \in Nat
    BY Typed, CmdParts DEF IInv
  <2>. QED BY <2>1 DEF IInv, Addressed
<1>. QED BY <1>1, EngagedParts, EngagedPartsNext DEF IInv

LEMMA SentCmd ==
    ASSUME IInv, NEW x \in Cmds, cmds' = cmds \o <<x>>, insts' \in Seq(Insts),
           Len(insts) <= Len(insts'), x.inst # 0, x.inst <= Len(insts'),
           \A n \in DOMAIN insts' :
              /\ insts'[n].load = "pending" =>
                    (n \in DOMAIN insts /\ insts[n].load = "pending") \/ Waits(x, n, "get")
              /\ insts'[n].saving =>
                    (n \in DOMAIN insts /\ insts[n].saving) \/ Waits(x, n, "put")
    PROVE  cmds' \in Seq(Cmds) /\ Addressed' /\ Engaged'
<1>0. cmds \in Seq(Cmds)
  BY DEF IInv, TypeOK
<1>1. /\ cmds' \in Seq(Cmds) /\ DOMAIN cmds' = 1 .. (Len(cmds) + 1)
      /\ \A k \in 1 .. Len(cmds) : cmds'[k] = cmds[k]
      /\ cmds'[Len(cmds) + 1] = x
  BY <1>0, Extended
<1>2. Addressed'
  <2>1. Len(insts) \in Nat /\ Len(insts') \in Nat /\ \A i \in DOMAIN cmds : cmds[i].inst \in Nat
    BY Typed, CmdParts DEF IInv
  <2>2. Len(cmds) \in Nat /\ DOMAIN cmds = 1 .. Len(cmds) /\ x.inst \in Nat
    BY <1>0 DEF Cmds
  <2>3. ASSUME NEW i \in DOMAIN cmds'
        PROVE  cmds'[i].inst <= Len(insts') /\ (cmds'[i].live => cmds'[i].inst # 0)
    <3>1. i = Len(cmds) + 1 \/ i \in DOMAIN cmds
      BY <1>1, <2>2
    <3>. QED BY <1>1, <2>1, <2>2, <3>1 DEF IInv, Addressed
  <2>. QED BY <2>3 DEF Addressed
<1>3. \A n : Awaits(cmds, n, "get") \/ Waits(x, n, "get") => Awaits(cmds', n, "get")
  BY <1>0, AwaitsMore
<1>4. \A n : Awaits(cmds, n, "put") \/ Waits(x, n, "put") => Awaits(cmds', n, "put")
  BY <1>0, AwaitsMore
<1>5. Engaged'
  BY <1>3, <1>4, EngagedParts, EngagedPartsNext DEF IInv
<1>. QED BY <1>1, <1>2, <1>5

LEMMA InitHolds == Init => IInv
<1>. SUFFICES ASSUME Init PROVE IInv
  OBVIOUS
<1>1. TypeOK
  <2>1. NewRequest \in Rqs
    BY DEF NewRequest, Rqs
  <2>2. bounds \in [faults: 0..MaxFaults, commands: 0..MaxCommands, crashes: 0..MaxCrashes]
    BY AggregatorAssumption DEF Init
  <2>. QED BY <2>1, <2>2, TimeTypes DEF Init, TypeOK
<1>. QED BY <1>1 DEF IInv, Init, Addressed, Engaged

-----------------------------------------------------------------------------
(* The commands of the configuration service.                              *)

LEMMA CommandType ==
    ASSUME TypeOK, Command
    PROVE  bounds' \in [faults: 0..MaxFaults, commands: 0..MaxCommands, crashes: 0..MaxCrashes]
<1>1. bounds \in [faults: 0..MaxFaults, commands: 0..MaxCommands, crashes: 0..MaxCrashes]
  BY DEF TypeOK
<1>2. bounds.commands \in Nat /\ MaxCommands \in Nat /\ bounds.commands < MaxCommands
  BY <1>1, AggregatorAssumption DEF Command
<1>3. bounds' = [bounds EXCEPT !.commands = bounds.commands + 1]
  BY DEF Command
<1>4. bounds.commands + 1 \in 0..MaxCommands
  BY <1>2
<1>. QED BY <1>1, <1>3, <1>4

LEMMA EnableUnknownHolds ==
    ASSUME IInv, NEW persist \in BOOLEAN, EnableUnknown(persist)
    PROVE  IInv'
<1>1. binding' \in Seq(BOOLEAN)
  BY DEF IInv, TypeOK, EnableUnknown
<1>2. TypeOK'
  BY <1>1, CommandType DEF IInv, TypeOK, EnableUnknown
<1>3. Addressed' /\ Engaged'
  BY SameCmds DEF IInv, TypeOK, EnableUnknown
<1>. QED BY <1>2, <1>3 DEF IInv

LEMMA ResetHolds == ASSUME IInv, Reset PROVE IInv'
<1>1. TypeOK'
  BY CommandType DEF IInv, TypeOK, Reset
<1>2. Addressed' /\ Engaged'
  BY SameCmds DEF IInv, TypeOK, Reset
<1>. QED BY <1>1, <1>2 DEF IInv

LEMMA DisableHolds == ASSUME IInv, Disable PROVE IInv'
<1>. DEFINE x == Cmd("delete", current, None)
<1>1. cmds' = cmds \o <<x>> /\ current # 0 /\ current \in 0 .. Len(insts) /\ insts' = insts
  BY DEF Disable, Sends, IInv, TypeOK
<1>2. x \in Cmds /\ x.inst = current
  BY <1>1, CmdType, Typed DEF IInv
<1>. HIDE DEF x
<1>3. cmds' \in Seq(Cmds) /\ Addressed' /\ Engaged'
  BY <1>1, <1>2, SentCmd, Typed DEF IInv
<1>4. TypeOK'
  BY <1>3, CommandType DEF IInv, TypeOK, Disable
<1>. QED BY <1>3, <1>4 DEF IInv

LEMMA BoundHolds == ASSUME IInv, Bound PROVE IInv'
<1>. DEFINE n == Len(insts) + 1
            persist == Head(binding)
            o == [persist |-> persist,
                  load |-> IF persist THEN "pending" ELSE "non-persistent",
                  loadLast |-> 0, saving |-> FALSE, lastSaved |-> 0,
                  dataset |-> EmptyDataset, merged |-> FALSE]
            x == Cmd("get", n, None)
<1>1. persist \in BOOLEAN /\ binding' \in Seq(BOOLEAN)
  <2>1. binding \in Seq(BOOLEAN) /\ binding # <<>> /\ binding' = Tail(binding)
    BY DEF Bound, IInv, TypeOK
  <2>. QED BY <2>1
<1>2. o \in Insts /\ o.saving = FALSE /\ o.load = IF persist THEN "pending" ELSE "non-persistent"
  BY <1>1, EmptyType DEF Insts, Loads
<1>3. insts' = insts \o <<o>> /\ current' = n /\ cmds' = cmds \o (IF persist THEN <<x>> ELSE <<>>)
      /\ UNCHANGED <<up, now, bucket, rqs, bounds, heard>>
  <2>1. insts' = Append(insts, o)
    BY DEF Bound
  <2>2. insts' = insts \o <<o>>
    BY <1>2, <2>1, Typed, AppendIsConcat DEF IInv
  <2>. QED BY <2>2 DEF Bound, Sends, GetCmd
<1>4. Len(insts) \in Nat /\ insts \in Seq(Insts) /\ cmds \in Seq(Cmds) /\ now \in Times
  BY Typed DEF IInv
<1>5. x \in Cmds /\ Waits(x, n, "get") /\ x.inst = n
  <2>1. n \in Nat
    BY <1>4
  <2>. QED BY <1>4, <2>1, CmdType DEF Waits
<1>. HIDE DEF o, x, persist
<1>6. /\ insts' \in Seq(Insts) /\ Len(insts') = n /\ DOMAIN insts' = 1 .. n
      /\ \A k \in 1 .. Len(insts) : insts'[k] = insts[k]
      /\ insts'[n] = o
  BY <1>2, <1>3, <1>4, Extended
<1>7. cmds' \in Seq(Cmds) /\ Addressed' /\ Engaged'
  <2>1. CASE persist
    <3>1. cmds' = cmds \o <<x>>
      BY <1>3, <2>1
    <3>2. \A k \in DOMAIN insts' :
              /\ insts'[k].load = "pending" =>
                    (k \in DOMAIN insts /\ insts[k].load = "pending") \/ Waits(x, k, "get")
              /\ insts'[k].saving =>
                    (k \in DOMAIN insts /\ insts[k].saving) \/ Waits(x, k, "put")
      BY <1>2, <1>4, <1>5, <1>6
    <3>3. Len(insts) <= Len(insts') /\ x.inst # 0 /\ x.inst <= Len(insts')
      BY <1>4, <1>5, <1>6
    <3>. HIDE DEF n
    <3>. QED BY <1>5, <1>6, <3>1, <3>2, <3>3, SentCmd
  <2>2. CASE ~persist
    <3>1. cmds' = cmds
      BY <1>3, <1>4, <2>2
    <3>2. \A k \in DOMAIN insts' :
              /\ insts'[k].load = "pending" => k \in DOMAIN insts /\ insts[k].load = "pending"
              /\ insts'[k].saving => k \in DOMAIN insts /\ insts[k].saving
      BY <1>2, <1>4, <1>6, <2>2
    <3>. QED BY <1>4, <1>6, <3>1, <3>2, SameCmds
  <2>. QED BY <2>1, <2>2
<1>8. TypeOK'
  BY <1>1, <1>3, <1>4, <1>6, <1>7 DEF IInv, TypeOK
<1>. QED BY <1>7, <1>8 DEF IInv

-----------------------------------------------------------------------------
(* What becomes of an object.                                              *)

Enabled(o, b, l) == [o EXCEPT !.persist = b, !.load = l]
Fed(o, d, b) == [o EXCEPT !.dataset = d, !.saving = b]
Ticked(o, d, l) == [o EXCEPT !.load = l, !.dataset = d]
Waited(o) == [o EXCEPT !.load = "waiting", !.loadLast = now]

LEMMA EnabledObject ==
    ASSUME NEW o \in Insts, NEW b \in BOOLEAN, NEW l \in Loads
    PROVE  /\ Enabled(o, b, l) \in Insts /\ Enabled(o, b, l).load = l
           /\ Enabled(o, b, l).dataset = o.dataset
           /\ Enabled(o, b, l).saving => o.saving
BY DEF Insts, Enabled

LEMMA FedObject ==
    ASSUME NEW o \in Insts, NEW d \in Datasets, NEW b \in BOOLEAN
    PROVE  /\ Fed(o, d, b) \in Insts /\ Fed(o, d, b).load = o.load
           /\ Fed(o, d, b).dataset = d
           /\ Fed(o, d, b).saving => b
BY DEF Insts, Fed

LEMMA TickedObject ==
    ASSUME NEW o \in Insts, NEW d \in Datasets, NEW l \in Loads
    PROVE  /\ Ticked(o, d, l) \in Insts /\ Ticked(o, d, l).load = l
           /\ Ticked(o, d, l).dataset = d
           /\ Ticked(o, d, l).saving => o.saving
BY DEF Insts, Ticked

LEMMA TimedOutObject ==
    ASSUME NEW o \in Insts, now \in Times
    PROVE  /\ Waited(o) \in Insts /\ Waited(o).load = "waiting"
           /\ Waited(o).dataset = o.dataset
           /\ Waited(o).saving => o.saving
BY DEF Insts, Loads, Waited

LEMMA LoadedObject ==
    ASSUME NEW o \in Insts, NEW c \in Datasets \cup {None}
    PROVE  /\ LoadDone(o, c) \in Insts /\ LoadDone(o, c).load = "loaded"
           /\ LoadDone(o, c).dataset = Merged(o.dataset, c)
           /\ LoadDone(o, c).saving => o.saving
<1>. DEFINE z(d, b) == [o EXCEPT !.load = "loaded", !.merged = b, !.dataset = d]
            b1 == o.merged \/ c # None
            d1 == Merged(o.dataset, c)
<1>1. b1 \in BOOLEAN /\ d1 \in Datasets
  BY InstParts, MergedType
<1>2. \A d \in Datasets, b \in BOOLEAN :
         /\ z(d, b) \in Insts /\ z(d, b).load = "loaded" /\ z(d, b).dataset = d
         /\ z(d, b).saving => o.saving
  BY DEF Insts, Loads
<1>3. LoadDone(o, c) = z(d1, b1)
  BY Zenon DEF LoadDone, Merged
<1>. HIDE DEF z, b1, d1
<1>4. LoadDone(o, c) \in Insts /\ LoadDone(o, c).load = "loaded" /\ LoadDone(o, c).dataset = d1
      /\ (LoadDone(o, c).saving => o.saving)
  BY <1>1, <1>2, <1>3
<1>. QED BY <1>4 DEF d1

LEMMA SavedObject ==
    ASSUME NEW o \in Insts, NEW at \in Times
    PROVE  /\ SaveDone(o, at) \in Insts /\ SaveFailed(o) \in Insts
           /\ SaveDone(o, at).load = o.load /\ SaveFailed(o).load = o.load
           /\ SaveDone(o, at).dataset = o.dataset /\ SaveFailed(o).dataset = o.dataset
           /\ ~SaveDone(o, at).saving /\ ~SaveFailed(o).saving
BY DEF Insts, SaveDone, SaveFailed

LEMMA AnswerType ==
    ASSUME TypeOK, NEW rs, Answer(rs)
    PROVE  rqs' \in [Requests -> Rqs]
<1>1. [NewRequest EXCEPT !.state = "answered"] \in Rqs
  BY DEF NewRequest, Rqs
<1>. QED BY <1>1 DEF Answer, TypeOK

\* The current object is changed and at most one command sent for it.
LEMMA CurrentSends ==
    ASSUME IInv, current # 0, NEW y \in Insts, insts' = [insts EXCEPT ![current] = y],
           NEW x \in Cmds, x.inst = current, cmds' = cmds \/ cmds' = cmds \o <<x>>,
           y.load = "pending" =>
              insts[current].load = "pending" \/ (cmds' = cmds \o <<x>> /\ Waits(x, current, "get")),
           y.saving => insts[current].saving \/ (cmds' = cmds \o <<x>> /\ Waits(x, current, "put"))
    PROVE  /\ insts' \in Seq(Insts) /\ Len(insts') = Len(insts)
           /\ cmds' \in Seq(Cmds) /\ Addressed' /\ Engaged'
<1>1. current \in DOMAIN insts /\ current \in Nat /\ insts \in Seq(Insts)
      /\ Len(insts) \in Nat /\ cmds \in Seq(Cmds) /\ DOMAIN insts = 1 .. Len(insts)
  BY Typed DEF IInv
<1>2. /\ insts' \in Seq(Insts) /\ Len(insts') = Len(insts) /\ DOMAIN insts' = DOMAIN insts
      /\ insts'[current] = y /\ \A m \in DOMAIN insts : m # current => insts'[m] = insts[m]
  BY <1>1, EditedInsts
<1>3. CASE cmds' = cmds \o <<x>>
  <2>1. \A n \in DOMAIN insts' :
              /\ insts'[n].load = "pending" =>
                    (n \in DOMAIN insts /\ insts[n].load = "pending") \/ Waits(x, n, "get")
              /\ insts'[n].saving =>
                    (n \in DOMAIN insts /\ insts[n].saving) \/ Waits(x, n, "put")
    BY <1>2
  <2>2. Len(insts) <= Len(insts') /\ x.inst # 0 /\ x.inst <= Len(insts')
    BY <1>1, <1>2
  <2>. QED BY <1>2, <1>3, <2>1, <2>2, SentCmd
<1>4. CASE cmds' = cmds /\ cmds # cmds \o <<x>>
  <2>1. \A n \in DOMAIN insts' :
              /\ insts'[n].load = "pending" => n \in DOMAIN insts /\ insts[n].load = "pending"
              /\ insts'[n].saving => n \in DOMAIN insts /\ insts[n].saving
    BY <1>2, <1>4
  <2>2. Len(insts) <= Len(insts')
    BY <1>1, <1>2
  <2>. QED BY <1>1, <1>2, <1>4, <2>1, <2>2, SameCmds
<1>. QED BY <1>3, <1>4

LEMMA EnableKnownHolds ==
    ASSUME IInv, NEW persist \in BOOLEAN, EnableKnown(persist)
    PROVE  IInv'
<1>. DEFINE o == insts[current]
            starts == StartsToPersist(current, persist)
            stops == StopsToPersist(current, persist)
            l == IF starts THEN "pending" ELSE IF stops THEN "non-persistent" ELSE o.load
            y == Enabled(o, persist, l)
            x == IF starts THEN Cmd("get", current, None) ELSE Cmd("delete", current, None)
<1>1. current # 0 /\ current \in DOMAIN insts /\ o \in Insts /\ now \in Times
      /\ current \in Nat /\ insts \in Seq(Insts) /\ cmds \in Seq(Cmds)
  BY Typed DEF IInv, EnableKnown
<1>2. l \in Loads /\ (l = "pending" => o.load = "pending" \/ starts)
  BY <1>1, InstParts DEF Loads
<1>3. insts' = [insts EXCEPT ![current] = y]
  BY <1>1, Zenon DEF EnableKnown, Enabled
<1>4. y \in Insts /\ y.load = l /\ (y.saving => o.saving)
  <2>. HIDE DEF l
  <2>. QED BY <1>1, <1>2, EnabledObject
<1>5. x \in Cmds /\ x.inst = current /\ (starts => Waits(x, current, "get"))
  BY <1>1, CmdType DEF Waits
<1>6. /\ cmds' = cmds \/ cmds' = cmds \o <<x>>
      /\ starts => cmds' = cmds \o <<x>>
  BY <1>1 DEF EnableKnown, Sends, GetCmd
<1>. HIDE DEF y, x, l, starts, stops
<1>7. insts' \in Seq(Insts) /\ Len(insts') = Len(insts) /\ cmds' \in Seq(Cmds) /\ Addressed' /\ Engaged'
  BY <1>1, <1>2, <1>3, <1>4, <1>5, <1>6, CurrentSends
<1>8. TypeOK'
  BY <1>7, CommandType DEF IInv, TypeOK, EnableKnown
<1>. QED BY <1>7, <1>8 DEF IInv

LEMMA DataHolds ==
    ASSUME IInv, NEW h \in Hosts, NEW t \in Times, Data(h, t)
    PROVE  IInv'
<1>. DEFINE o == insts[current]
            d == update(o.dataset, h, t)
            save == IsComplete(d, ptime(t)) /\ MaySave(o)
            b == o.saving \/ save
            y == Fed(o, d, b)
            x == Cmd("put", current, d)
<1>1. current # 0 /\ current \in DOMAIN insts /\ o \in Insts /\ now \in Times
      /\ current \in Nat /\ insts \in Seq(Insts) /\ cmds \in Seq(Cmds)
  BY Typed DEF IInv, Data
<1>2. d \in Datasets
  BY <1>1, InstParts, UpdateGrows
<1>3. insts' = [insts EXCEPT ![current] = y]
  BY <1>1, Zenon DEF Data, Fed
<1>4. x \in Cmds /\ x.inst = current /\ Waits(x, current, "put")
  BY <1>1, <1>2, CmdType DEF Waits
<1>5. cmds' = IF save THEN cmds \o <<x>> ELSE cmds
  <2>1. cmds' = cmds \o (IF save THEN <<x>> ELSE <<>>)
    BY DEF Data, Sends
  <2>. QED BY <1>1, <2>1
<1>6. rqs' \in [Requests -> Rqs] /\ heard' \subseteq Hosts \X Times
      /\ UNCHANGED <<up, now, current, binding, bucket, bounds>>
  BY AnswerType DEF Data, IInv, TypeOK
<1>. HIDE DEF save, d, x
<1>7. y \in Insts /\ y.load = o.load /\ (y.saving => o.saving \/ save)
  <2>1. b \in BOOLEAN /\ (b => o.saving \/ save)
    OBVIOUS
  <2>. HIDE DEF b
  <2>. QED BY <1>1, <1>2, <2>1, FedObject
<1>. HIDE DEF y
<1>8. insts' \in Seq(Insts) /\ Len(insts') = Len(insts) /\ cmds' \in Seq(Cmds) /\ Addressed' /\ Engaged'
  BY <1>1, <1>3, <1>4, <1>5, <1>7, CurrentSends
<1>9. TypeOK'
  BY <1>6, <1>8 DEF IInv, TypeOK
<1>. QED BY <1>8, <1>9 DEF IInv

LEMMA ValueRequestHolds ==
    ASSUME IInv, NEW r \in Requests, NEW end \in Times, ValueRequest(r, end)
    PROVE  IInv'
<1>1. UNCHANGED <<up, now, insts, current, binding, bucket, cmds, bounds, heard>>
  BY DEF ValueRequest
<1>2. rqs' \in [Requests -> Rqs]
  <2>. DEFINE w == [state |-> "waiting", inst |-> current, latest |-> end - Granularity, at |-> now]
  <2>1. w \in Rqs
    <3>1. end - Granularity \in Int /\ now \in Times /\ current \in Nat
      BY Typed, TimeTypes DEF IInv
    <3>. QED BY <3>1 DEF Rqs
  <2>2. rqs \in [Requests -> Rqs]
    BY DEF IInv, TypeOK
  <2>3. rqs' = [rqs EXCEPT ![r] = w] \/ Answer({r})
    BY DEF ValueRequest
  <2>. HIDE DEF w
  <2>. QED BY <2>1, <2>2, <2>3, AnswerType DEF IInv
<1>3. TypeOK'
  BY <1>1, <1>2 DEF IInv, TypeOK
<1>4. Addressed' /\ Engaged'
  BY <1>1, SameCmds DEF IInv, TypeOK
<1>. QED BY <1>3, <1>4 DEF IInv

LEMMA AggTickHolds == ASSUME IInv, aggTick PROVE IInv'
<1>1. rqs' \in [Requests -> Rqs] /\ UNCHANGED <<up, now, current, binding, bucket, bounds, heard>>
  BY AnswerType DEF aggTick, IInv
<1>2. CASE current = 0
  <2>1. UNCHANGED <<insts, cmds>>
    BY <1>2 DEF aggTick
  <2>2. TypeOK'
    BY <1>1, <2>1 DEF IInv, TypeOK
  <2>3. Addressed' /\ Engaged'
    BY <2>1, SameCmds DEF IInv, TypeOK
  <2>. QED BY <2>2, <2>3 DEF IInv
<1>3. CASE current # 0
  <2>. DEFINE o == insts[current]
              again == o.load = "waiting" /\ now - o.loadLast > LoadRetry
              l == IF again THEN "pending" ELSE o.load
              d == IF Retention = 0 THEN o.dataset ELSE expireBefore(o.dataset, now - Retention)
              y == Ticked(o, d, l)
              x == Cmd("get", current, None)
  <2>1. current \in DOMAIN insts /\ o \in Insts /\ now \in Times /\ now \in Nat /\ current \in Nat
        /\ insts \in Seq(Insts) /\ cmds \in Seq(Cmds)
    BY <1>3, Typed DEF IInv
  <2>2. l \in Loads /\ (l = "pending" => o.load = "pending" \/ again) /\ d \in Datasets
    <3>1. l \in Loads /\ (l = "pending" => o.load = "pending" \/ again) /\ o.dataset \in Datasets
      BY <2>1, InstParts DEF Loads
    <3>2. now - Retention \in Int
      BY <2>1, TimeTypes
    <3>. QED BY <3>1, <3>2, ExpireType
  <2>3. insts' = [insts EXCEPT ![current] = y]
    BY <1>3, <2>1, Zenon DEF aggTick, Ticked
  <2>4. x \in Cmds /\ x.inst = current /\ Waits(x, current, "get")
    BY <2>1, CmdType DEF Waits
  <2>5. cmds' = IF again THEN cmds \o <<x>> ELSE cmds
    <3>1. cmds' = cmds \o (IF again THEN <<x>> ELSE <<>>)
      BY <1>3 DEF aggTick, GetCmd
    <3>. QED BY <2>1, <3>1
  <2>. HIDE DEF d, l, x, again
  <2>6. y \in Insts /\ y.load = l /\ (y.saving => o.saving)
    BY <2>1, <2>2, TickedObject
  <2>. HIDE DEF y
  <2>7. insts' \in Seq(Insts) /\ Len(insts') = Len(insts) /\ cmds' \in Seq(Cmds) /\ Addressed' /\ Engaged'
    BY <1>3, <2>2, <2>3, <2>4, <2>5, <2>6, CurrentSends
  <2>8. TypeOK'
    BY <1>1, <2>7 DEF IInv, TypeOK
  <2>. QED BY <2>7, <2>8 DEF IInv
<1>. QED BY <1>2, <1>3

-----------------------------------------------------------------------------
(* What becomes of a command.                                              *)

Carried(c, state, data) == [c EXCEPT !.state = state, !.data = data]
Abandoned(c) == [c EXCEPT !.live = FALSE]

LEMMA CarriedCmd ==
    ASSUME NEW c \in Cmds, NEW state \in {"sent", "done", "failed", "lost"},
           NEW data \in Datasets \cup {None}
    PROVE  /\ Carried(c, state, data) \in Cmds
           /\ Carried(c, state, data).op = c.op /\ Carried(c, state, data).inst = c.inst
           /\ Carried(c, state, data).live <=> c.live
           /\ Carried(c, state, data).state = state /\ Carried(c, state, data).data = data
BY DEF Cmds, Carried

LEMMA AbandonedCmd ==
    ASSUME NEW c \in Cmds
    PROVE  /\ Abandoned(c) \in Cmds /\ ~Abandoned(c).live
           /\ Abandoned(c).op = c.op /\ Abandoned(c).inst = c.inst
           /\ Abandoned(c).state = c.state /\ Abandoned(c).data = c.data
BY DEF Cmds, Abandoned

LEMMA EditedCmds ==
    ASSUME cmds \in Seq(Cmds), NEW i \in DOMAIN cmds, NEW y \in Cmds
    PROVE  /\ [cmds EXCEPT ![i] = y] \in Seq(Cmds)
           /\ DOMAIN [cmds EXCEPT ![i] = y] = DOMAIN cmds
           /\ [cmds EXCEPT ![i] = y][i] = y
           /\ \A k \in DOMAIN cmds : k # i => [cmds EXCEPT ![i] = y][k] = cmds[k]
OBVIOUS

\* A command is changed or taken away, and who waited for it does so no longer.
LEMMA EndedCmd ==
    ASSUME IInv, NEW i \in DOMAIN cmds, NEW y \in Cmds, y.inst = cmds[i].inst, y.op = cmds[i].op,
           y.live => cmds[i].live,
           (cmds' = RemoveAt(cmds, i) /\ ~y.live) \/ cmds' = [cmds EXCEPT ![i] = y],
           insts' \in Seq(Insts), Len(insts') = Len(insts),
           \A n \in DOMAIN insts :
              /\ insts'[n].load = "pending" => /\ insts[n].load = "pending"
                                               /\ y.live \/ ~Waits(cmds[i], n, "get")
              /\ insts'[n].saving => /\ insts[n].saving
                                     /\ y.live \/ ~Waits(cmds[i], n, "put")
    PROVE  cmds' \in Seq(Cmds) /\ Addressed' /\ Engaged'
<1>1. cmds \in Seq(Cmds) /\ Len(cmds) \in Nat /\ DOMAIN cmds = 1 .. Len(cmds)
      /\ DOMAIN insts = 1 .. Len(insts) /\ DOMAIN insts' = 1 .. Len(insts) /\ Len(insts) \in Nat
  BY Typed DEF IInv
<1>2. CASE cmds' = RemoveAt(cmds, i) /\ ~y.live
  <2>0. cmds' = RemoveAt(cmds, i)
    BY <1>2
  <2>1. /\ cmds' \in Seq(Cmds) /\ DOMAIN cmds' = 1 .. (Len(cmds) - 1)
        /\ \A k \in 1 .. (Len(cmds) - 1) : cmds'[k] = IF k < i THEN cmds[k] ELSE cmds[k + 1]
    <3>1. /\ RemoveAt(cmds, i) \in Seq(Cmds) /\ DOMAIN RemoveAt(cmds, i) = 1 .. (Len(cmds) - 1)
          /\ \A k \in 1 .. (Len(cmds) - 1) :
                RemoveAt(cmds, i)[k] = IF k < i THEN cmds[k] ELSE cmds[k + 1]
      BY <1>1, RemovedAt
    <3>. QED BY <2>0, <3>1, Zenon
  <2>2. \A k \in DOMAIN cmds' : \E j \in DOMAIN cmds : cmds'[k] = cmds[j]
    <3>1. \A k \in 1 .. (Len(cmds) - 1) : k \in DOMAIN cmds /\ k + 1 \in DOMAIN cmds
      BY <1>1
    <3>. QED BY <2>1, <3>1
  <2>3. Addressed'
    BY <2>2 DEF Addressed, IInv
  <2>4. \A n \in DOMAIN insts : /\ Awaits(cmds, n, "get") /\ ~Waits(cmds[i], n, "get") => Awaits(cmds', n, "get")
                                /\ Awaits(cmds, n, "put") /\ ~Waits(cmds[i], n, "put") => Awaits(cmds', n, "put")
    BY <1>1, <1>2, AwaitsLess
  <2>5. Engaged'
    BY <1>1, <1>2, <2>4, EngagedParts, EngagedPartsNext DEF IInv
  <2>. QED BY <2>1, <2>3, <2>5
<1>3. CASE cmds' = [cmds EXCEPT ![i] = y]
  <2>1. /\ cmds' \in Seq(Cmds) /\ DOMAIN cmds' = DOMAIN cmds
        /\ cmds'[i] = y /\ \A k \in DOMAIN cmds : k # i => cmds'[k] = cmds[k]
    BY <1>1, <1>3, EditedCmds
  <2>2. Addressed'
    BY <2>1 DEF Addressed, IInv
  <2>3. \A n \in DOMAIN insts, op \in {"get", "put"} :
           Awaits(cmds, n, op) /\ (y.live \/ ~Waits(cmds[i], n, op)) => Awaits(cmds', n, op)
    <3>. SUFFICES ASSUME NEW n \in DOMAIN insts, NEW op \in {"get", "put"}, Awaits(cmds, n, op),
                         y.live \/ ~Waits(cmds[i], n, op)
                  PROVE  Awaits(cmds', n, op)
      OBVIOUS
    <3>1. Waits(cmds[i], n, op) => Waits(y, n, op)
      BY DEF Waits
    <3>. QED BY <1>1, <1>3, <3>1, AwaitsChanged
  <2>4. Engaged'
    BY <1>1, <2>3, EngagedParts, EngagedPartsNext DEF IInv
  <2>. QED BY <2>1, <2>2, <2>4
<1>. QED BY <1>2, <1>3

LEMMA StashStepHolds == ASSUME IInv, StashStep PROVE IInv'
<1>1. PICK i \in DOMAIN cmds :
        /\ bucket' = CASE cmds[i].op = "put" -> cmds[i].data
                       [] cmds[i].op = "delete" -> None
                       [] OTHER -> bucket
        /\ cmds' = [cmds EXCEPT ![i].state = "done",
                                ![i].data = IF cmds[i].op = "get" THEN bucket ELSE None]
        /\ UNCHANGED <<up, now, insts, current, binding, rqs, bounds, heard>>
  BY DEF StashStep
<1>. DEFINE c == cmds[i]
            data == IF c.op = "get" THEN bucket ELSE None
            y == Carried(c, "done", data)
<1>2. c \in Cmds /\ data \in Datasets \cup {None} /\ bucket' \in Datasets \cup {None}
  BY <1>1, Typed, CmdParts DEF IInv
<1>3. cmds' = [cmds EXCEPT ![i] = y]
  BY <1>1, Zenon DEF Carried
<1>. HIDE DEF data, c
<1>4. y \in Cmds /\ y.op = c.op /\ y.inst = c.inst /\ (y.live <=> c.live)
  <2>1. c \in Cmds /\ data \in Datasets \cup {None}
    BY <1>2
  <2>2. \A e \in Datasets \cup {None} :
           LET z == Carried(c, "done", e)
           IN  z \in Cmds /\ z.op = c.op /\ z.inst = c.inst /\ (z.live <=> c.live)
    BY <2>1, CarriedCmd
  <2>. QED BY <2>1, <2>2
<1>. HIDE DEF y
<1>. USE DEF c
<1>5. insts' = insts /\ insts \in Seq(Insts)
  BY <1>1, Typed DEF IInv
<1>6. cmds' \in Seq(Cmds) /\ Addressed' /\ Engaged'
  <2>1. \A n \in DOMAIN insts :
              /\ insts'[n].load = "pending" => /\ insts[n].load = "pending"
                                               /\ y.live \/ ~Waits(cmds[i], n, "get")
              /\ insts'[n].saving => /\ insts[n].saving
                                     /\ y.live \/ ~Waits(cmds[i], n, "put")
    BY <1>4, <1>5 DEF Waits
  <2>. QED BY <1>3, <1>4, <1>5, <2>1, EndedCmd
<1>7. TypeOK'
  BY <1>1, <1>2, <1>6 DEF IInv, TypeOK
<1>. QED BY <1>6, <1>7 DEF IInv

LEMMA FaultHolds == ASSUME IInv, Fault PROVE IInv'
<1>1. PICK i \in DOMAIN cmds, outcome \in {"failed", "lost"} :
        /\ bounds.faults < MaxFaults
        /\ bounds' = [bounds EXCEPT !.faults = @ + 1]
        /\ cmds' = [cmds EXCEPT ![i].state = outcome, ![i].data = None]
        /\ UNCHANGED <<up, now, insts, current, binding, bucket, rqs, heard>>
  BY DEF Fault
<1>. DEFINE c == cmds[i]
            y == Carried(c, outcome, None)
<1>2. c \in Cmds
  BY Typed DEF IInv
<1>3. cmds' = [cmds EXCEPT ![i] = y]
  BY <1>1, Zenon DEF Carried
<1>4. y \in Cmds /\ y.op = c.op /\ y.inst = c.inst /\ (y.live <=> c.live)
  <2>. HIDE DEF c
  <2>. QED BY <1>2, CarriedCmd
<1>. HIDE DEF y
<1>5. insts' = insts /\ insts \in Seq(Insts)
  BY <1>1, Typed DEF IInv
<1>6. cmds' \in Seq(Cmds) /\ Addressed' /\ Engaged'
  <2>1. \A n \in DOMAIN insts :
              /\ insts'[n].load = "pending" => /\ insts[n].load = "pending"
                                               /\ y.live \/ ~Waits(cmds[i], n, "get")
              /\ insts'[n].saving => /\ insts[n].saving
                                     /\ y.live \/ ~Waits(cmds[i], n, "put")
    BY <1>4, <1>5 DEF Waits
  <2>. QED BY <1>3, <1>4, <1>5, <2>1, EndedCmd
<1>7. bounds' \in [faults: 0..MaxFaults, commands: 0..MaxCommands, crashes: 0..MaxCrashes]
  <2>1. bounds \in [faults: 0..MaxFaults, commands: 0..MaxCommands, crashes: 0..MaxCrashes]
    BY DEF IInv, TypeOK
  <2>2. bounds.faults \in Nat /\ MaxFaults \in Nat /\ bounds.faults < MaxFaults
    BY <1>1, <2>1, AggregatorAssumption
  <2>3. bounds' = [bounds EXCEPT !.faults = bounds.faults + 1]
    BY <1>1
  <2>4. bounds.faults + 1 \in 0..MaxFaults
    BY <2>2
  <2>. QED BY <2>1, <2>3, <2>4
<1>8. TypeOK'
  BY <1>1, <1>6, <1>7 DEF IInv, TypeOK
<1>. QED BY <1>6, <1>8 DEF IInv

\* The object that waits for a command, and what the answer makes of it.
LEMMA AnsweredHolds == ASSUME IInv, Answered PROVE IInv'
<1>1. PICK i \in DOMAIN cmds :
        /\ cmds' = RemoveAt(cmds, i)
        /\ insts' = CASE cmds[i].live /\ cmds[i].op = "get" ->
                            [insts EXCEPT ![cmds[i].inst] = LoadDone(@, cmds[i].data)]
                      [] cmds[i].live /\ cmds[i].op = "put" ->
                            [insts EXCEPT ![cmds[i].inst] =
                                IF cmds[i].state = "failed"
                                THEN SaveFailed(@) ELSE SaveDone(@, cmds[i].at)]
                      [] OTHER -> insts
        /\ UNCHANGED <<up, now, current, binding, bucket, rqs, bounds, heard>>
  BY DEF Answered
<1>. DEFINE n == cmds[i].inst
            z == IF cmds[i].op = "get" THEN LoadDone(insts[n], cmds[i].data)
                 ELSE IF cmds[i].state = "failed" THEN SaveFailed(insts[n])
                 ELSE SaveDone(insts[n], cmds[i].at)
            y == Abandoned(cmds[i])
<1>2. insts \in Seq(Insts) /\ Len(insts) \in Nat /\ DOMAIN insts = 1 .. Len(insts)
      /\ cmds[i] \in Cmds
  BY Typed DEF IInv
<1>3. y \in Cmds /\ y.inst = cmds[i].inst /\ y.op = cmds[i].op /\ ~y.live
  BY <1>2, AbandonedCmd
<1>4. /\ insts' \in Seq(Insts) /\ Len(insts') = Len(insts)
      /\ \A m \in DOMAIN insts :
            /\ insts'[m].load = "pending" => insts[m].load = "pending" /\ ~Waits(cmds[i], m, "get")
            /\ insts'[m].saving => insts[m].saving /\ ~Waits(cmds[i], m, "put")
  <2>1. CASE cmds[i].live /\ cmds[i].op \in {"get", "put"}
    <3>1. n \in DOMAIN insts /\ insts[n] \in Insts
      <4>1. n \in Nat /\ n # 0 /\ n <= Len(insts)
        BY <1>2, <2>1, CmdParts DEF IInv, Addressed
      <4>. QED BY <1>2, <4>1, Typed DEF IInv
    <3>2. insts' = [insts EXCEPT ![n] = z]
      BY <1>1, <2>1
    <3>3. /\ z \in Insts
          /\ z.load = "pending" => insts[n].load = "pending" /\ cmds[i].op # "get"
          /\ z.saving => insts[n].saving /\ cmds[i].op # "put"
      <4>1. cmds[i].at \in Times /\ cmds[i].data \in Datasets \cup {None}
        BY <1>2, CmdParts
      <4>2. LoadDone(insts[n], cmds[i].data) \in Insts
            /\ LoadDone(insts[n], cmds[i].data).load = "loaded"
            /\ (LoadDone(insts[n], cmds[i].data).saving => insts[n].saving)
        BY <3>1, <4>1, LoadedObject
      <4>3. \A o \in {SaveDone(insts[n], cmds[i].at), SaveFailed(insts[n])} :
               o \in Insts /\ o.load = insts[n].load /\ ~o.saving
        BY <3>1, <4>1, SavedObject
      <4>4. CASE cmds[i].op = "get"
        BY <4>2, <4>4
      <4>5. CASE cmds[i].op # "get"
        <5>1. z \in {SaveDone(insts[n], cmds[i].at), SaveFailed(insts[n])}
          BY <4>5
        <5>. HIDE DEF z
        <5>. QED BY <4>3, <4>5, <5>1
      <4>. QED BY <4>4, <4>5
    <3>. HIDE DEF z, n
    <3>4. /\ insts' \in Seq(Insts) /\ Len(insts') = Len(insts) /\ insts'[n] = z
          /\ \A m \in DOMAIN insts : m # n => insts'[m] = insts[m]
      BY <1>2, <3>1, <3>2, <3>3, EditedInsts
    <3>. QED BY <3>3, <3>4 DEF Waits, n
  <2>2. CASE ~(cmds[i].live /\ cmds[i].op \in {"get", "put"})
    <3>1. insts' = insts
      BY <1>1, <2>2
    <3>. QED BY <1>2, <2>2, <3>1 DEF Waits
  <2>. QED BY <2>1, <2>2
<1>. HIDE DEF y
<1>5. cmds' \in Seq(Cmds) /\ Addressed' /\ Engaged'
  BY <1>1, <1>3, <1>4, EndedCmd
<1>6. TypeOK'
  BY <1>1, <1>4, <1>5 DEF IInv, TypeOK
<1>. QED BY <1>5, <1>6 DEF IInv

LEMMA TimesOutHolds == ASSUME IInv, TimesOut PROVE IInv'
<1>1. PICK i \in DOMAIN cmds :
        /\ cmds[i].live
        /\ cmds' = IF cmds[i].state = "lost" THEN RemoveAt(cmds, i)
                   ELSE [cmds EXCEPT ![i].live = FALSE]
        /\ insts' = CASE cmds[i].op = "get" ->
                            [insts EXCEPT ![cmds[i].inst].load = "waiting",
                                          ![cmds[i].inst].loadLast = now]
                      [] cmds[i].op = "put" ->
                            [insts EXCEPT ![cmds[i].inst] = SaveFailed(@)]
                      [] OTHER -> insts
        /\ UNCHANGED <<up, now, current, binding, bucket, rqs, bounds, heard>>
  BY DEF TimesOut
<1>. DEFINE n == cmds[i].inst
            y == Abandoned(cmds[i])
<1>2. insts \in Seq(Insts) /\ Len(insts) \in Nat /\ DOMAIN insts = 1 .. Len(insts)
      /\ cmds[i] \in Cmds /\ now \in Times /\ n \in DOMAIN insts /\ insts[n] \in Insts
  <2>1. insts \in Seq(Insts) /\ Len(insts) \in Nat /\ DOMAIN insts = 1 .. Len(insts)
        /\ cmds[i] \in Cmds /\ now \in Times
    BY Typed DEF IInv
  <2>2. n \in Nat /\ n # 0 /\ n <= Len(insts)
    BY <1>1, <2>1, CmdParts DEF IInv, Addressed
  <2>. QED BY <2>1, <2>2, Typed DEF IInv
<1>3. y \in Cmds /\ y.inst = cmds[i].inst /\ y.op = cmds[i].op /\ ~y.live
  BY <1>2, AbandonedCmd
<1>4. cmds' = RemoveAt(cmds, i) \/ cmds' = [cmds EXCEPT ![i] = y]
  BY <1>1 DEF Abandoned
<1>. HIDE DEF y
<1>5. /\ insts' \in Seq(Insts) /\ Len(insts') = Len(insts)
      /\ \A m \in DOMAIN insts :
            /\ insts'[m].load = "pending" => insts[m].load = "pending" /\ ~Waits(cmds[i], m, "get")
            /\ insts'[m].saving => insts[m].saving /\ ~Waits(cmds[i], m, "put")
  <2>1. CASE cmds[i].op = "get"
    <3>1. insts' = [insts EXCEPT ![n] = Waited(insts[n])]
      <4>1. insts' = [insts EXCEPT ![n].load = "waiting", ![n].loadLast = now]
        BY <1>1, <2>1
      <4>. QED BY <1>2, <4>1, Zenon DEF Waited
    <3>2. /\ Waited(insts[n]) \in Insts /\ Waited(insts[n]).load = "waiting"
          /\ Waited(insts[n]).saving => insts[n].saving
      BY <1>2, TimedOutObject
    <3>. HIDE DEF n
    <3>3. /\ insts' \in Seq(Insts) /\ Len(insts') = Len(insts) /\ insts'[n] = Waited(insts[n])
          /\ \A m \in DOMAIN insts : m # n => insts'[m] = insts[m]
      BY <1>2, <3>1, <3>2, EditedInsts
    <3>. QED BY <2>1, <3>2, <3>3 DEF Waits, n
  <2>2. CASE cmds[i].op = "put"
    <3>1. insts' = [insts EXCEPT ![n] = SaveFailed(insts[n])]
      BY <1>1, <2>2
    <3>2. /\ SaveFailed(insts[n]) \in Insts /\ SaveFailed(insts[n]).load = insts[n].load
          /\ ~SaveFailed(insts[n]).saving
      BY <1>2, SavedObject
    <3>. HIDE DEF n
    <3>3. /\ insts' \in Seq(Insts) /\ Len(insts') = Len(insts) /\ insts'[n] = SaveFailed(insts[n])
          /\ \A m \in DOMAIN insts : m # n => insts'[m] = insts[m]
      BY <1>2, <3>1, <3>2, EditedInsts
    <3>. QED BY <2>2, <3>2, <3>3 DEF Waits, n
  <2>3. CASE cmds[i].op \notin {"get", "put"}
    <3>1. insts' = insts
      BY <1>1, <2>3
    <3>. QED BY <1>2, <2>3, <3>1 DEF Waits
  <2>. QED BY <2>1, <2>2, <2>3
<1>6. cmds' \in Seq(Cmds) /\ Addressed' /\ Engaged'
  BY <1>3, <1>4, <1>5, EndedCmd
<1>7. TypeOK'
  BY <1>1, <1>5, <1>6 DEF IInv, TypeOK
<1>. QED BY <1>6, <1>7 DEF IInv

-----------------------------------------------------------------------------
(* The process.                                                            *)

\* The commands that are left of a dead process are those that were on their
\* way, in their order.
Remains(cs) == {i \in DOMAIN cs : cs[i].state = "sent"}
Orphan(c) == [c EXCEPT !.inst = 0, !.live = FALSE]

LEMMA OrphanCmd ==
    ASSUME NEW c \in Cmds
    PROVE  /\ Orphan(c) \in Cmds /\ ~Orphan(c).live /\ Orphan(c).inst = 0
           /\ Orphan(c).op = c.op /\ Orphan(c).state = c.state /\ Orphan(c).data = c.data
BY DEF Cmds, Orphan

LEMMA OrphanedCmds ==
    ASSUME NEW cs \in Seq(Cmds)
    PROVE  \E n \in Nat : \E at \in [1 .. n -> Remains(cs)] :
             /\ \A i, j \in 1 .. n : i < j => at[i] < at[j]
             /\ Orphaned(cs) \in Seq(Cmds) /\ DOMAIN Orphaned(cs) = 1 .. n
             /\ \A i \in 1 .. n : Orphaned(cs)[i] = Orphan(cs[at[i]])
<1>. DEFINE sent == {i \in DOMAIN cs : cs[i].state = "sent"}
            n == Cardinality(sent)
            at == CHOOSE f \in [1 .. n -> sent] : \A i, j \in DOMAIN f : i < j => f[i] < f[j]
<1>1. Len(cs) \in Nat /\ DOMAIN cs = 1 .. Len(cs)
  OBVIOUS
<1>2. sent \in SUBSET (1 .. Len(cs))
  BY <1>1
<1>3. n \in Nat /\ Listings(sent) # {}
  <2>. HIDE DEF sent
  <2>. QED BY <1>1, <1>2, ListingExists
<1>4. Orphaned(cs) = [i \in DOMAIN at |-> Orphan(cs[at[i]])]
  BY Zenon DEF Orphaned, Orphan
<1>. HIDE DEF sent, n
<1>5. at \in [1 .. n -> sent] /\ \A i, j \in DOMAIN at : i < j => at[i] < at[j]
  <2>1. \E f \in [1 .. n -> sent] : \A i, j \in DOMAIN f : i < j => f[i] < f[j]
    BY <1>3 DEF Listings, n
  <2>. QED BY <2>1, Zenon
<1>. HIDE DEF at
<1>6. DOMAIN at = 1 .. n /\ \A i \in 1 .. n : at[i] \in sent
  BY <1>5
<1>7. \A i \in 1 .. n : Orphan(cs[at[i]]) \in Cmds
  <2>1. \A k \in sent : cs[k] \in Cmds
    BY <1>1 DEF sent
  <2>. QED BY <1>6, <2>1, OrphanCmd
<1>8. Orphaned(cs) \in Seq(Cmds) /\ DOMAIN Orphaned(cs) = 1 .. n
      /\ \A i \in 1 .. n : Orphaned(cs)[i] = Orphan(cs[at[i]])
  <2>1. Orphaned(cs) \in [1 .. n -> Cmds]
    BY <1>4, <1>6, <1>7
  <2>2. Orphaned(cs) \in Seq(Cmds)
    BY <1>3, <2>1
  <2>. QED BY <1>4, <1>6, <2>2
<1>9. sent = Remains(cs)
  BY DEF sent, Remains
<1>. QED BY <1>3, <1>5, <1>6, <1>8, <1>9

LEMMA CrashHolds == ASSUME IInv, Crash PROVE IInv'
<1>1. insts' = <<>> /\ current' = 0 /\ binding' = <<>> /\ cmds' = Orphaned(cmds)
      /\ UNCHANGED <<now, bucket, heard>> /\ up' = FALSE
  BY DEF Crash
<1>2. cmds' \in Seq(Cmds) /\ \A i \in DOMAIN cmds' : ~cmds'[i].live /\ cmds'[i].inst = 0
  <2>1. cmds \in Seq(Cmds) /\ \A i \in DOMAIN cmds : cmds[i] \in Cmds
    BY Typed DEF IInv
  <2>2. PICK n \in Nat : \E at \in [1 .. n -> Remains(cmds)] :
             /\ Orphaned(cmds) \in Seq(Cmds) /\ DOMAIN Orphaned(cmds) = 1 .. n
             /\ \A i \in 1 .. n : Orphaned(cmds)[i] = Orphan(cmds[at[i]])
    BY <2>1, OrphanedCmds
  <2>3. PICK at \in [1 .. n -> Remains(cmds)] :
             /\ Orphaned(cmds) \in Seq(Cmds) /\ DOMAIN Orphaned(cmds) = 1 .. n
             /\ \A i \in 1 .. n : Orphaned(cmds)[i] = Orphan(cmds[at[i]])
    BY <2>2
  <2>4. \A i \in 1 .. n : cmds[at[i]] \in Cmds
    BY <2>1 DEF Remains
  <2>. QED BY <1>1, <2>3, <2>4, OrphanCmd
<1>3. rqs' \in [Requests -> Rqs]
  <2>1. [NewRequest EXCEPT !.state = "gone"] \in Rqs
    BY DEF NewRequest, Rqs
  <2>2. rqs \in [Requests -> Rqs]
    BY DEF IInv, TypeOK
  <2>. QED BY <2>1, <2>2 DEF Crash
<1>4. bounds' \in [faults: 0..MaxFaults, commands: 0..MaxCommands, crashes: 0..MaxCrashes]
  <2>1. bounds \in [faults: 0..MaxFaults, commands: 0..MaxCommands, crashes: 0..MaxCrashes]
    BY DEF IInv, TypeOK
  <2>2. bounds.crashes \in Nat /\ MaxCrashes \in Nat /\ bounds.crashes < MaxCrashes
    BY <2>1, AggregatorAssumption DEF Crash
  <2>3. bounds' = [bounds EXCEPT !.crashes = bounds.crashes + 1]
    BY DEF Crash
  <2>4. bounds.crashes + 1 \in 0..MaxCrashes
    BY <2>2
  <2>. QED BY <2>1, <2>3, <2>4
<1>5. TypeOK'
  <2>1. insts' \in Seq(Insts) /\ current' \in 0 .. Len(insts') /\ binding' \in Seq(BOOLEAN)
    BY <1>1
  <2>2. up' \in BOOLEAN /\ now' \in Times /\ bucket' \in Datasets \cup {None}
        /\ heard' \subseteq Hosts \X Times
    BY <1>1 DEF IInv, TypeOK
  <2>. QED BY <1>2, <1>3, <1>4, <2>1, <2>2 DEF TypeOK
<1>6. Addressed'
  BY <1>1, <1>2 DEF Addressed
<1>7. Engaged'
  BY <1>1, EngagedPartsNext
<1>. QED BY <1>5, <1>6, <1>7 DEF IInv

LEMMA ClockHolds == ASSUME IInv, Clock PROVE IInv'
<1>1. now' \in Times
  <2>1. now \in FirstSecond .. LastSecond /\ now' = now + 1 /\ now < LastSecond
    BY DEF Clock, IInv, TypeOK, Times
  <2>. QED BY <2>1, AggregatorAssumption DEF Times
<1>2. TypeOK'
  BY <1>1 DEF IInv, TypeOK, Clock
<1>3. Addressed' /\ Engaged'
  BY SameCmds DEF IInv, TypeOK, Clock
<1>. QED BY <1>2, <1>3 DEF IInv

LEMMA NextHolds == ASSUME IInv, [Next]_vars PROVE IInv'
<1>1. CASE UNCHANGED vars
  <2>1. TypeOK'
    BY <1>1 DEF IInv, TypeOK, vars
  <2>2. Addressed' /\ Engaged'
    BY <1>1, SameCmds DEF IInv, TypeOK, vars
  <2>. QED BY <2>1, <2>2 DEF IInv
<1>2. CASE Start
  <2>1. TypeOK'
    BY <1>2 DEF IInv, TypeOK, Start
  <2>2. Addressed' /\ Engaged'
    BY <1>2, SameCmds DEF IInv, TypeOK, Start
  <2>. QED BY <2>1, <2>2 DEF IInv
<1>3. CASE Next
  BY <1>2, <1>3, CrashHolds, ClockHolds, EnableUnknownHolds, EnableKnownHolds, BoundHolds,
     DisableHolds, ResetHolds, DataHolds, ValueRequestHolds, AggTickHolds, StashStepHolds,
     FaultHolds, AnsweredHolds, TimesOutHolds
  DEF Next
<1>. QED BY <1>1, <1>3

THEOREM Invariant == Spec => []IInv
<1>. QED BY InitHolds, NextHolds, PTL DEF Spec

\* The types, in particular: whatever is enabled anew, reset, timed out or lost,
\* the current instrumentation is an object of this life of the process.
THEOREM TypeCorrect == Spec => []TypeOK
<1>1. IInv => TypeOK
  BY DEF IInv
<1>. QED BY <1>1, Invariant, PTL

\* Every load and save that is under way has a command that an answer or the
\* timeout will end: the flags that hold back other loads and saves
\* (agi_load, agi_saving) do not stay for ever.
THEOREM NothingStuck == Spec => []Engaged
<1>1. IInv => Engaged
  BY DEF IInv
<1>. QED BY <1>1, Invariant, PTL

-----------------------------------------------------------------------------
(* What a dataset has of another.                                          *)

LEMMA KeepsSelf == ASSUME NEW d \in Datasets, NEW t PROVE Keeps(t, d, d)
BY DatasetParts DEF Keeps

LEMMA GrowsKeeps == ASSUME NEW d, NEW e, Grows(d, e), NEW t PROVE Keeps(t, e, d)
BY DEF Grows, Keeps

LEMMA KeepsCovers ==
    ASSUME NEW t, NEW d \in Datasets, NEW e \in Datasets, NEW c \in Datasets \cup {None},
           Keeps(t, e, d), Covers(t, d, c)
    PROVE  Covers(t, e, c)
<1>. SUFFICES ASSUME c # None, NEW p \in Periods, ~Expired(t, p)
              PROVE  c.reporting[p] \subseteq e.reporting[p] /\ c.data[p] <= e.data[p]
  BY DEF Covers, Keeps
<1>1. c.data[p] \in Nat /\ d.data[p] \in Nat /\ e.data[p] \in Nat
  BY DatasetParts
<1>2. c.reporting[p] \subseteq d.reporting[p] /\ c.data[p] <= d.data[p]
  BY DEF Covers, Keeps
<1>3. d.reporting[p] \subseteq e.reporting[p] /\ d.data[p] <= e.data[p]
  BY DEF Keeps
<1>. QED BY <1>1, <1>2, <1>3

LEMMA MergedKeeps ==
    ASSUME NEW t, NEW d \in Datasets, NEW e \in Datasets, NEW c \in Datasets \cup {None},
           Keeps(t, e, d)
    PROVE  Keeps(t, Merged(e, c), Merged(d, c))
<1>1. CASE c = None
  BY <1>1 DEF Merged
<1>2. CASE c # None
  <2>. SUFFICES ASSUME NEW p \in Periods, ~Expired(t, p)
                PROVE  /\ Merged(d, c).reporting[p] \subseteq Merged(e, c).reporting[p]
                       /\ Merged(d, c).data[p] <= Merged(e, c).data[p]
    BY DEF Keeps
  <2>1. c.data[p] \in Nat /\ d.data[p] \in Nat /\ e.data[p] \in Nat
    BY <1>2, DatasetParts
  <2>2. d.reporting[p] \subseteq e.reporting[p] /\ d.data[p] <= e.data[p]
    BY DEF Keeps
  <2>3. /\ Merged(d, c).reporting[p] = d.reporting[p] \cup c.reporting[p]
        /\ Merged(d, c).data[p] = d.data[p] + c.data[p]
        /\ Merged(e, c).reporting[p] = e.reporting[p] \cup c.reporting[p]
        /\ Merged(e, c).data[p] = e.data[p] + c.data[p]
    BY <1>2 DEF Merged, unstash
  <2>. QED BY <2>1, <2>2, <2>3
<1>. QED BY <1>1, <1>2

LEMMA ExpireKeeps ==
    ASSUME NEW t \in Int, NEW d \in Datasets, Retention > 0
    PROVE  Keeps(t, expireBefore(d, t - Retention), d)
<1>. DEFINE u == t - Retention
            e == expireBefore(d, u)
<1>1. u \in Int
  BY TimeTypes
<1>2. \A p \in Periods : p < u => Expired(t, p)
  BY DEF Expired
<1>. HIDE DEF u
<1>3. \A p \in Periods : ~(p < u) => e.reporting[p] = d.reporting[p] /\ e.data[p] = d.data[p]
  BY <1>1, ExpireType
<1>. HIDE DEF e
<1>4. \A p \in Periods : d.data[p] \in Nat
  BY DatasetParts
<1>5. Keeps(t, e, d)
  BY <1>2, <1>3, <1>4 DEF Keeps
<1>. QED BY <1>5 DEF e, u

LEMMA CoversLater ==
    ASSUME NEW t \in Nat, NEW e, NEW c, Covers(t, e, c)
    PROVE  Covers(t + 1, e, c)
<1>1. \A p \in Periods : Expired(t, p) => Expired(t + 1, p)
  BY TimeTypes DEF Expired
<1>. QED BY <1>1 DEF Covers, Keeps

LEMMA HasAllKept ==
    ASSUME NEW t, NEW d \in Datasets, NEW e \in Datasets, NEW b \in Datasets \cup {None},
           NEW cs \in Seq(Cmds), Keeps(t, e, d), HasAll(t, d, b, cs)
    PROVE  HasAll(t, e, b, cs)
<1>1. \A i \in DOMAIN cs : cs[i].data \in Datasets \cup {None}
  BY CmdParts
<1>. QED BY <1>1, KeepsCovers DEF HasAll

-----------------------------------------------------------------------------
(* What is safe stays so when an object or a command changes.              *)

LEMMA ObjectKept ==
    ASSUME NEW t, NEW n, NEW o \in Insts, NEW z \in Insts, NEW b \in Datasets \cup {None},
           NEW cs \in Seq(Cmds), Keeps(t, z.dataset, o.dataset),
           ReadHasAll(t, n, o, b, cs), SavedBehind(t, n, o, cs)
    PROVE  ReadHasAll(t, n, z, b, cs) /\ SavedBehind(t, n, z, cs)
<1>1. o.dataset \in Datasets /\ z.dataset \in Datasets
  BY InstParts
<1>2. \A i \in DOMAIN cs : cs[i].data \in Datasets \cup {None}
  BY CmdParts
<1>3. ReadHasAll(t, n, z, b, cs)
  <2>. SUFFICES ASSUME NEW i \in DOMAIN cs, Loading(cs, n, i, "done")
                PROVE  HasAll(t, Merged(z.dataset, cs[i].data), b, cs)
    BY DEF ReadHasAll
  <2>1. HasAll(t, Merged(o.dataset, cs[i].data), b, cs)
    BY DEF ReadHasAll
  <2>2. Merged(o.dataset, cs[i].data) \in Datasets /\ Merged(z.dataset, cs[i].data) \in Datasets
    BY <1>1, <1>2, MergedType
  <2>3. Keeps(t, Merged(z.dataset, cs[i].data), Merged(o.dataset, cs[i].data))
    BY <1>1, <1>2, MergedKeeps
  <2>. QED BY <2>1, <2>2, <2>3, HasAllKept
<1>4. SavedBehind(t, n, z, cs)
  BY <1>1, <1>2, KeepsCovers DEF SavedBehind
<1>. QED BY <1>3, <1>4

\* An object that waits for no load has nothing to fear before it is loaded.
LEMMA ObjectNew ==
    ASSUME NEW t, NEW n, NEW o, NEW b, NEW cs, o.load # "loaded",
           \A i \in DOMAIN cs : cs[i].live => cs[i].inst # n
    PROVE  ObjectSafe(t, n, o, b, cs)
BY DEF ObjectSafe, LoadedHasAll, ReadHasAll, SavedBehind, Loading

LEMMA LoadSent ==
    ASSUME NEW t, NEW b, NEW cs \in Seq(Cmds), NEW x \in Cmds, x.op # "put", x.state = "sent"
    PROVE  /\ SavesGrow(t, b, cs) => SavesGrow(t, b, cs \o <<x>>)
           /\ NoFailedLoad(cs) => NoFailedLoad(cs \o <<x>>)
           /\ \A n, o : ObjectSafe(t, n, o, b, cs) => ObjectSafe(t, n, o, b, cs \o <<x>>)
<1>. DEFINE ds == cs \o <<x>>
<1>1. /\ Len(cs) \in Nat /\ DOMAIN cs = 1 .. Len(cs) /\ DOMAIN ds = 1 .. (Len(cs) + 1)
      /\ \A k \in DOMAIN cs : ds[k] = cs[k]
      /\ ds[Len(cs) + 1] = x
  BY Extended
<1>. HIDE DEF ds
<1>2. \A k \in DOMAIN ds : k \in DOMAIN cs \/ (k = Len(cs) + 1 /\ ds[k] = x /\ \A j \in DOMAIN ds : ~(k < j))
  BY <1>1
<1>3. \A k \in DOMAIN ds : SentPut(ds, k) => k \in DOMAIN cs /\ SentPut(cs, k) /\ ds[k] = cs[k]
  BY <1>1, <1>2 DEF SentPut
<1>4. SavesGrow(t, b, cs) => SavesGrow(t, b, ds)
  BY <1>3 DEF SavesGrow
<1>5. NoFailedLoad(cs) => NoFailedLoad(ds)
  BY <1>1, <1>2 DEF NoFailedLoad
<1>6. ASSUME NEW n, NEW o, ObjectSafe(t, n, o, b, cs)
      PROVE  ObjectSafe(t, n, o, b, ds)
  <2>1. \A d : HasAll(t, d, b, cs) => HasAll(t, d, b, ds)
    BY <1>3 DEF HasAll
  <2>2. LoadedHasAll(t, o, b, ds)
    BY <1>6, <2>1 DEF ObjectSafe, LoadedHasAll
  <2>3. ReadHasAll(t, n, o, b, ds)
    <3>1. \A k \in DOMAIN ds : Loading(ds, n, k, "done") =>
             k \in DOMAIN cs /\ Loading(cs, n, k, "done") /\ ds[k] = cs[k]
      BY <1>1, <1>2 DEF Loading
    <3>. QED BY <1>6, <2>1, <3>1 DEF ObjectSafe, ReadHasAll
  <2>4. SavedBehind(t, n, o, ds)
    <3>1. \A k, j \in DOMAIN ds : Loading(ds, n, k, "sent") /\ k < j =>
             k \in DOMAIN cs /\ Loading(cs, n, k, "sent")
      BY <1>1, <1>2 DEF Loading
    <3>. QED BY <1>3, <1>6, <3>1 DEF ObjectSafe, SavedBehind
  <2>. QED BY <2>2, <2>3, <2>4 DEF ObjectSafe
<1>. QED BY <1>4, <1>5, <1>6 DEF ds

\* The dataset that a save sends has all there is and all that is on its way.
LEMMA SaveSent ==
    ASSUME NEW t, NEW b \in Datasets \cup {None}, NEW cs \in Seq(Cmds), NEW n, NEW o \in Insts,
           NEW x \in Cmds, x.op = "put", x.data = o.dataset,
           SavesGrow(t, b, cs), ObjectSafe(t, n, o, b, cs), HasAll(t, o.dataset, b, cs),
           NoFailedLoad(cs)
    PROVE  /\ SavesGrow(t, b, cs \o <<x>>) /\ ObjectSafe(t, n, o, b, cs \o <<x>>)
           /\ NoFailedLoad(cs \o <<x>>)
<1>. DEFINE ds == cs \o <<x>>
            last == Len(cs) + 1
<1>1. /\ Len(cs) \in Nat /\ DOMAIN cs = 1 .. Len(cs) /\ DOMAIN ds = 1 .. last
      /\ \A k \in DOMAIN cs : ds[k] = cs[k]
      /\ ds[last] = x
  BY Extended
<1>. HIDE DEF ds
<1>2. /\ \A k \in DOMAIN ds : k \in DOMAIN cs \/ (k = last /\ ds[k] = x)
      /\ \A k \in DOMAIN cs : k \in DOMAIN ds /\ k < last /\ ~(last < k)
      /\ last \in DOMAIN ds /\ ~(last < last)
  BY <1>1
<1>. HIDE DEF last
<1>3. o.dataset \in Datasets
  BY InstParts
<1>4. \A k \in DOMAIN cs : (SentPut(ds, k) <=> SentPut(cs, k)) /\ ds[k] = cs[k]
  BY <1>1 DEF SentPut
<1>5. SavesGrow(t, b, ds)
  <2>. SUFFICES ASSUME NEW j \in DOMAIN ds, SentPut(ds, j)
                PROVE  /\ Covers(t, ds[j].data, b)
                       /\ \A i \in DOMAIN ds : i < j /\ SentPut(ds, i) => Covers(t, ds[j].data, ds[i].data)
    BY DEF SavesGrow
  <2>1. CASE j \in DOMAIN cs
    BY <1>2, <1>4, <2>1 DEF SavesGrow
  <2>2. CASE j \notin DOMAIN cs
    BY <1>2, <1>4, <2>2 DEF HasAll
  <2>. QED BY <2>1, <2>2
<1>6. NoFailedLoad(ds)
  BY <1>2, <1>4 DEF NoFailedLoad
<1>7. \A e \in Datasets : Keeps(t, e, o.dataset) /\ HasAll(t, e, b, cs) => HasAll(t, e, b, ds)
  BY <1>2, <1>4 DEF HasAll, Covers
<1>8. \A k \in DOMAIN ds : ds[k].op = "get" => k \in DOMAIN cs
  BY <1>2
<1>9. ObjectSafe(t, n, o, b, ds)
  <2>1. LoadedHasAll(t, o, b, ds)
    BY <1>3, <1>7, KeepsSelf DEF LoadedHasAll
  <2>2. ReadHasAll(t, n, o, b, ds)
    <3>. SUFFICES ASSUME NEW i \in DOMAIN ds, Loading(ds, n, i, "done")
                  PROVE  HasAll(t, Merged(o.dataset, ds[i].data), b, ds)
      BY DEF ReadHasAll
    <3>1. i \in DOMAIN cs /\ ds[i] = cs[i] /\ Loading(cs, n, i, "done")
      BY <1>4, <1>8 DEF Loading
    <3>2. cs[i].data \in Datasets \cup {None}
      BY <3>1, CmdParts
    <3>3. HasAll(t, Merged(o.dataset, cs[i].data), b, cs)
      BY <3>1 DEF ObjectSafe, ReadHasAll
    <3>4. Merged(o.dataset, cs[i].data) \in Datasets
          /\ Keeps(t, Merged(o.dataset, cs[i].data), o.dataset)
      BY <1>3, <3>2, MergedType, GrowsKeeps
    <3>. QED BY <1>7, <3>1, <3>3, <3>4
  <2>3. SavedBehind(t, n, o, ds)
    <3>. SUFFICES ASSUME NEW i \in DOMAIN ds, NEW j \in DOMAIN ds,
                         Loading(ds, n, i, "sent"), i < j, SentPut(ds, j)
                  PROVE  Covers(t, o.dataset, ds[j].data)
      BY DEF SavedBehind
    <3>1. i \in DOMAIN cs /\ Loading(cs, n, i, "sent")
      BY <1>4, <1>8 DEF Loading
    <3>2. CASE j \in DOMAIN cs
      BY <1>4, <3>1, <3>2 DEF ObjectSafe, SavedBehind
    <3>3. CASE j \notin DOMAIN cs
      BY <1>2, <1>3, <3>3, KeepsSelf DEF Covers
    <3>. QED BY <3>2, <3>3
  <2>. QED BY <2>1, <2>2, <2>3 DEF ObjectSafe
<1>. QED BY <1>5, <1>6, <1>9 DEF ds

\* Commands are taken away, fail, get lost, or are no longer waited for.
LEMMA FewerCmds ==
    ASSUME NEW t, NEW b, NEW cs, NEW ds, NEW f \in [DOMAIN ds -> DOMAIN cs],
           \A i, j \in DOMAIN ds : i < j => f[i] < f[j],
           \A k \in DOMAIN ds :
              /\ SentPut(ds, k) => SentPut(cs, f[k])
              /\ ds[k].state \in {"sent", "done"} => /\ cs[f[k]].state = ds[k].state
                                                     /\ cs[f[k]].data = ds[k].data
              /\ ds[k].op = cs[f[k]].op
              /\ ds[k].live => cs[f[k]].live /\ ds[k].inst = cs[f[k]].inst
    PROVE  /\ SavesGrow(t, b, cs) => SavesGrow(t, b, ds)
           /\ \A n, o : ObjectSafe(t, n, o, b, cs) => ObjectSafe(t, n, o, b, ds)
<1>1. \A k \in DOMAIN ds : SentPut(ds, k) =>
         f[k] \in DOMAIN cs /\ SentPut(cs, f[k]) /\ cs[f[k]].data = ds[k].data
  BY DEF SentPut
<1>2. SavesGrow(t, b, cs) => SavesGrow(t, b, ds)
  BY <1>1 DEF SavesGrow
<1>3. \A d : HasAll(t, d, b, cs) => HasAll(t, d, b, ds)
  BY <1>1 DEF HasAll
<1>4. ASSUME NEW n, NEW o, ObjectSafe(t, n, o, b, cs)
      PROVE  ObjectSafe(t, n, o, b, ds)
  <2>1. \A k \in DOMAIN ds, s \in {"sent", "done"} : Loading(ds, n, k, s) =>
           f[k] \in DOMAIN cs /\ Loading(cs, n, f[k], s) /\ cs[f[k]].data = ds[k].data
    BY DEF Loading
  <2>2. LoadedHasAll(t, o, b, ds)
    BY <1>3, <1>4 DEF ObjectSafe, LoadedHasAll
  <2>3. ReadHasAll(t, n, o, b, ds)
    BY <1>3, <1>4, <2>1 DEF ObjectSafe, ReadHasAll
  <2>4. SavedBehind(t, n, o, ds)
    BY <1>1, <1>4, <2>1 DEF ObjectSafe, SavedBehind
  <2>. QED BY <2>2, <2>3, <2>4 DEF ObjectSafe
<1>. QED BY <1>2, <1>4

LEMMA EditedFewer ==
    ASSUME NEW t, NEW b, NEW cs \in Seq(Cmds), NEW i \in DOMAIN cs, NEW y \in Cmds,
           y.op = cs[i].op, y.live => cs[i].live, y.inst = cs[i].inst,
           y.state \in {"sent", "done"} => y.state = cs[i].state /\ y.data = cs[i].data
    PROVE  /\ SavesGrow(t, b, cs) => SavesGrow(t, b, [cs EXCEPT ![i] = y])
           /\ \A n, o : ObjectSafe(t, n, o, b, cs) => ObjectSafe(t, n, o, b, [cs EXCEPT ![i] = y])
<1>. DEFINE ds == [cs EXCEPT ![i] = y]
            f == [k \in DOMAIN cs |-> k]
<1>1. DOMAIN ds = DOMAIN cs /\ f \in [DOMAIN ds -> DOMAIN cs] /\ \A k \in DOMAIN ds : f[k] = k
  OBVIOUS
<1>2. \A k \in DOMAIN ds : ds[k] = cs[k] \/ (k = i /\ ds[k] = y)
  OBVIOUS
<1>. HIDE DEF ds, f
<1>3. \A k, j \in DOMAIN ds : k < j => f[k] < f[j]
  BY <1>1
<1>4. \A k \in DOMAIN ds :
              /\ SentPut(ds, k) => SentPut(cs, f[k])
              /\ ds[k].state \in {"sent", "done"} => /\ cs[f[k]].state = ds[k].state
                                                     /\ cs[f[k]].data = ds[k].data
              /\ ds[k].op = cs[f[k]].op
              /\ ds[k].live => cs[f[k]].live /\ ds[k].inst = cs[f[k]].inst
  BY <1>1, <1>2 DEF SentPut
<1>. QED BY <1>1, <1>3, <1>4, FewerCmds DEF ds

LEMMA RemovedFewer ==
    ASSUME NEW t, NEW b, NEW cs \in Seq(Cmds), NEW i \in DOMAIN cs
    PROVE  /\ SavesGrow(t, b, cs) => SavesGrow(t, b, RemoveAt(cs, i))
           /\ \A n, o : ObjectSafe(t, n, o, b, cs) => ObjectSafe(t, n, o, b, RemoveAt(cs, i))
<1>. DEFINE ds == RemoveAt(cs, i)
            f == [k \in 1 .. (Len(cs) - 1) |-> IF k < i THEN k ELSE k + 1]
<1>1. /\ Len(cs) \in Nat /\ DOMAIN cs = 1 .. Len(cs) /\ DOMAIN ds = 1 .. (Len(cs) - 1)
      /\ \A k \in 1 .. (Len(cs) - 1) : ds[k] = IF k < i THEN cs[k] ELSE cs[k + 1]
  <2>1. Len(cs) \in Nat /\ DOMAIN cs = 1 .. Len(cs)
    OBVIOUS
  <2>2. /\ DOMAIN ds = 1 .. (Len(cs) - 1)
        /\ \A k \in 1 .. (Len(cs) - 1) : ds[k] = IF k < i THEN cs[k] ELSE cs[k + 1]
    BY RemovedAt
  <2>. QED BY <2>1, <2>2
<1>2. f \in [1 .. (Len(cs) - 1) -> DOMAIN cs] /\ \A k, j \in 1 .. (Len(cs) - 1) : k < j => f[k] < f[j]
  BY <1>1
<1>3. \A k \in DOMAIN ds : ds[k] = cs[f[k]]
  BY <1>1
<1>. HIDE DEF ds, f
<1>4. \A k \in DOMAIN ds :
              /\ SentPut(ds, k) => SentPut(cs, f[k])
              /\ ds[k].state \in {"sent", "done"} => /\ cs[f[k]].state = ds[k].state
                                                     /\ cs[f[k]].data = ds[k].data
              /\ ds[k].op = cs[f[k]].op
              /\ ds[k].live => cs[f[k]].live /\ ds[k].inst = cs[f[k]].inst
  BY <1>3 DEF SentPut
<1>5. f \in [DOMAIN ds -> DOMAIN cs] /\ \A k, j \in DOMAIN ds : k < j => f[k] < f[j]
  BY <1>1, <1>2
<1>6. /\ SavesGrow(t, b, cs) => SavesGrow(t, b, ds)
      /\ \A n, o : ObjectSafe(t, n, o, b, cs) => ObjectSafe(t, n, o, b, ds)
  BY <1>4, <1>5, FewerCmds
<1>. QED BY <1>6 DEF ds

-----------------------------------------------------------------------------
(* The steps.                                                              *)

LEMMA SameSafe ==
    ASSUME SInv, UNCHANGED <<now, insts, current, bucket, cmds>>
    PROVE  SInv'
BY DEF SInv

LEMMA DisableSafe == ASSUME IInv, SInv, Disable PROVE SInv'
<1>. DEFINE x == Cmd("delete", current, None)
<1>1. cmds' = cmds \o <<x>> /\ current' = 0 /\ UNCHANGED <<now, bucket>>
  BY DEF Disable, Sends
<1>2. x \in Cmds /\ x.op = "delete" /\ x.state = "sent" /\ cmds \in Seq(Cmds)
  BY CmdType, Typed DEF IInv
<1>. HIDE DEF x
<1>3. x.op # "put"
  BY <1>2
<1>4. SavesGrow(now, bucket, cmds') /\ NoFailedLoad(cmds')
  BY <1>1, <1>2, <1>3, LoadSent DEF SInv
<1>. QED BY <1>1, <1>4 DEF SInv

LEMMA BoundSafe == ASSUME IInv, SInv, Bound PROVE SInv'
<1>. DEFINE n == Len(insts) + 1
            persist == Head(binding)
            o == [persist |-> persist,
                  load |-> IF persist THEN "pending" ELSE "non-persistent",
                  loadLast |-> 0, saving |-> FALSE, lastSaved |-> 0,
                  dataset |-> EmptyDataset, merged |-> FALSE]
            x == Cmd("get", n, None)
<1>1. Len(insts) \in Nat /\ cmds \in Seq(Cmds) /\ DOMAIN cmds = 1 .. Len(cmds)
  BY Typed DEF IInv
<1>2. insts' = Append(insts, o) /\ current' = n /\ UNCHANGED <<now, bucket>>
      /\ (cmds' = cmds \o <<x>> \/ cmds' = cmds \o <<>>)
  BY DEF Bound, Sends, GetCmd
<1>3. insts'[n] = o
  <2>1. insts \in Seq(Insts) /\ insts' = Append(insts, o) /\ n = Len(insts) + 1
    BY <1>2, Typed DEF IInv
  <2>. HIDE DEF o, n
  <2>. QED BY <2>1
<1>4. o.load # "loaded"
  OBVIOUS
<1>5. n \in Nat /\ \A i \in DOMAIN cmds : cmds[i].live => cmds[i].inst # n
  <2>1. \A i \in DOMAIN cmds : cmds[i].inst \in Nat /\ cmds[i].inst <= Len(insts)
    BY Typed, CmdParts DEF IInv, Addressed
  <2>. QED BY <1>1, <2>1
<1>6. x \in Cmds /\ x.op = "get" /\ x.state = "sent"
  BY <1>5, CmdType, Typed DEF IInv
<1>. HIDE DEF o, x, n
<1>7. ObjectSafe(now, n, o, bucket, cmds)
  BY <1>4, <1>5, ObjectNew
<1>8. SavesGrow(now, bucket, cmds') /\ NoFailedLoad(cmds') /\ ObjectSafe(now, n, o, bucket, cmds')
  <2>1. CASE cmds' = cmds \o <<x>>
    <3>1. x.op # "put"
      BY <1>6
    <3>. QED BY <1>1, <1>6, <1>7, <2>1, <3>1, LoadSent DEF SInv
  <2>2. CASE cmds' = cmds \o <<>>
    <3>1. cmds' = cmds
      BY <1>1, <2>2
    <3>. QED BY <1>7, <3>1 DEF SInv
  <2>. QED BY <1>2, <2>1, <2>2
<1>. QED BY <1>2, <1>3, <1>8 DEF SInv

\* An object that gets no nearer to being loaded, and at most a load or a deletion
\* that is sent.
LEMMA CurrentSafe ==
    ASSUME IInv, SInv, current # 0, NEW y \in Insts, insts' = [insts EXCEPT ![current] = y],
           y.load = "loaded" => insts[current].load = "loaded",
           Keeps(now, y.dataset, insts[current].dataset),
           NEW x \in Cmds, x.op # "put", x.state = "sent",
           cmds' = cmds \/ cmds' = cmds \o <<x>>,
           UNCHANGED <<now, bucket, current>>
    PROVE  SInv'
<1>. DEFINE o == insts[current]
<1>1. current \in DOMAIN insts /\ o \in Insts /\ bucket \in Datasets \cup {None} /\ cmds \in Seq(Cmds)
  BY Typed DEF IInv
<1>2. insts'[current] = y
  BY <1>1
<1>. HIDE DEF o
<1>3. ObjectSafe(now, current, o, bucket, cmds)
  BY DEF SInv, o
<1>4. Keeps(now, y.dataset, o.dataset) /\ (y.load = "loaded" => o.load = "loaded")
  BY DEF o
<1>5. ReadHasAll(now, current, y, bucket, cmds) /\ SavedBehind(now, current, y, cmds)
  BY <1>1, <1>3, <1>4, ObjectKept DEF ObjectSafe
<1>6. LoadedHasAll(now, y, bucket, cmds)
  <2>1. o.dataset \in Datasets /\ y.dataset \in Datasets
    BY <1>1, InstParts
  <2>2. y.load = "loaded" => HasAll(now, o.dataset, bucket, cmds)
    BY <1>3, <1>4 DEF ObjectSafe, LoadedHasAll
  <2>. QED BY <1>1, <1>4, <2>1, <2>2, HasAllKept DEF LoadedHasAll
<1>7. ObjectSafe(now, current, y, bucket, cmds)
  BY <1>5, <1>6 DEF ObjectSafe
<1>8. /\ SavesGrow(now, bucket, cmds') /\ NoFailedLoad(cmds')
      /\ ObjectSafe(now, current, y, bucket, cmds')
  BY <1>1, <1>7, LoadSent DEF SInv
<1>. QED BY <1>2, <1>8 DEF SInv

LEMMA EnableKnownSafe ==
    ASSUME IInv, SInv, NEW persist \in BOOLEAN, EnableKnown(persist)
    PROVE  SInv'
<1>. DEFINE o == insts[current]
            starts == StartsToPersist(current, persist)
            stops == StopsToPersist(current, persist)
            l == IF starts THEN "pending" ELSE IF stops THEN "non-persistent" ELSE o.load
            y == Enabled(o, persist, l)
            x == IF starts THEN Cmd("get", current, None) ELSE Cmd("delete", current, None)
<1>1. current # 0 /\ current \in DOMAIN insts /\ o \in Insts /\ cmds \in Seq(Cmds)
      /\ current \in Nat /\ now \in Times /\ UNCHANGED <<now, bucket, current>>
  BY Typed DEF IInv, EnableKnown
<1>2. l \in Loads /\ (l = "loaded" => o.load = "loaded")
  BY <1>1, InstParts DEF Loads
<1>3. insts' = [insts EXCEPT ![current] = y]
  BY <1>1, Zenon DEF EnableKnown, Enabled
<1>4. x \in Cmds /\ x.op # "put" /\ x.state = "sent"
  BY <1>1, CmdType
<1>5. cmds' = cmds \/ cmds' = cmds \o <<x>>
  BY <1>1 DEF EnableKnown, Sends, GetCmd
<1>. HIDE DEF l, x, starts, stops
<1>6. y \in Insts /\ y.load = l /\ y.dataset = o.dataset
  BY <1>1, <1>2, EnabledObject
<1>. HIDE DEF y
<1>7. Keeps(now, y.dataset, o.dataset)
  BY <1>1, <1>6, InstParts, KeepsSelf
<1>. QED BY <1>1, <1>2, <1>3, <1>4, <1>5, <1>6, <1>7, CurrentSafe

LEMMA AggTickSafe == ASSUME IInv, SInv, aggTick PROVE SInv'
<1>1. UNCHANGED <<now, current, bucket>>
  BY DEF aggTick
<1>2. CASE current = 0
  BY <1>1, <1>2, SameSafe DEF aggTick
<1>3. CASE current # 0
  <2>. DEFINE o == insts[current]
              again == o.load = "waiting" /\ now - o.loadLast > LoadRetry
              l == IF again THEN "pending" ELSE o.load
              d == IF Retention = 0 THEN o.dataset ELSE expireBefore(o.dataset, now - Retention)
              y == Ticked(o, d, l)
              x == Cmd("get", current, None)
  <2>1. current \in DOMAIN insts /\ o \in Insts /\ now \in Times /\ now \in Nat /\ now \in Int
        /\ cmds \in Seq(Cmds) /\ current \in Nat
    BY <1>3, Typed DEF IInv
  <2>2. l \in Loads /\ (l = "loaded" => o.load = "loaded") /\ d \in Datasets /\ Keeps(now, d, o.dataset)
    <3>1. l \in Loads /\ (l = "loaded" => o.load = "loaded") /\ o.dataset \in Datasets
      BY <2>1, InstParts DEF Loads
    <3>2. now - Retention \in Int /\ (Retention # 0 => Retention > 0)
      BY <2>1, TimeTypes
    <3>. QED BY <2>1, <3>1, <3>2, ExpireType, ExpireKeeps, KeepsSelf
  <2>3. insts' = [insts EXCEPT ![current] = y]
    BY <1>3, <2>1, Zenon DEF aggTick, Ticked
  <2>4. x \in Cmds /\ x.op # "put" /\ x.state = "sent"
    BY <2>1, CmdType
  <2>5. cmds' = cmds \/ cmds' = cmds \o <<x>>
    <3>1. cmds' = cmds \o (IF again THEN <<x>> ELSE <<>>)
      BY <1>3 DEF aggTick, GetCmd
    <3>. QED BY <2>1, <3>1
  <2>. HIDE DEF d, l, x, again
  <2>6. y \in Insts /\ y.load = l /\ y.dataset = d
    BY <2>1, <2>2, TickedObject
  <2>. HIDE DEF y
  <2>. QED BY <1>1, <1>3, <2>1, <2>2, <2>3, <2>4, <2>5, <2>6, CurrentSafe
<1>. QED BY <1>2, <1>3

LEMMA DataSafe ==
    ASSUME IInv, SInv, NEW h \in Hosts, NEW t \in Times, Data(h, t)
    PROVE  SInv'
<1>. DEFINE o == insts[current]
            d == update(o.dataset, h, t)
            save == IsComplete(d, ptime(t)) /\ MaySave(o)
            b == o.saving \/ save
            y == Fed(o, d, b)
            x == Cmd("put", current, d)
<1>1. current # 0 /\ current \in DOMAIN insts /\ o \in Insts /\ now \in Times
      /\ current \in Nat /\ cmds \in Seq(Cmds) /\ bucket \in Datasets \cup {None}
      /\ UNCHANGED <<now, bucket, current>>
  BY Typed DEF IInv, Data
<1>2. o.dataset \in Datasets /\ d \in Datasets /\ Keeps(now, d, o.dataset)
  BY <1>1, InstParts, UpdateGrows, GrowsKeeps
<1>3. insts' = [insts EXCEPT ![current] = y]
  BY <1>1, Zenon DEF Data, Fed
<1>4. x \in Cmds /\ x.op = "put" /\ x.data = d
  BY <1>1, <1>2, CmdType
<1>5. cmds' = IF save THEN cmds \o <<x>> ELSE cmds
  <2>1. cmds' = cmds \o (IF save THEN <<x>> ELSE <<>>)
    BY DEF Data, Sends
  <2>. QED BY <1>1, <2>1
<1>6. save => o.load = "loaded"
  BY DEF MaySave
<1>. HIDE DEF save, d, x
<1>7. y \in Insts /\ y.load = o.load /\ y.dataset = d
  <2>1. b \in BOOLEAN
    OBVIOUS
  <2>. HIDE DEF b
  <2>. QED BY <1>1, <1>2, <2>1, FedObject
<1>8. insts'[current] = y
  BY <1>1, <1>3
<1>. HIDE DEF y
<1>9. ObjectSafe(now, current, o, bucket, cmds)
  BY <1>1 DEF SInv
<1>. HIDE DEF o
<1>10. ReadHasAll(now, current, y, bucket, cmds) /\ SavedBehind(now, current, y, cmds)
  BY <1>1, <1>2, <1>7, <1>9, ObjectKept DEF ObjectSafe
<1>11. o.load = "loaded" => HasAll(now, d, bucket, cmds)
  BY <1>1, <1>2, <1>9, HasAllKept DEF ObjectSafe, LoadedHasAll
<1>12. ObjectSafe(now, current, y, bucket, cmds)
  BY <1>7, <1>10, <1>11 DEF ObjectSafe, LoadedHasAll
<1>13. /\ SavesGrow(now, bucket, cmds') /\ NoFailedLoad(cmds')
       /\ ObjectSafe(now, current, y, bucket, cmds')
  <2>1. CASE save
    <3>1. HasAll(now, y.dataset, bucket, cmds) /\ x.data = y.dataset
      BY <1>4, <1>6, <1>7, <1>11, <2>1
    <3>2. cmds' = cmds \o <<x>>
      BY <1>5, <2>1
    <3>. QED BY <1>1, <1>4, <1>7, <1>12, <3>1, <3>2, SaveSent DEF SInv
  <2>2. CASE ~save
    BY <1>5, <1>12, <2>2 DEF SInv
  <2>. QED BY <2>1, <2>2
<1>. QED BY <1>1, <1>8, <1>13 DEF SInv

\* A load reads what is there, with what is on its way behind it; a save replaces
\* what is there, and whatever is to be saved behind it has that.
LEMMA StashStepSafe == ASSUME IInv, SInv, StashStep PROVE SInv'
<1>1. PICK i \in DOMAIN cmds :
        /\ Carries(i)
        /\ bucket' = CASE cmds[i].op = "put" -> cmds[i].data
                       [] cmds[i].op = "delete" -> None
                       [] OTHER -> bucket
        /\ cmds' = [cmds EXCEPT ![i].state = "done",
                                ![i].data = IF cmds[i].op = "get" THEN bucket ELSE None]
        /\ UNCHANGED <<now, insts, current>>
  BY DEF StashStep
<1>. DEFINE c == cmds[i]
            data == IF c.op = "get" THEN bucket ELSE None
            y == Carried(c, "done", data)
            o == insts[current]
<1>2. /\ cmds \in Seq(Cmds) /\ DOMAIN cmds = 1 .. Len(cmds) /\ Len(cmds) \in Nat /\ c \in Cmds
      /\ c.op \in {"get", "put", "delete"} /\ data \in Datasets \cup {None}
      /\ bucket \in Datasets \cup {None}
      /\ current # 0 => o \in Insts /\ o.dataset \in Datasets
      /\ \A k \in DOMAIN cmds : cmds[k].data \in Datasets \cup {None}
  BY Typed, CmdParts, InstParts DEF IInv
<1>3. cmds' = [cmds EXCEPT ![i] = y]
  BY <1>1, Zenon DEF Carried
<1>4. y \in Cmds /\ y.op = c.op /\ y.state = "done" /\ y.data = data /\ y.inst = c.inst /\ (y.live <=> c.live)
  <2>1. \A e \in Datasets \cup {None} :
           LET z == Carried(c, "done", e)
           IN  z \in Cmds /\ z.op = c.op /\ z.state = "done" /\ z.data = e
               /\ z.inst = c.inst /\ (z.live <=> c.live)
    BY <1>2, CarriedCmd
  <2>2. data \in Datasets \cup {None}
    BY <1>2
  <2>. HIDE DEF c, data
  <2>. QED BY <2>1, <2>2
<1>. HIDE DEF y
<1>5. /\ DOMAIN cmds' = DOMAIN cmds /\ cmds'[i] = y
      /\ \A k \in DOMAIN cmds : k # i => cmds'[k] = cmds[k]
  BY <1>2, <1>3, <1>4, EditedCmds
<1>6. c.state = "sent" /\ \A k \in DOMAIN cmds : k < i => cmds[k].state # "sent"
  BY <1>1, <1>2 DEF Carries
<1>7. \A k \in DOMAIN cmds :
         SentPut(cmds', k) => SentPut(cmds, k) /\ k # i /\ i < k /\ cmds'[k].data = cmds[k].data
  <2>. SUFFICES ASSUME NEW k \in DOMAIN cmds, SentPut(cmds', k)
                PROVE  SentPut(cmds, k) /\ k # i /\ i < k /\ cmds'[k].data = cmds[k].data
    OBVIOUS
  <2>1. k # i
    BY <1>4, <1>5 DEF SentPut
  <2>2. cmds'[k] = cmds[k] /\ cmds[k].state = "sent"
    BY <1>5, <2>1 DEF SentPut
  <2>3. ~(k < i) /\ i \in Nat /\ k \in Nat
    BY <1>2, <1>6, <2>2
  <2>. QED BY <2>1, <2>2, <2>3 DEF SentPut
\* What the bucket holds now, others on their way will replace by more.
<1>8. \A d : HasAll(now, d, bucket, cmds) => HasAll(now, d, bucket', cmds')
  <2>. SUFFICES ASSUME NEW d, HasAll(now, d, bucket, cmds)
                PROVE  HasAll(now, d, bucket', cmds')
    OBVIOUS
  <2>1. Covers(now, d, bucket')
    <3>1. CASE c.op = "put"
      <4>1. bucket' = c.data /\ SentPut(cmds, i)
        BY <1>1, <1>6, <3>1 DEF SentPut
      <4>. QED BY <4>1 DEF HasAll
    <3>2. CASE c.op = "get"
      BY <1>1, <3>2 DEF HasAll
    <3>3. CASE c.op = "delete"
      BY <1>1, <3>3 DEF Covers
    <3>. QED BY <1>2, <3>1, <3>2, <3>3
  <2>2. \A k \in DOMAIN cmds' : SentPut(cmds', k) => Covers(now, d, cmds'[k].data)
    BY <1>5, <1>7 DEF HasAll
  <2>. QED BY <2>1, <2>2 DEF HasAll
<1>9. SavesGrow(now, bucket', cmds')
  <2>. SUFFICES ASSUME NEW j \in DOMAIN cmds, SentPut(cmds', j)
                PROVE  /\ Covers(now, cmds[j].data, bucket')
                       /\ \A k \in DOMAIN cmds : k < j /\ SentPut(cmds', k) =>
                             Covers(now, cmds[j].data, cmds[k].data)
    BY <1>5, <1>7 DEF SavesGrow
  <2>1. SentPut(cmds, j) /\ i < j
    BY <1>7
  <2>2. Covers(now, cmds[j].data, bucket')
    <3>1. CASE c.op = "put"
      <4>1. bucket' = c.data /\ SentPut(cmds, i)
        BY <1>1, <1>6, <3>1 DEF SentPut
      <4>. QED BY <2>1, <4>1 DEF SInv, SavesGrow
    <3>2. CASE c.op = "get"
      BY <1>1, <2>1, <3>2 DEF SInv, SavesGrow
    <3>3. CASE c.op = "delete"
      BY <1>1, <3>3 DEF Covers
    <3>. QED BY <1>2, <3>1, <3>2, <3>3
  <2>. QED BY <1>7, <2>1, <2>2 DEF SInv, SavesGrow
<1>10. NoFailedLoad(cmds')
  BY <1>4, <1>5 DEF SInv, NoFailedLoad
<1>11. ASSUME current # 0 PROVE ObjectSafe(now, current, o, bucket', cmds')
  <2>1. ObjectSafe(now, current, o, bucket, cmds)
    BY <1>11 DEF SInv
  <2>2. LoadedHasAll(now, o, bucket', cmds')
    BY <1>8, <2>1 DEF ObjectSafe, LoadedHasAll
  <2>3. ReadHasAll(now, current, o, bucket', cmds')
    <3>. SUFFICES ASSUME NEW k \in DOMAIN cmds, Loading(cmds', current, k, "done")
                  PROVE  HasAll(now, Merged(o.dataset, cmds'[k].data), bucket', cmds')
      BY <1>5 DEF ReadHasAll
    <3>1. CASE k # i
      <4>1. cmds'[k] = cmds[k] /\ Loading(cmds, current, k, "done")
        BY <1>5, <3>1 DEF Loading
      <4>. QED BY <1>8, <2>1, <4>1 DEF ObjectSafe, ReadHasAll
    <3>2. CASE k = i
      <4>1. c.op = "get" /\ Loading(cmds, current, i, "sent") /\ data = bucket /\ bucket' = bucket
            /\ cmds'[k].data = bucket
        BY <1>1, <1>4, <1>5, <1>6, <3>2 DEF Loading
      <4>. DEFINE e == Merged(o.dataset, bucket)
      <4>2. e \in Datasets /\ Keeps(now, e, o.dataset)
        BY <1>2, <1>11, MergedType, GrowsKeeps
      <4>3. Covers(now, e, bucket)
        <5>1. CASE bucket = None
          BY <5>1 DEF Covers
        <5>2. CASE bucket # None
          <6>1. bucket \in Datasets /\ e = unstash(o.dataset, bucket)
            BY <1>2, <5>2 DEF Merged
          <6>2. Grows(bucket, e)
            BY <1>2, <1>11, <6>1, UnstashGrows
          <6>. QED BY <6>2, GrowsKeeps DEF Covers
        <5>. QED BY <5>1, <5>2
      <4>. HIDE DEF e
      <4>4. \A j \in DOMAIN cmds : SentPut(cmds', j) => Covers(now, e, cmds'[j].data)
        <5>. SUFFICES ASSUME NEW j \in DOMAIN cmds, SentPut(cmds', j)
                      PROVE  Covers(now, e, cmds'[j].data)
          OBVIOUS
        <5>1. SentPut(cmds, j) /\ i < j /\ cmds'[j].data = cmds[j].data
          BY <1>7
        <5>2. Covers(now, o.dataset, cmds[j].data)
          BY <2>1, <4>1, <5>1 DEF ObjectSafe, SavedBehind
        <5>3. o.dataset \in Datasets /\ cmds[j].data \in Datasets \cup {None}
          BY <1>2, <1>11
        <5>. HIDE DEF o
        <5>. QED BY <4>2, <5>1, <5>2, <5>3, KeepsCovers
      <4>5. HasAll(now, e, bucket', cmds')
        BY <1>5, <4>1, <4>3, <4>4 DEF HasAll
      <4>. QED BY <4>1, <4>5 DEF e
    <3>. QED BY <3>1, <3>2
  <2>4. SavedBehind(now, current, o, cmds')
    <3>1. \A k \in DOMAIN cmds : Loading(cmds', current, k, "sent") => Loading(cmds, current, k, "sent")
      BY <1>4, <1>5 DEF Loading
    <3>. QED BY <1>5, <1>7, <2>1, <3>1 DEF ObjectSafe, SavedBehind
  <2>. QED BY <2>2, <2>3, <2>4 DEF ObjectSafe
<1>. QED BY <1>1, <1>9, <1>10, <1>11 DEF SInv

LEMMA FaultSafe == ASSUME "get" \notin FailOps, IInv, SInv, Fault PROVE SInv'
<1>1. PICK i \in DOMAIN cmds, outcome \in {"failed", "lost"} :
        /\ outcome = "failed" => cmds[i].op \in FailOps
        /\ cmds' = [cmds EXCEPT ![i].state = outcome, ![i].data = None]
        /\ UNCHANGED <<now, insts, current, bucket>>
  BY DEF Fault
<1>. DEFINE c == cmds[i]
            y == Carried(c, outcome, None)
<1>2. c \in Cmds /\ cmds \in Seq(Cmds)
  BY Typed DEF IInv
<1>3. cmds' = [cmds EXCEPT ![i] = y]
  BY <1>1, Zenon DEF Carried
<1>4. y \in Cmds /\ y.op = c.op /\ y.inst = c.inst /\ (y.live <=> c.live) /\ y.state = outcome
  <2>. HIDE DEF c
  <2>. QED BY <1>2, CarriedCmd
<1>. HIDE DEF y
<1>5. outcome \notin {"sent", "done"}
  OBVIOUS
<1>6. /\ SavesGrow(now, bucket, cmds')
      /\ current # 0 => ObjectSafe(now, current, insts[current], bucket, cmds')
  BY <1>2, <1>3, <1>4, <1>5, EditedFewer DEF SInv
<1>7. NoFailedLoad(cmds')
  <2>1. /\ DOMAIN cmds' = DOMAIN cmds /\ cmds'[i] = y
        /\ \A k \in DOMAIN cmds : k # i => cmds'[k] = cmds[k]
    BY <1>2, <1>3, <1>4, EditedCmds
  <2>2. y.op = "get" => y.state # "failed"
    BY <1>1, <1>4
  <2>. QED BY <2>1, <2>2 DEF SInv, NoFailedLoad
<1>. QED BY <1>1, <1>6, <1>7 DEF SInv

\* Only the load state and the dataset of an object matter.
LEMMA ObjectSame ==
    ASSUME NEW t, NEW n, NEW o, NEW z, NEW b, NEW cs, ObjectSafe(t, n, o, b, cs),
           z.dataset = o.dataset, z.load = "loaded" => o.load = "loaded"
    PROVE  ObjectSafe(t, n, z, b, cs)
BY DEF ObjectSafe, LoadedHasAll, ReadHasAll, SavedBehind

LEMMA RemovedNoFailed ==
    ASSUME NEW cs \in Seq(Cmds), NEW i \in DOMAIN cs, NoFailedLoad(cs)
    PROVE  NoFailedLoad(RemoveAt(cs, i))
<1>. DEFINE ds == RemoveAt(cs, i)
<1>1. Len(cs) \in Nat /\ DOMAIN cs = 1 .. Len(cs)
  OBVIOUS
<1>2. /\ DOMAIN ds = 1 .. (Len(cs) - 1)
      /\ \A k \in 1 .. (Len(cs) - 1) : ds[k] = IF k < i THEN cs[k] ELSE cs[k + 1]
  BY RemovedAt
<1>. HIDE DEF ds
<1>3. \A k \in DOMAIN ds : \E j \in DOMAIN cs : ds[k] = cs[j]
  <2>1. \A k \in 1 .. (Len(cs) - 1) : k \in DOMAIN cs /\ k + 1 \in DOMAIN cs
    BY <1>1
  <2>. QED BY <1>2, <2>1
<1>4. NoFailedLoad(ds)
  BY <1>3 DEF NoFailedLoad
<1>. QED BY <1>4 DEF ds

LEMMA AnsweredSafe == ASSUME IInv, SInv, Answered PROVE SInv'
<1>1. PICK i \in DOMAIN cmds :
        /\ cmds[i].state \in {"done", "failed"}
        /\ cmds' = RemoveAt(cmds, i)
        /\ insts' = CASE cmds[i].live /\ cmds[i].op = "get" ->
                            [insts EXCEPT ![cmds[i].inst] = LoadDone(@, cmds[i].data)]
                      [] cmds[i].live /\ cmds[i].op = "put" ->
                            [insts EXCEPT ![cmds[i].inst] =
                                IF cmds[i].state = "failed"
                                THEN SaveFailed(@) ELSE SaveDone(@, cmds[i].at)]
                      [] OTHER -> insts
        /\ UNCHANGED <<now, current, bucket>>
  BY DEF Answered
<1>. DEFINE n == cmds[i].inst
            o == insts[current]
<1>2. cmds \in Seq(Cmds) /\ cmds[i] \in Cmds /\ bucket \in Datasets \cup {None}
      /\ insts \in Seq(Insts) /\ cmds[i].at \in Times /\ cmds[i].data \in Datasets \cup {None}
      /\ (current # 0 => current \in DOMAIN insts /\ o \in Insts)
  BY Typed, CmdParts DEF IInv
<1>3. ASSUME current # 0 PROVE ObjectSafe(now, current, insts'[current], bucket, cmds)
  <2>1. ObjectSafe(now, current, o, bucket, cmds)
    BY <1>3 DEF SInv
  <2>2. CASE cmds[i].live /\ cmds[i].op = "get" /\ n = current
    <3>. DEFINE c == cmds[i].data
                z == LoadDone(o, c)
    <3>1. insts'[current] = z
      BY <1>1, <1>2, <1>3, <2>2
    <3>2. z \in Insts /\ z.dataset = Merged(o.dataset, c)
      BY <1>2, <1>3, LoadedObject
    <3>. HIDE DEF z
    <3>3. HasAll(now, z.dataset, bucket, cmds)
      <4>1. Loading(cmds, current, i, "done")
        BY <1>1, <2>2 DEF Loading, SInv, NoFailedLoad
      <4>. QED BY <2>1, <3>2, <4>1 DEF ObjectSafe, ReadHasAll
    <3>4. Keeps(now, z.dataset, o.dataset)
      <4>1. o.dataset \in Datasets
        BY <1>2, <1>3, InstParts
      <4>. QED BY <1>2, <3>2, <4>1, MergedType, GrowsKeeps
    <3>5. ReadHasAll(now, current, z, bucket, cmds) /\ SavedBehind(now, current, z, cmds)
      BY <1>2, <1>3, <2>1, <3>2, <3>4, ObjectKept DEF ObjectSafe
    <3>. QED BY <3>1, <3>3, <3>5 DEF ObjectSafe, LoadedHasAll
  <2>3. CASE ~(cmds[i].live /\ cmds[i].op = "get" /\ n = current)
    <3>1. insts'[current] = o \/ insts'[current] = SaveFailed(o)
          \/ insts'[current] = SaveDone(o, cmds[i].at)
      <4>1. CASE cmds[i].live /\ cmds[i].op = "get"
        <5>1. insts' = [insts EXCEPT ![n] = LoadDone(@, cmds[i].data)] /\ n # current
          BY <1>1, <2>3, <4>1
        <5>. HIDE DEF n
        <5>. QED BY <1>2, <1>3, <5>1
      <4>2. CASE cmds[i].live /\ cmds[i].op = "put"
        <5>. DEFINE z(p) == IF cmds[i].state = "failed" THEN SaveFailed(p) ELSE SaveDone(p, cmds[i].at)
        <5>1. insts' = [insts EXCEPT ![n] = z(insts[n])]
          BY <1>1, <4>2
        <5>2. z(o) = SaveFailed(o) \/ z(o) = SaveDone(o, cmds[i].at)
          OBVIOUS
        <5>. HIDE DEF n, z
        <5>3. insts'[current] = o \/ insts'[current] = z(o)
          BY <1>2, <1>3, <5>1
        <5>. QED BY <5>2, <5>3
      <4>3. CASE ~(cmds[i].live /\ cmds[i].op \in {"get", "put"})
        BY <1>1, <4>3
      <4>. QED BY <4>1, <4>2, <4>3
    <3>2. \A z \in {SaveFailed(o), SaveDone(o, cmds[i].at)} : z.load = o.load /\ z.dataset = o.dataset
      BY <1>2, <1>3, SavedObject
    <3>. HIDE DEF o
    <3>. QED BY <2>1, <3>1, <3>2, ObjectSame
  <2>. QED BY <2>2, <2>3
<1>4. /\ SavesGrow(now, bucket, cmds') /\ NoFailedLoad(cmds')
      /\ current # 0 => ObjectSafe(now, current, insts'[current], bucket, cmds')
  BY <1>1, <1>2, <1>3, RemovedFewer, RemovedNoFailed DEF SInv
<1>. QED BY <1>1, <1>4 DEF SInv

LEMMA TimesOutSafe == ASSUME IInv, SInv, TimesOut PROVE SInv'
<1>1. PICK i \in DOMAIN cmds :
        /\ cmds' = IF cmds[i].state = "lost" THEN RemoveAt(cmds, i)
                   ELSE [cmds EXCEPT ![i].live = FALSE]
        /\ insts' = CASE cmds[i].op = "get" ->
                            [insts EXCEPT ![cmds[i].inst].load = "waiting",
                                          ![cmds[i].inst].loadLast = now]
                      [] cmds[i].op = "put" ->
                            [insts EXCEPT ![cmds[i].inst] = SaveFailed(@)]
                      [] OTHER -> insts
        /\ UNCHANGED <<now, current, bucket>>
  BY DEF TimesOut
<1>. DEFINE n == cmds[i].inst
            o == insts[current]
            y == Abandoned(cmds[i])
<1>2. cmds \in Seq(Cmds) /\ cmds[i] \in Cmds /\ insts \in Seq(Insts) /\ now \in Times
      /\ (current # 0 => current \in DOMAIN insts /\ o \in Insts)
  BY Typed DEF IInv
<1>3. y \in Cmds /\ y.inst = cmds[i].inst /\ y.op = cmds[i].op /\ ~y.live
      /\ y.state = cmds[i].state /\ y.data = cmds[i].data
  BY <1>2, AbandonedCmd
<1>4. cmds' = RemoveAt(cmds, i) \/ cmds' = [cmds EXCEPT ![i] = y]
  BY <1>1 DEF Abandoned
<1>. HIDE DEF y
<1>5. ASSUME current # 0 PROVE ObjectSafe(now, current, insts'[current], bucket, cmds)
  <2>1. ObjectSafe(now, current, o, bucket, cmds)
    BY <1>5 DEF SInv
  <2>2. insts'[current] \in {o, Waited(o), SaveFailed(o)}
    <3>1. CASE cmds[i].op = "get"
      <4>1. insts' = [insts EXCEPT ![n].load = "waiting", ![n].loadLast = now]
        BY <1>1, <3>1
      <4>. HIDE DEF n
      <4>2. n = current => insts'[current] = Waited(o)
        BY <1>2, <1>5, <4>1, Zenon DEF Waited
      <4>3. n # current => insts'[current] = o
        BY <1>2, <1>5, <4>1
      <4>. QED BY <4>2, <4>3
    <3>2. CASE cmds[i].op = "put"
      <4>1. insts' = [insts EXCEPT ![n] = SaveFailed(insts[n])]
        BY <1>1, <3>2
      <4>. HIDE DEF n
      <4>. QED BY <1>2, <1>5, <4>1
    <3>3. CASE cmds[i].op \notin {"get", "put"}
      BY <1>1, <3>3
    <3>. QED BY <3>1, <3>2, <3>3
  <2>3. \A z \in {Waited(o), SaveFailed(o)} :
           (z.load = "loaded" => o.load = "loaded") /\ z.dataset = o.dataset
    BY <1>2, <1>5, SavedObject, TimedOutObject
  <2>. HIDE DEF o
  <2>. QED BY <2>1, <2>2, <2>3, ObjectSame
<1>6. /\ SavesGrow(now, bucket, cmds')
      /\ current # 0 => ObjectSafe(now, current, insts'[current], bucket, cmds')
  <2>1. CASE cmds' = RemoveAt(cmds, i)
    BY <1>2, <1>5, <2>1, RemovedFewer DEF SInv
  <2>2. CASE cmds' = [cmds EXCEPT ![i] = y]
    BY <1>2, <1>3, <1>5, <2>2, EditedFewer DEF SInv
  <2>. QED BY <1>4, <2>1, <2>2
<1>7. NoFailedLoad(cmds')
  <2>1. CASE cmds' = RemoveAt(cmds, i)
    BY <1>2, <2>1, RemovedNoFailed DEF SInv
  <2>2. CASE cmds' = [cmds EXCEPT ![i] = y]
    <3>1. /\ DOMAIN cmds' = DOMAIN cmds /\ cmds'[i] = y
          /\ \A k \in DOMAIN cmds : k # i => cmds'[k] = cmds[k]
      BY <1>2, <1>3, <2>2, EditedCmds
    <3>. QED BY <1>3, <3>1 DEF SInv, NoFailedLoad
  <2>. QED BY <1>4, <2>1, <2>2
<1>. QED BY <1>1, <1>6, <1>7 DEF SInv

LEMMA CrashSafe == ASSUME IInv, SInv, Crash PROVE SInv'
<1>1. current' = 0 /\ cmds' = Orphaned(cmds) /\ UNCHANGED <<now, bucket>>
  BY DEF Crash
<1>2. cmds \in Seq(Cmds) /\ \A i \in DOMAIN cmds : cmds[i] \in Cmds
  BY Typed DEF IInv
<1>3. PICK n \in Nat : \E at \in [1 .. n -> Remains(cmds)] :
             /\ \A i, j \in 1 .. n : i < j => at[i] < at[j]
             /\ Orphaned(cmds) \in Seq(Cmds) /\ DOMAIN Orphaned(cmds) = 1 .. n
             /\ \A i \in 1 .. n : Orphaned(cmds)[i] = Orphan(cmds[at[i]])
  BY <1>2, OrphanedCmds
<1>4. PICK at \in [1 .. n -> Remains(cmds)] :
             /\ \A i, j \in 1 .. n : i < j => at[i] < at[j]
             /\ Orphaned(cmds) \in Seq(Cmds) /\ DOMAIN Orphaned(cmds) = 1 .. n
             /\ \A i \in 1 .. n : Orphaned(cmds)[i] = Orphan(cmds[at[i]])
  BY <1>3
<1>5. \A k \in 1 .. n :
         /\ at[k] \in DOMAIN cmds /\ cmds[at[k]].state = "sent" /\ cmds[at[k]] \in Cmds
         /\ cmds'[k].op = cmds[at[k]].op /\ cmds'[k].state = "sent"
         /\ cmds'[k].data = cmds[at[k]].data /\ ~cmds'[k].live
  <2>1. \A k \in 1 .. n : at[k] \in DOMAIN cmds /\ cmds[at[k]].state = "sent" /\ cmds[at[k]] \in Cmds
    BY <1>2 DEF Remains
  <2>. QED BY <1>1, <1>4, <2>1, OrphanCmd
<1>6. DOMAIN cmds' = 1 .. n
  BY <1>1, <1>4
<1>8. SavesGrow(now, bucket, cmds')
  <2>1. \A i, j \in DOMAIN cmds' : i < j => at[i] < at[j]
    BY <1>4, <1>6
  <2>2. \A k \in DOMAIN cmds' : SentPut(cmds', k) =>
           at[k] \in DOMAIN cmds /\ SentPut(cmds, at[k]) /\ cmds[at[k]].data = cmds'[k].data
    BY <1>5, <1>6 DEF SentPut
  <2>. QED BY <2>1, <2>2 DEF SInv, SavesGrow
<1>9. NoFailedLoad(cmds')
  BY <1>5, <1>6 DEF NoFailedLoad
<1>. QED BY <1>1, <1>8, <1>9 DEF SInv

LEMMA ClockSafe == ASSUME IInv, SInv, Clock PROVE SInv'
<1>1. now' = now + 1 /\ now \in Nat /\ UNCHANGED <<bucket, cmds, insts, current>>
  BY Typed DEF IInv, Clock
<1>2. \A e, c : Covers(now, e, c) => Covers(now', e, c)
  BY <1>1, CoversLater
<1>3. \A d : HasAll(now, d, bucket, cmds) => HasAll(now', d, bucket, cmds)
  BY <1>2 DEF HasAll
<1>4. SavesGrow(now', bucket, cmds)
  BY <1>2 DEF SInv, SavesGrow
<1>5. current # 0 => ObjectSafe(now', current, insts[current], bucket, cmds)
  BY <1>2, <1>3 DEF SInv, ObjectSafe, LoadedHasAll, ReadHasAll, SavedBehind
<1>. QED BY <1>1, <1>4, <1>5 DEF SInv

LEMMA InitSafe == Init => SInv
BY DEF Init, SInv, SavesGrow, NoFailedLoad

LEMMA NextSafe == ASSUME "get" \notin FailOps, IInv, SInv, [Next]_vars PROVE SInv'
<1>1. CASE UNCHANGED vars
  BY <1>1, SameSafe DEF vars
<1>2. CASE Start
  BY <1>2, SameSafe DEF Start
<1>3. CASE Reset
  BY <1>3 DEF Reset, SInv
<1>4. CASE \E persist \in BOOLEAN : EnableUnknown(persist)
  BY <1>4, SameSafe DEF EnableUnknown
<1>5. CASE \E r \in Requests, end \in Times : ValueRequest(r, end)
  BY <1>5, SameSafe DEF ValueRequest
<1>6. CASE Next
  BY <1>2, <1>3, <1>4, <1>5, <1>6, CrashSafe, ClockSafe, EnableKnownSafe, BoundSafe, DisableSafe,
     DataSafe, AggTickSafe, StashStepSafe, FaultSafe, AnsweredSafe, TimesOutSafe
  DEF Next
<1>. QED BY <1>1, <1>6

\* While the stash answers no load with an error, which load() would take for an
\* empty bucket, the data it holds are replaced only by data that have all of
\* them, save those that have expired: through crashes, resets, loads and saves
\* that time out, get lost or are answered late, whatever their order.
THEOREM StashOnlyGrows == ASSUME "get" \notin FailOps PROVE Spec => NoClobber
<1>. DEFINE A == bucket # None /\ bucket' # None =>
          \A p \in Periods :
              \/ /\ bucket.reporting[p] \subseteq bucket'.reporting[p]
                 /\ bucket.data[p] <= bucket'.data[p]
              \/ Retention > 0 /\ p < now - Retention
<1>1. Spec => []SInv
  BY InitSafe, NextSafe, Invariant, PTL DEF Spec
<1>2. ASSUME IInv, SInv, [Next]_vars PROVE A
  <2>1. CASE StashStep
    <3>1. PICK i \in DOMAIN cmds :
              /\ Carries(i)
              /\ bucket' = CASE cmds[i].op = "put" -> cmds[i].data
                             [] cmds[i].op = "delete" -> None
                             [] OTHER -> bucket
      BY <2>1 DEF StashStep
    <3>2. CASE cmds[i].op = "put"
      <4>1. SentPut(cmds, i) /\ bucket' = cmds[i].data
        BY <3>1, <3>2 DEF Carries, SentPut
      <4>2. Covers(now, bucket', bucket)
        BY <1>2, <4>1 DEF SInv, SavesGrow
      <4>. QED BY <4>2 DEF Covers, Keeps, Expired
    <3>3. CASE cmds[i].op # "put"
      <4>1. bucket' = bucket \/ bucket' = None
        BY <3>1, <3>3
      <4>. QED BY <1>2, <4>1, Typed, DatasetParts DEF IInv
    <3>. QED BY <3>2, <3>3
  <2>2. CASE bucket' = bucket
    BY <1>2, <2>2, Typed, DatasetParts DEF IInv
  <2>3. StashStep \/ bucket' = bucket
    BY <1>2 DEF Next, vars, Start, Crash, Clock, EnableUnknown, EnableKnown, Bound, Disable, Reset,
       Data, ValueRequest, aggTick, Fault, Answered, TimesOut
  <2>. QED BY <2>1, <2>2, <2>3
<1>3. ASSUME IInv, SInv, [Next]_vars PROVE [A]_vars
  BY <1>2, <1>3
<1>4. Spec => [][A]_vars
  BY <1>1, <1>3, Invariant, PTL DEF Spec
<1>. QED BY <1>4 DEF NoClobber

=============================================================================
