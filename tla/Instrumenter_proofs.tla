------------------------- MODULE Instrumenter_proofs -------------------------
(***************************************************************************)
(* Proofs about the instrumenter service, for any number of                *)
(* instrumentations, programs, columns, ticks, failures and restarts: the  *)
(* type invariant, that acknowledgements tell the truth, that whoever      *)
(* waits in the proc cache waits for a refresh, and that every value that  *)
(* a tick asks for makes exactly one data message.                         *)
(***************************************************************************)
EXTENDS Instrumenter, FiniteSetTheorems, TLAPS

-----------------------------------------------------------------------------
(* The inductive invariant.                                                *)

\* The counts of the zfs cache are those of the instrumentations that are
\* enabled: column() never takes a consumer away that is not there.
Counted == \A c \in Cols : cache["zfs"].columns[c] = Readers(Enabled, c)

OfKind(kind) == {r \in Requests : Backend[r[1]] = kind}

\* A request is in one place only: in the one of the two caches it is for,
\* waiting or (zfs only) to be answered by the refresh that runs.
Placed ==
    /\ cache["zfs"].callbacks \subseteq asked \cap OfKind("zfs")
    /\ cache["zfs"].taken \subseteq asked \cap OfKind("zfs")
    /\ cache["zfs"].callbacks \cap cache["zfs"].taken = {}
    /\ ~cache["zfs"].refreshing => cache["zfs"].taken = {}
    /\ cache["proc"].callbacks \subseteq asked \cap OfKind("proc")
    /\ cache["proc"].taken = {}
Outstanding == cache["zfs"].callbacks \cup cache["zfs"].taken \cup cache["proc"].callbacks

\* What was asked for and is in no cache has been sent, once.
SentOnce ==
    \A i \in Insts : \A s \in Seconds :
        sent[i][s] = IF <<i, s>> \in asked \ Outstanding THEN 1 ELSE 0

\* Ticks ask for the present, and do so once.
AskedPast == \A r \in asked : r[2] <= now /\ (r[2] = now => insLast = now)

IInv == TypeOK /\ Counted /\ Placed /\ SentOnce /\ AskedPast /\ AckTruth /\ ProcAttended

-----------------------------------------------------------------------------
(* Counting.                                                               *)

LEMMA ReadersNat == ASSUME NEW is \in SUBSET Insts, NEW c PROVE Readers(is, c) \in Nat
<1>1. IsFiniteSet({i \in is \cap On("zfs") : c \in Uses[i]})
  BY FS_Subset, InstrumenterAssumption
<1> QED BY <1>1, FS_CardinalityType DEF Readers

LEMMA ReadersNone == ASSUME NEW c PROVE Readers({}, c) = 0
BY FS_EmptySet DEF Readers

\* The consumers of two sets without a common member add up.
LEMMA ReadersAdd ==
    ASSUME NEW is \in SUBSET Insts, NEW js \in SUBSET Insts, is \cap js = {}, NEW c
    PROVE  Readers(is \cup js, c) = Readers(is, c) + Readers(js, c)
<1> DEFINE R(ks) == {i \in ks \cap On("zfs") : c \in Uses[i]}
<1>1. IsFiniteSet(R(is)) /\ IsFiniteSet(R(js))
  BY FS_Subset, InstrumenterAssumption
<1>2. R(is \cup js) = R(is) \cup R(js) /\ R(is) \cap R(js) = {}
  OBVIOUS
<1>3. Cardinality(R(is) \cup R(js)) = Cardinality(R(is)) + Cardinality(R(js)) - Cardinality({})
  BY <1>1, <1>2, FS_Union
<1>4. Cardinality({}) = 0
  BY FS_EmptySet
<1>5. Cardinality(R(is)) \in Nat /\ Cardinality(R(js)) \in Nat
  BY <1>1, FS_CardinalityType
<1> QED BY <1>2, <1>3, <1>4, <1>5 DEF Readers

LEMMA ReadersLess ==
    ASSUME NEW is \in SUBSET Insts, NEW js \in SUBSET is, NEW c
    PROVE  Readers(is, c) - Readers(js, c) = Readers(is \ js, c)
<1>1. (is \ js) \cap js = {} /\ is \ js \in SUBSET Insts /\ js \in SUBSET Insts
  OBVIOUS
<1>2. Readers((is \ js) \cup js, c) = Readers(is \ js, c) + Readers(js, c)
  BY <1>1, ReadersAdd
<1>3. (is \ js) \cup js = is
  OBVIOUS
<1>4. Readers(is, c) = Readers(is \ js, c) + Readers(js, c)
  BY <1>2, <1>3, Zenon
<1>5. Readers(is \ js, c) \in Nat /\ Readers(js, c) \in Nat
  BY <1>1, ReadersNat
<1> QED BY <1>4, <1>5

\* Programs can be counted.
LEMMA Countable ==
    ASSUME NEW S, S \subseteq Progs \/ S \subseteq Insts \X Progs
    PROVE  Cardinality(S) \in Nat
<1>1. IsFiniteSet(Progs) /\ IsFiniteSet(Insts \X Progs)
  BY InstrumenterAssumption, FS_Product
<1>2. IsFiniteSet(S)
  BY <1>1, FS_Subset
<1> QED BY <1>2, FS_CardinalityType

-----------------------------------------------------------------------------
(* What the steps do to the caches.                                        *)

\* Commands change the counts of the zfs cache, and may make it stale.
LEMMA RecountKeeps ==
    ASSUME TypeOK, Placed, SentOnce, AskedPast, ProcAttended,
           UNCHANGED <<now, insLast, asked, sent>>,
           NEW count \in [Cols -> Nat],
           cache' = [cache EXCEPT !["zfs"] = Recount(@, count)]
    PROVE  /\ cache' \in [Caches -> Cache]
           /\ cache'["zfs"].columns = count
           /\ Placed' /\ SentOnce' /\ AskedPast' /\ ProcAttended'
<1> DEFINE z == cache["zfs"]
           n == Recount(z, count)
<1>1. z \in Cache /\ cache["proc"] \in Cache
  BY DEF TypeOK, Caches
<1>2. n \in Cache /\ n.columns = count /\ n.callbacks = z.callbacks /\ n.taken = z.taken
      /\ n.refreshing = z.refreshing
  BY <1>1 DEF Recount, Cache
<1>3. cache'["zfs"] = n /\ cache'["proc"] = cache["proc"]
  BY DEF TypeOK, Caches
<1>4. cache' \in [Caches -> Cache]
  BY <1>1, <1>2 DEF TypeOK, Caches
<1> HIDE DEF n
<1>5. Outstanding' = Outstanding
  BY <1>2, <1>3 DEF Outstanding
<1>6. Placed' /\ AskedPast' /\ ProcAttended'
  BY <1>2, <1>3 DEF Placed, AskedPast, ProcAttended
<1>7. SentOnce'
  BY <1>5 DEF SentOnce
<1> QED BY <1>2, <1>3, <1>4, <1>6, <1>7

\* Nothing of what is about requests changes.
LEMMA RequestsKept ==
    ASSUME Placed, SentOnce, AskedPast, ProcAttended,
           UNCHANGED <<now, insLast, asked, sent, cache>>
    PROVE  Placed' /\ SentOnce' /\ AskedPast' /\ ProcAttended'
<1>1. Outstanding' = Outstanding
  BY DEF Outstanding
<1> QED BY <1>1 DEF Placed, SentOnce, AskedPast, ProcAttended

\* Asking and refreshing keep a cache a cache.
LEMMA WaitKeeps ==
    ASSUME NEW c \in Cache, NEW reqs \in SUBSET Requests
    PROVE  /\ Wait(c, reqs) \in Cache
           /\ Wait(c, reqs).columns = c.columns
           /\ Wait(c, reqs).callbacks = c.callbacks \cup reqs
           /\ Wait(c, reqs).taken = c.taken
           /\ Wait(c, reqs).refreshing = c.refreshing
BY DEF Wait, Cache

LEMMA RefreshKeeps ==
    ASSUME NEW c \in Cache, NEW k \in Caches, now \in Seconds
    PROVE  /\ Refresh(k, c) \in Cache
           /\ Refresh(k, c).columns = c.columns
           /\ Refresh(k, c).refreshing = TRUE
           /\ k = "zfs" => Refresh(k, c).taken = c.callbacks /\ Refresh(k, c).callbacks = {}
           /\ k # "zfs" => Refresh(k, c).taken = {} /\ Refresh(k, c).callbacks = c.callbacks
BY DEF Refresh, Cache

\* Whoever asks is put in exactly one place of the cache.
LEMMA QueuedPlaces ==
    ASSUME cache \in [Caches -> Cache], NEW k \in Caches, NEW reqs \in SUBSET Requests,
           now \in Seconds, cache[k].refreshing \/ cache[k].taken = {},
           k = "proc" => cache[k].taken = {} /\ (cache[k].callbacks # {} => cache[k].refreshing),
           cache[k].callbacks \cap cache[k].taken = {},
           reqs \cap (cache[k].callbacks \cup cache[k].taken) = {},
           NEW c \in Queued(k, reqs)
    PROVE  /\ c \in Cache /\ c.columns = cache[k].columns
           /\ c.callbacks \cup c.taken = cache[k].callbacks \cup cache[k].taken \cup reqs
           /\ c.callbacks \cap c.taken = {}
           /\ c.refreshing \/ c.taken = {}
           /\ k = "proc" => c.taken = {} /\ (c.callbacks # {} => c.refreshing)
<1> DEFINE o == cache[k]
<1>1. o \in Cache
  OBVIOUS
<1>2. CASE o.refreshing \/ reqs = {}
  <2>1. c = Wait(o, reqs)
    BY <1>2 DEF Queued
  <2> HIDE DEF o
  <2>2. /\ c \in Cache /\ c.columns = o.columns /\ c.callbacks = o.callbacks \cup reqs
        /\ c.taken = o.taken /\ c.refreshing = o.refreshing
    BY <1>1, <2>1, WaitKeeps, Zenon
  <2> USE DEF o
  <2> QED BY <1>2, <2>2
<1>3. CASE ~(o.refreshing \/ reqs = {})
  <2>1. PICK r \in reqs : c = Wait(Refresh(k, Wait(o, {r})), reqs \ {r})
    BY <1>3 DEF Queued
  <2> DEFINE w == Wait(o, {r})
             f == Refresh(k, w)
  <2>2. {r} \in SUBSET Requests /\ reqs \ {r} \in SUBSET Requests
    OBVIOUS
  <2> HIDE DEF o
  <2>3. w \in Cache /\ w.columns = o.columns /\ w.callbacks = o.callbacks \cup {r}
    BY <1>1, <2>2, WaitKeeps, Zenon
  <2> HIDE DEF w
  <2>4. /\ f \in Cache /\ f.columns = w.columns /\ f.refreshing = TRUE
        /\ k = "zfs" => f.taken = w.callbacks /\ f.callbacks = {}
        /\ k # "zfs" => f.taken = {} /\ f.callbacks = w.callbacks
    BY <2>3, RefreshKeeps, Zenon
  <2>5. c = Wait(f, reqs \ {r})
    BY <2>1 DEF w
  <2> HIDE DEF f
  <2>6. /\ c \in Cache /\ c.columns = f.columns /\ c.refreshing = f.refreshing
        /\ c.taken = f.taken /\ c.callbacks = f.callbacks \cup (reqs \ {r})
    BY <2>2, <2>4, <2>5, WaitKeeps, Zenon
  <2> USE DEF o
  <2>7. o.taken = {}
    BY <1>3
  <2>8. r \notin o.callbacks /\ o.callbacks \cap reqs = {}
    OBVIOUS
  <2> HIDE DEF o
  <2>9. c.callbacks \cup c.taken = o.callbacks \cup reqs /\ c.callbacks \cap c.taken = {}
    BY <2>3, <2>4, <2>6, <2>8
  <2>10. c.columns = o.columns /\ c.refreshing /\ (k = "proc" => c.taken = {})
    BY <2>3, <2>4, <2>6
  <2> QED BY <2>6, <2>7, <2>9, <2>10 DEF o
<1> QED BY <1>2, <1>3

-----------------------------------------------------------------------------
(* The steps.                                                              *)

\* A fresh process satisfies the invariant, whatever came before.
LEMMA BlankGood ==
    ASSUME Blank, now' \in Seconds, up' \in BOOLEAN, lives' \in 0..MaxLives
    PROVE  IInv'
<1>1. 0 \in 0..GranularityMax
  BY InstrumenterAssumption
<1>2. EmptyCache \in Cache
  BY DEF EmptyCache, Cache
<1>3. cache'["zfs"] = EmptyCache /\ cache'["proc"] = EmptyCache
  BY DEF Blank, Caches
<1>4. Enabled' = {}
  BY DEF Blank, Enabled
<1>5. TypeOK'
  BY <1>1, <1>2 DEF TypeOK, Blank, NoProgs
<1>6. Counted'
  BY <1>3, <1>4, ReadersNone DEF Counted, EmptyCache
<1>7. Placed' /\ ProcAttended'
  BY <1>3 DEF Placed, ProcAttended, EmptyCache
<1>8. SentOnce' /\ AskedPast'
  BY DEF SentOnce, AskedPast, Blank
<1>9. AckTruth'
  BY <1>4 DEF AckTruth, Blank
<1> QED BY <1>5, <1>6, <1>7, <1>8, <1>9 DEF IInv

LEMMA PanicGood == ASSUME IInv, Panic PROVE IInv'
BY BlankGood DEF Panic, IInv, TypeOK

\* Whatever is disabled was counted, and is taken off the counts.
LEMMA DeinstrumentGood ==
    ASSUME IInv, NEW is \in SUBSET Enabled, Deinstrument(is), told' = told \ is,
           UNCHANGED <<process, now, insLast, asked, sent>>
    PROVE  IInv'
<1> DEFINE z == cache["zfs"]
           count == [c \in Cols |-> z.columns[c] - Readers(is, c)]
<1>1. Enabled \subseteq Insts /\ is \subseteq Insts
  BY DEF Enabled
<1>2. Enabled' = Enabled \ is
  BY DEF Deinstrument, Enabled
<1>3. \A c \in Cols : count[c] = Readers(Enabled \ is, c)
  BY <1>1, ReadersLess DEF IInv, Counted
<1>4. count \in [Cols -> Nat]
  BY <1>1, <1>3, ReadersNat
<1>5. cache' = [cache EXCEPT !["zfs"] = Recount(@, count)]
  BY DEF Deinstrument, RemoveColumns
<1> HIDE DEF count
<1>6. /\ cache' \in [Caches -> Cache] /\ cache'["zfs"].columns = count
      /\ Placed' /\ SentOnce' /\ AskedPast' /\ ProcAttended'
  BY <1>4, <1>5, RecountKeeps DEF IInv
<1>7. Counted'
  BY <1>2, <1>3, <1>6 DEF Counted
<1>8. AckTruth'
  BY <1>2 DEF AckTruth, IInv
<1>9. Cardinality((is \cap On("dtrace")) \X Progs) \in Nat
  BY <1>1, Countable
<1>10. TypeOK'
  <2>1. nenablings' \in Int
    BY <1>9 DEF Deinstrument, IInv, TypeOK
  <2>2. 0 \in 0..GranularityMax
    BY InstrumenterAssumption
  <2>3. insInstns' \in [Insts -> 0..GranularityMax]
    BY <2>2 DEF Deinstrument, IInv, TypeOK
  <2>4. cadDtr' \in [Insts -> [Progs -> {"none", "on", "null"}]]
    BY DEF Deinstrument, NoProgs, IInv, TypeOK
  <2> QED BY <1>6, <2>1, <2>3, <2>4 DEF IInv, TypeOK, process
<1> QED BY <1>6, <1>7, <1>8, <1>10 DEF IInv

\* What an accepted command adds.
LEMMA AcceptAdds ==
    ASSUME TypeOK, AckTruth, NEW i \in Insts, NEW g \in Grans, Accept(i, g)
    PROVE  /\ i \notin Enabled /\ Enabled' = Enabled \cup {i} /\ AckTruth'
           /\ insInstns' \in [Insts -> 0..GranularityMax] /\ told' \subseteq Insts
<1>1. g \in Nat /\ GranularityMax \in Nat /\ GranularityMax > 0
  BY InstrumenterAssumption
<1>2. Effective(g) \in 1..GranularityMax
  BY <1>1 DEF Accept, Acceptable, Effective
<1>3. insInstns'[i] = Effective(g) /\ \A j \in Insts \ {i} : insInstns'[j] = insInstns[j]
  BY DEF Accept, TypeOK
<1>4. i \notin Enabled /\ Enabled' = Enabled \cup {i}
  BY <1>2, <1>3 DEF Enabled, Accept
<1>5. insInstns' \in [Insts -> 0..GranularityMax]
  BY <1>2 DEF Accept, TypeOK
<1> QED BY <1>4, <1>5 DEF AckTruth, Accept, AckEnabled, TypeOK

LEMMA EnableGood == ASSUME IInv, NEW i \in Insts, NEW g \in Grans, EnableInstn(i, g) PROVE IInv'
<1> USE DEF IInv
<1>1. UNCHANGED <<up, lives, now, insLast, asked, sent>>
  BY DEF EnableInstn, process
<1>2. CASE Refuse(i, g)
  <2>1. Enabled' = Enabled /\ i \notin Enabled
    BY <1>2 DEF Enabled, Refuse
  <2>2. Placed' /\ SentOnce' /\ AskedPast' /\ ProcAttended'
    BY <1>1, <1>2, RequestsKept DEF Refuse
  <2>3. TypeOK' /\ AckTruth'
    BY <1>1, <1>2, <2>1 DEF Refuse, AckNotEnabled, TypeOK, AckTruth
  <2>4. Counted'
    BY <1>2, <2>1 DEF Refuse, Counted
  <2> QED BY <2>2, <2>3, <2>4
<1>3. CASE EnableAgain(i)
  <2>1. Enabled' = Enabled /\ i \in Enabled
    BY <1>3 DEF Enabled, EnableAgain
  <2>2. Placed' /\ SentOnce' /\ AskedPast' /\ ProcAttended'
    BY <1>1, <1>3, RequestsKept DEF EnableAgain
  <2>3. TypeOK' /\ AckTruth'
    BY <1>1, <1>3, <2>1 DEF EnableAgain, AckEnabled, TypeOK, AckTruth
  <2>4. Counted'
    BY <1>3, <2>1 DEF EnableAgain, Counted
  <2> QED BY <2>2, <2>3, <2>4
<1>4. CASE Accept(i, g) /\ UNCHANGED cache /\ Backend[i] # "zfs"
           /\ nenablings' \in Int /\ cadDtr' \in [Insts -> [Progs -> {"none", "on", "null"}]]
  <2>1. /\ Enabled' = Enabled \cup {i} /\ AckTruth'
        /\ insInstns' \in [Insts -> 0..GranularityMax] /\ told' \subseteq Insts
    BY <1>4, AcceptAdds
  <2>2. Placed' /\ SentOnce' /\ AskedPast' /\ ProcAttended'
    BY <1>1, <1>4, RequestsKept
  <2>3. Enabled' \cap On("zfs") = Enabled \cap On("zfs")
    BY <1>4, <2>1 DEF On
  <2>4. Counted'
    BY <1>4, <2>3 DEF Counted, Readers
  <2>5. TypeOK'
    BY <1>1, <1>4, <2>1 DEF TypeOK
  <2> QED BY <2>1, <2>2, <2>4, <2>5
<1>5. CASE EnableDTrace(i, g)
  <2>1. Cardinality(Progs) \in Nat
    BY Countable
  <2>2. nenablings' \in Int /\ cadDtr' \in [Insts -> [Progs -> {"none", "on", "null"}]]
    BY <1>5, <2>1 DEF EnableDTrace, TypeOK
  <2> QED BY <1>4, <1>5, <2>2 DEF EnableDTrace
<1>6. CASE EnableDTraceFails(i, g)
  <2>1. Enabled' = Enabled /\ i \notin Enabled
    BY <1>6 DEF Enabled, EnableDTraceFails
  <2>2. Placed' /\ SentOnce' /\ AskedPast' /\ ProcAttended'
    BY <1>1, <1>6, RequestsKept DEF EnableDTraceFails
  <2>3. PICK done \in SUBSET Progs :
           nenablings' = nenablings + Cardinality(done) - Cardinality(RolledBack(done))
    BY <1>6 DEF EnableDTraceFails
  <2>4. Cardinality(done) \in Nat /\ Cardinality(RolledBack(done)) \in Nat
    BY Countable DEF RolledBack
  <2>5. nenablings' \in Int
    BY <2>3, <2>4 DEF TypeOK
  <2>6. TypeOK' /\ AckTruth'
    BY <1>1, <1>6, <2>1, <2>5 DEF EnableDTraceFails, AckNotEnabled, TypeOK, AckTruth
  <2>7. Counted'
    BY <1>6, <2>1 DEF EnableDTraceFails, Counted
  <2> QED BY <2>2, <2>6, <2>7
<1>7. CASE EnableZfs(i, g)
  <2> DEFINE z == cache["zfs"]
             count == [c \in Cols |-> z.columns[c] + Readers({i}, c)]
  <2>1. /\ i \notin Enabled /\ Enabled' = Enabled \cup {i} /\ AckTruth'
        /\ insInstns' \in [Insts -> 0..GranularityMax] /\ told' \subseteq Insts
    BY <1>7, AcceptAdds DEF EnableZfs
  <2>2. Enabled \subseteq Insts /\ Enabled \cap {i} = {}
    BY <2>1 DEF Enabled
  <2>3. \A c \in Cols : count[c] = Readers(Enabled \cup {i}, c)
    BY <2>2, ReadersAdd DEF Counted
  <2>4. count \in [Cols -> Nat]
    BY <2>2, <2>3, ReadersNat
  <2>5. cache' = [cache EXCEPT !["zfs"] = Recount(@, count)]
    BY <1>7 DEF EnableZfs, AddColumns
  <2> HIDE DEF count
  <2>6. /\ cache' \in [Caches -> Cache] /\ cache'["zfs"].columns = count
        /\ Placed' /\ SentOnce' /\ AskedPast' /\ ProcAttended'
    BY <1>1, <2>4, <2>5, RecountKeeps
  <2>7. Counted'
    BY <2>1, <2>3, <2>6 DEF Counted
  <2>8. TypeOK'
    BY <1>1, <1>7, <2>1, <2>6 DEF TypeOK, EnableZfs
  <2> QED BY <2>1, <2>6, <2>7, <2>8
<1>8. CASE EnableProc(i, g)
  BY <1>4, <1>8 DEF EnableProc, TypeOK
<1> QED BY <1>2, <1>3, <1>5, <1>6, <1>7, <1>8 DEF EnableInstn

LEMMA DisableGood ==
    ASSUME IInv, NEW i \in Insts, DisableAbsent(i) \/ DisableInstn(i) \/ DisableBroken(i)
    PROVE  IInv'
<1>1. CASE DisableAbsent(i)
  <2>1. Enabled' = Enabled /\ i \notin Enabled
    BY <1>1 DEF Enabled, DisableAbsent
  <2>2. Placed' /\ SentOnce' /\ AskedPast' /\ ProcAttended'
    BY <1>1, RequestsKept DEF DisableAbsent, IInv
  <2>3. TypeOK' /\ AckTruth'
    BY <1>1, <2>1 DEF DisableAbsent, AckNotEnabled, TypeOK, AckTruth, IInv, process
  <2>4. Counted'
    BY <1>1, <2>1 DEF DisableAbsent, Counted, IInv
  <2> QED BY <2>2, <2>3, <2>4 DEF IInv
<1>2. CASE DisableInstn(i)
  BY <1>2, DeinstrumentGood DEF DisableInstn, Enabled, AckNotEnabled
<1>3. CASE DisableBroken(i)
  BY <1>3, PanicGood DEF DisableBroken
<1> QED BY <1>1, <1>2, <1>3

LEMMA ResetGood == ASSUME IInv, CfgReset PROVE IInv'
<1>1. CASE \E i \in Enabled : Broken(i)
  BY <1>1, PanicGood DEF CfgReset
<1>2. CASE ~\E i \in Enabled : Broken(i)
  <2>1. told' = told \ Enabled
    BY <1>2 DEF CfgReset, IInv, AckTruth
  <2> QED BY <1>2, <2>1, DeinstrumentGood DEF CfgReset
<1> QED BY <1>1, <1>2

LEMMA ClockGood == ASSUME IInv, Clock PROVE IInv'
<1>1. Outstanding' = Outstanding /\ Enabled' = Enabled
  BY DEF Clock, Outstanding, Enabled
<1>2. now \in Nat /\ now' = now + 1 /\ now' \in Seconds
  BY InstrumenterAssumption DEF Clock, IInv, TypeOK, Seconds
<1>3. AskedPast'
  <2>1. \A r \in asked : r[2] \in Nat /\ r[2] <= now
    BY InstrumenterAssumption DEF IInv, AskedPast, TypeOK, Requests, Seconds
  <2> QED BY <1>2, <2>1 DEF AskedPast, Clock
<1>4. TypeOK' /\ AckTruth'
  BY <1>1, <1>2 DEF Clock, IInv, TypeOK, AckTruth, process
<1>5. Counted' /\ Placed' /\ SentOnce' /\ ProcAttended'
  BY <1>1 DEF Clock, IInv, Counted, Placed, SentOnce, ProcAttended
<1> QED BY <1>3, <1>4, <1>5 DEF IInv

LEMMA StartGood == ASSUME IInv, Start PROVE IInv'
<1>1. Outstanding' = Outstanding /\ Enabled' = Enabled
  BY DEF Start, Outstanding, Enabled
<1>2. lives' \in 0..MaxLives
  BY InstrumenterAssumption DEF Start, IInv, TypeOK
<1>3. TypeOK' /\ AckTruth'
  BY <1>1, <1>2 DEF Start, IInv, TypeOK, AckTruth
<1>4. Counted' /\ Placed' /\ SentOnce' /\ AskedPast' /\ ProcAttended'
  BY <1>1 DEF Start, IInv, Counted, Placed, SentOnce, AskedPast, ProcAttended
<1> QED BY <1>3, <1>4 DEF IInv

\* Data messages for requests that no cache holds any longer, or never did.
LEMMA SendTypes ==
    ASSUME TypeOK, NEW reqs, Send(reqs)
    PROVE  /\ sent' \in [Insts -> [Seconds -> Nat]]
           /\ \A i \in Insts : \A s \in Seconds :
                 sent'[i][s] = sent[i][s] + (IF <<i, s>> \in reqs THEN 1 ELSE 0)
BY DEF Send, TypeOK

\* A refresh that ends, whether it has data or not, answers those it leaves
\* out of the cache.
LEMMA AnswerGood ==
    ASSUME IInv, NEW k \in Caches, cache[k].refreshing, NEW c \in Cache,
           Send(Answerable(k)),
           cache' = [cache EXCEPT ![k] = c],
           c.columns = cache[k].columns, c.taken = {}, ~c.refreshing,
           c.callbacks = cache[k].callbacks \ Answerable(k),
           UNCHANGED <<process, now, insLast, insInstns, cadDtr, nenablings, told, asked>>
    PROVE  IInv'
<1> DEFINE ans == Answerable(k)
<1>1. cache'[k] = c /\ \A l \in Caches \ {k} : cache'[l] = cache[l]
  BY DEF IInv, TypeOK
<1>2. Outstanding' = Outstanding \ ans
  <2>1. CASE k = "zfs"
    BY <1>1, <2>1 DEF Outstanding, Answerable, Caches, IInv, Placed, OfKind
  <2>2. CASE k = "proc"
    BY <1>1, <2>2 DEF Outstanding, Answerable, Caches, IInv, Placed, OfKind
  <2> QED BY <2>1, <2>2 DEF Caches
<1>3. ans \subseteq Outstanding /\ Outstanding \subseteq asked
  BY DEF Answerable, Outstanding, Caches, IInv, Placed
<1>4. Placed'
  <2>1. CASE k = "zfs"
    BY <1>1, <2>1 DEF Answerable, Caches, IInv, Placed, OfKind
  <2>2. CASE k = "proc"
    BY <1>1, <2>2 DEF Answerable, Caches, IInv, Placed, OfKind
  <2> QED BY <2>1, <2>2 DEF Caches
<1>5. ProcAttended'
  BY <1>1 DEF Answerable, Caches, IInv, ProcAttended
<1>6. Enabled' = Enabled
  BY DEF Enabled
<1>7. Counted'
  BY <1>1, <1>6 DEF Caches, IInv, Counted
<1>8. AskedPast' /\ AckTruth'
  BY <1>6 DEF IInv, AskedPast, AckTruth
<1>9. cache' \in [Caches -> Cache]
  BY DEF IInv, TypeOK
<1>10. TypeOK'
  BY <1>9, SendTypes DEF IInv, TypeOK, process
<1>11. SentOnce'
  <2> SUFFICES ASSUME NEW i \in Insts, NEW s \in Seconds
               PROVE  sent'[i][s] = IF <<i, s>> \in asked' \ Outstanding' THEN 1 ELSE 0
    BY DEF SentOnce
  <2>1. sent'[i][s] = sent[i][s] + (IF <<i, s>> \in ans THEN 1 ELSE 0)
    BY SendTypes DEF IInv
  <2>2. sent[i][s] = IF <<i, s>> \in asked \ Outstanding THEN 1 ELSE 0
    BY DEF IInv, SentOnce
  <2> HIDE DEF ans
  <2> QED BY <1>2, <1>3, <2>1, <2>2
<1> QED BY <1>4, <1>5, <1>7, <1>8, <1>10, <1>11 DEF IInv

LEMMA RefreshDoneGood == ASSUME IInv, NEW k \in Caches, RefreshDone(k) PROVE IInv'
<1> DEFINE o == cache[k]
           c == [o EXCEPT !.refreshing = FALSE, !.objects = o.asking, !.last = o.when,
                          !.taken = {}, !.callbacks = @ \ Answerable(k)]
<1>1. o \in Cache
  BY DEF IInv, TypeOK
<1>2. c \in Cache
  BY <1>1 DEF Cache
<1>3. /\ c.columns = o.columns /\ c.taken = {} /\ c.refreshing = FALSE
      /\ c.callbacks = o.callbacks \ Answerable(k)
  BY <1>1 DEF Cache
<1>4. cache' = [cache EXCEPT ![k] = c]
  BY DEF RefreshDone, IInv, TypeOK
<1> HIDE DEF c
<1> QED BY <1>2, <1>3, <1>4, AnswerGood DEF RefreshDone

LEMMA ZfsRefreshFailsGood == ASSUME IInv, ZfsRefreshFails PROVE IInv'
<1> DEFINE o == cache["zfs"]
           c == [o EXCEPT !.refreshing = FALSE, !.taken = {}]
<1>1. o \in Cache /\ "zfs" \in Caches
  BY DEF IInv, TypeOK, Caches
<1>2. c \in Cache
  BY <1>1 DEF Cache
<1>3. /\ c.columns = o.columns /\ c.taken = {} /\ c.refreshing = FALSE
      /\ c.callbacks = o.callbacks
  BY <1>1 DEF Cache
<1>4. o.callbacks = o.callbacks \ Answerable("zfs")
  BY DEF Answerable, IInv, Placed
<1>5. cache' = [cache EXCEPT !["zfs"] = c]
  BY <1>1 DEF ZfsRefreshFails, IInv, TypeOK
<1> HIDE DEF c
<1> QED BY <1>1, <1>2, <1>3, <1>4, <1>5, AnswerGood DEF ZfsRefreshFails

LEMMA TickGood == ASSUME IInv, Tick PROVE IInv'
<1> DEFINE due == Due \X {now}
           zreqs == Waiting("zfs") \X {now}
           preqs == Waiting("proc") \X {now}
           direct == (Due \ UNION {Waiting(k) : k \in Caches}) \X {now}
<1>1. now \in Seconds /\ Due \subseteq Insts /\ due \subseteq Requests
  BY DEF IInv, TypeOK, Due, Enabled, Requests
<1>2. due \cap asked = {}
  <2>1. \A r \in asked : r[2] # now
    BY DEF IInv, AskedPast, Tick
  <2> QED BY <2>1
<1>3. /\ zreqs \subseteq due \cap OfKind("zfs") /\ preqs \subseteq due \cap OfKind("proc")
      /\ direct = due \ (zreqs \cup preqs)
  BY <1>1 DEF Waiting, OfKind, On, Requests, Caches
<1>4. PICK z \in Queued("zfs", zreqs), p \in Queued("proc", preqs) :
         cache' = [cache EXCEPT !["zfs"] = z, !["proc"] = p]
  BY DEF Tick
<1>5. asked' = asked \cup due /\ Send(direct)
  BY DEF Tick
<1> HIDE DEF due, zreqs, preqs, direct
<1>6. Outstanding \subseteq asked
  BY DEF Outstanding, IInv, Placed
<1>7. /\ z \in Cache /\ z.columns = cache["zfs"].columns
      /\ z.callbacks \cup z.taken = cache["zfs"].callbacks \cup cache["zfs"].taken \cup zreqs
      /\ z.callbacks \cap z.taken = {}
      /\ z.refreshing \/ z.taken = {}
  <2>1. zreqs \cap (cache["zfs"].callbacks \cup cache["zfs"].taken) = {}
    BY <1>2, <1>3, <1>6 DEF Outstanding
  <2>2. zreqs \in SUBSET Requests /\ "zfs" \in Caches
    BY <1>1, <1>3 DEF Caches
  <2>3. cache \in [Caches -> Cache] /\ z \in Queued("zfs", zreqs)
    BY <1>4 DEF IInv, TypeOK
  <2>4. /\ cache["zfs"].refreshing \/ cache["zfs"].taken = {}
        /\ cache["zfs"].callbacks \cap cache["zfs"].taken = {}
        /\ "zfs" = "proc" => /\ cache["zfs"].taken = {}
                             /\ cache["zfs"].callbacks # {} => cache["zfs"].refreshing
    BY DEF IInv, Placed
  <2> QED BY <1>1, <2>1, <2>2, <2>3, <2>4, QueuedPlaces, Zenon
<1>8. /\ p \in Cache /\ p.taken = {}
      /\ p.callbacks = cache["proc"].callbacks \cup preqs
      /\ p.callbacks # {} => p.refreshing
  <2>1. preqs \cap (cache["proc"].callbacks \cup cache["proc"].taken) = {}
    BY <1>2, <1>3, <1>6 DEF Outstanding, IInv, Placed
  <2>2. preqs \in SUBSET Requests /\ "proc" \in Caches
    BY <1>1, <1>3 DEF Caches
  <2>3. cache["proc"].taken = {} /\ (cache["proc"].callbacks # {} => cache["proc"].refreshing)
    BY DEF IInv, Placed, ProcAttended
  <2>4. /\ p \in Cache /\ p.taken = {} /\ (p.callbacks # {} => p.refreshing)
        /\ p.callbacks \cup p.taken = cache["proc"].callbacks \cup cache["proc"].taken \cup preqs
    <3>1. cache \in [Caches -> Cache] /\ p \in Queued("proc", preqs)
      BY <1>4 DEF IInv, TypeOK
    <3>2. /\ cache["proc"].refreshing \/ cache["proc"].taken = {}
          /\ cache["proc"].callbacks \cap cache["proc"].taken = {}
          /\ "proc" = "proc" => /\ cache["proc"].taken = {}
                                /\ cache["proc"].callbacks # {} => cache["proc"].refreshing
      BY <2>3
    <3> QED BY <1>1, <2>1, <2>2, <3>1, <3>2, QueuedPlaces, Zenon
  <2> QED BY <2>3, <2>4
<1>9. cache'["zfs"] = z /\ cache'["proc"] = p
  BY <1>4 DEF IInv, TypeOK, Caches
<1>10. Outstanding' = Outstanding \cup zreqs \cup preqs
  BY <1>7, <1>8, <1>9 DEF Outstanding
<1>11. Placed' /\ ProcAttended'
  <2>1. Placed /\ OfKind("zfs")' = OfKind("zfs") /\ OfKind("proc")' = OfKind("proc")
    BY DEF IInv, OfKind
  <2>2. /\ z.callbacks \cup z.taken \subseteq asked' \cap OfKind("zfs")
        /\ p.callbacks \subseteq asked' \cap OfKind("proc")
    BY <1>3, <1>5, <1>7, <1>8, <2>1 DEF Placed
  <2> QED BY <1>7, <1>8, <1>9, <2>1, <2>2 DEF Placed, ProcAttended
<1>12. Enabled' = Enabled
  BY DEF Tick, Enabled
<1>13. Counted'
  BY <1>7, <1>9, <1>12 DEF Counted, IInv
<1>14. AskedPast'
  <2>1. \A r \in due : r[2] = now
    BY DEF due
  <2>2. insLast' = now /\ now' = now
    BY DEF Tick
  <2>3. now \in Nat
    BY <1>1, InstrumenterAssumption DEF Seconds
  <2> QED BY <1>5, <2>1, <2>2, <2>3 DEF AskedPast, IInv
<1>15. AckTruth'
  BY <1>12 DEF AckTruth, IInv, Tick
<1>16. SentOnce'
  <2> SUFFICES ASSUME NEW i \in Insts, NEW s \in Seconds
               PROVE  sent'[i][s] = IF <<i, s>> \in asked' \ Outstanding' THEN 1 ELSE 0
    BY DEF SentOnce
  <2>1. sent'[i][s] = sent[i][s] + (IF <<i, s>> \in direct THEN 1 ELSE 0)
    BY <1>5, SendTypes DEF IInv
  <2>2. sent[i][s] = IF <<i, s>> \in asked \ Outstanding THEN 1 ELSE 0
    BY DEF IInv, SentOnce
  <2> QED BY <1>2, <1>3, <1>5, <1>6, <1>10, <2>1, <2>2
<1>17. nenablings' \in Int /\ cadDtr' \in [Insts -> [Progs -> {"none", "on", "null"}]]
  <2>1. PICK broken \in SUBSET {x \in (Due \cap On("dtrace")) \X Progs : cadDtr[x[1]][x[2]] = "on"} :
           \E dead \in SUBSET broken :
              /\ nenablings' = nenablings + Cardinality(broken \ dead)
              /\ cadDtr' = [i \in Insts |-> [p1 \in Progs |->
                              IF <<i, p1>> \in dead THEN "null" ELSE cadDtr[i][p1]]]
    BY DEF Tick, ReadPrograms
  <2>2. PICK dead \in SUBSET broken :
              /\ nenablings' = nenablings + Cardinality(broken \ dead)
              /\ cadDtr' = [i \in Insts |-> [p1 \in Progs |->
                              IF <<i, p1>> \in dead THEN "null" ELSE cadDtr[i][p1]]]
    BY <2>1
  <2>3. Cardinality(broken \ dead) \in Nat
    BY <1>1, Countable
  <2> QED BY <2>2, <2>3 DEF IInv, TypeOK
<1>18. TypeOK'
  <2>1. cache' \in [Caches -> Cache]
    BY <1>4, <1>7, <1>8 DEF IInv, TypeOK
  <2>2. sent' \in [Insts -> [Seconds -> Nat]]
    BY <1>5, SendTypes DEF IInv
  <2>3. asked' \subseteq Requests
    BY <1>1, <1>5 DEF IInv, TypeOK
  <2> QED BY <1>1, <1>17, <2>1, <2>2, <2>3 DEF Tick, IInv, TypeOK, process
<1> QED BY <1>11, <1>13, <1>14, <1>15, <1>16, <1>18 DEF IInv

-----------------------------------------------------------------------------
(* The theorems.                                                           *)

LEMMA Inductive == ASSUME IInv, [Next]_vars PROVE IInv'
<1>1. ASSUME NEW i \in Insts, NEW g \in Grans, EnableInstn(i, g) PROVE IInv'
  BY <1>1, EnableGood
<1>2. ASSUME NEW i \in Insts, DisableAbsent(i) \/ DisableInstn(i) \/ DisableBroken(i) PROVE IInv'
  BY <1>2, DisableGood
<1>3. ASSUME Crash \/ ProcRefreshFails PROVE IInv'
  BY <1>3, PanicGood DEF Crash, ProcRefreshFails
<1>4. CASE UNCHANGED vars
  <2>1. Outstanding' = Outstanding /\ Enabled' = Enabled
    BY <1>4 DEF Outstanding, Enabled, vars
  <2> QED BY <1>4, <2>1 DEF vars, IInv, TypeOK, Counted, Placed, SentOnce, AskedPast, AckTruth,
                            ProcAttended
<1> QED BY <1>1, <1>2, <1>3, <1>4, StartGood, ClockGood, TickGood, ResetGood, ZfsRefreshFailsGood,
           RefreshDoneGood DEF Next

\* What holds of the state of an instrumenter in every execution.
THEOREM Invariant == Spec => []IInv
<1>1. ASSUME Init PROVE IInv
  <2>1. Enabled = {} /\ cache["zfs"] = EmptyCache /\ cache["proc"] = EmptyCache
    BY <1>1 DEF Init, Enabled, Caches
  <2>2. EmptyCache \in Cache
    BY DEF EmptyCache, Cache
  <2>3. TypeOK
    <3>1. 0 \in 0..GranularityMax /\ 0 \in 0..MaxLives /\ FirstSecond \in Seconds
      BY InstrumenterAssumption DEF Seconds
    <3>2. up \in BOOLEAN
      BY <1>1, Zenon DEF Init
    <3>3. /\ lives \in 0..MaxLives
          /\ now \in Seconds /\ insLast \in Seconds \cup {0}
          /\ nenablings \in Int /\ told \subseteq Insts /\ asked \subseteq Requests
      BY <1>1, <3>1 DEF Init
    <3>4. insInstns \in [Insts -> 0..GranularityMax]
      BY <1>1, <3>1 DEF Init
    <3>5. cadDtr \in [Insts -> [Progs -> {"none", "on", "null"}]]
      BY <1>1 DEF Init, NoProgs
    <3>6. cache \in [Caches -> Cache]
      BY <1>1, <2>2 DEF Init
    <3>7. sent \in [Insts -> [Seconds -> Nat]]
      BY <1>1 DEF Init
    <3> QED BY <3>2, <3>3, <3>4, <3>5, <3>6, <3>7 DEF TypeOK
  <2>4. Counted
    BY <2>1, ReadersNone DEF Counted, EmptyCache
  <2>5. Placed /\ ProcAttended
    BY <2>1 DEF Placed, ProcAttended, EmptyCache
  <2>6. SentOnce /\ AskedPast /\ AckTruth
    BY <1>1, <2>1 DEF Init, SentOnce, AskedPast, AckTruth
  <2> QED BY <2>3, <2>4, <2>5, <2>6 DEF IInv
<1> QED BY <1>1, Inductive, PTL DEF Spec

\* The variables keep to their types: the counts of the columns never become
\* negative, whatever commands come and however they fail.
THEOREM TypeCorrect == Spec => []TypeOK
BY Invariant, PTL DEF IInv

\* What the configuration service was last told is what is being reported.
THEOREM Acknowledged == Spec => []AckTruth
BY Invariant, PTL DEF IInv

\* Whoever waits in the proc cache waits for a refresh that is under way.
THEOREM Attended == Spec => []ProcAttended
BY Invariant, PTL DEF IInv

\* Every value a tick asks for makes exactly one data message: it has been
\* sent, or exactly one cache holds the request.
THEOREM ValuesConserved == Spec => []Conserved
<1>1. ASSUME IInv PROVE Conserved
  <2> SUFFICES ASSUME NEW r \in Requests
               PROVE  sent[r[1]][r[2]] + Cardinality(Holding(r)) + Cardinality(Taking(r))
                         = IF r \in asked THEN 1 ELSE 0
    BY DEF Conserved
  <2>1. r[1] \in Insts /\ r[2] \in Seconds /\ r = <<r[1], r[2]>>
    BY DEF Requests
  <2>2. sent[r[1]][r[2]] = IF r \in asked \ Outstanding THEN 1 ELSE 0
    BY <1>1, <2>1 DEF IInv, SentOnce
  <2>3. Cardinality({}) = 0 /\ Cardinality({"zfs"}) = 1 /\ Cardinality({"proc"}) = 1
    BY FS_EmptySet, FS_Singleton
  <2>4. CASE r \in cache["zfs"].callbacks
    <3>1. Holding(r) = {"zfs"} /\ Taking(r) = {} /\ r \in asked /\ r \in Outstanding
      BY <1>1, <2>4 DEF IInv, Placed, OfKind, Holding, Taking, Outstanding, Caches
    <3> QED BY <2>2, <2>3, <3>1
  <2>5. CASE r \in cache["zfs"].taken
    <3>1. Holding(r) = {} /\ Taking(r) = {"zfs"} /\ r \in asked /\ r \in Outstanding
      BY <1>1, <2>5 DEF IInv, Placed, OfKind, Holding, Taking, Outstanding, Caches
    <3> QED BY <2>2, <2>3, <3>1
  <2>6. CASE r \in cache["proc"].callbacks
    <3>1. Holding(r) = {"proc"} /\ Taking(r) = {} /\ r \in asked /\ r \in Outstanding
      BY <1>1, <2>6 DEF IInv, Placed, OfKind, Holding, Taking, Outstanding, Caches
    <3> QED BY <2>2, <2>3, <3>1
  <2>7. CASE r \notin Outstanding
    <3>1. Holding(r) = {} /\ Taking(r) = {}
      BY <1>1, <2>7 DEF IInv, Placed, Holding, Taking, Outstanding, Caches
    <3> QED BY <2>2, <2>3, <2>7, <3>1
  <2> QED BY <2>4, <2>5, <2>6, <2>7 DEF Outstanding
<1> QED BY <1>1, Invariant, PTL

=============================================================================
