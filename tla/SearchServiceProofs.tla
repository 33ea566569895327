------------------------ MODULE SearchServiceProofs ------------------------
(***************************************************************************)
(* Answers of the Search Server, for any number of callers, batches,       *)
(* requests, faults and crashes: no page beyond the result window, pages   *)
(* and details of the current snapshot only.                               *)
(***************************************************************************)
EXTENDS SearchService, FiniteSetTheorems, SequenceTheorems, WellFoundedInduction, TLAPS

-----------------------------------------------------------------------------
(* The version of a snapshot, and the ranking.                             *)

LEMMA LargestBatch ==
  ASSUME NEW S \in SUBSET Batches, S # {}
  PROVE  \E b \in S : \A c \in S : c <= b
<1> DEFINE Above(x) == {y \in S : y > x}
           Counts == {Cardinality(Above(x)) : x \in S}
           R == OpToRel(<, Nat)
<1>1. IsFiniteSet(S) /\ S \subseteq Nat
  BY IdsAssumption, FS_Subset
<1>2. \A b \in S : IsFiniteSet(Above(b)) /\ Cardinality(Above(b)) \in Nat
  BY <1>1, FS_Subset, FS_CardinalityType
<1>3. Counts \subseteq Nat /\ Counts # {}
  BY <1>2
<1>4. IsWellFoundedOn(R, Nat)
  BY NatLessThanWellFounded
<1> HIDE DEF R, Counts
<1>5. PICK n \in Counts : \A m \in Counts : ~(<<m, n>> \in R)
  BY <1>3, <1>4, WFMin
<1> USE DEF R, Counts
<1>6. PICK b \in S : n = Cardinality(Above(b))
  OBVIOUS
<1>7. ASSUME NEW c \in S, c > b PROVE FALSE
  <2> HIDE DEF R, Counts
  <2>0. b \in Nat /\ c \in Nat /\ \A x \in S : x \in Nat
    BY <1>1
  <2>1. Above(c) \subseteq Above(b) /\ c \in Above(b) /\ c \notin Above(c)
    <3>0. c > b
      BY <1>7
    <3>1. Above(c) \subseteq Above(b)
      <4> SUFFICES ASSUME NEW y \in S, y > c PROVE y > b
        OBVIOUS
      <4>1. y \in Nat
        BY <2>0
      <4> QED BY <2>0, <3>0, <4>1
    <3>2. c \in Above(b)
      BY <3>0
    <3>3. c \notin Above(c)
      BY <2>0
    <3> QED BY <3>1, <3>2, <3>3
  <2> USE DEF R, Counts
  <2>2. Cardinality(Above(c)) < Cardinality(Above(b))
    <3> HIDE DEF Above
    <3> QED BY <1>2, <2>1, FS_Subset
  <2>3. ~(<<Cardinality(Above(c)), n>> \in R) /\ Cardinality(Above(c)) \in Nat /\ n \in Nat
    BY <1>2, <1>3, <1>5
  <2> HIDE DEF Above
  <2> QED BY <1>6, <2>2, <2>3 DEF OpToRel
<1> QED BY <1>1, <1>7

Views == [Batches -> SUBSET Archives]

LEMMA VersionFacts ==
  ASSUME NEW view \in Views
  PROVE  /\ Version(view) = 0 \/ (Version(view) \in Batches /\ view[Version(view)] # {})
         /\ Version(view) \in Nat
         /\ \A b \in Batches : view[b] # {} => b <= Version(view) /\ Version(view) # 0
<1> DEFINE loaded == {b \in Batches : view[b] # {}}
<1>0. Batches \subseteq Nat /\ 0 \notin Batches
  BY IdsAssumption
<1>1. CASE loaded = {}
  BY <1>0, <1>1 DEF Version
<1>2. CASE loaded # {}
  <2>1. \E b \in loaded : \A c \in loaded : c <= b
    BY <1>2, LargestBatch
  <2>2. Version(view) \in loaded /\ \A c \in loaded : c <= Version(view)
    BY <1>2, <2>1 DEF Version
  <2> QED BY <1>0, <2>2
<1> QED BY <1>1, <1>2

\* Versions that agree on which is the largest loaded batch.
LEMMA VersionIs ==
  ASSUME NEW view \in Views, NEW b \in Batches, view[b] # {},
         \A c \in Batches : view[c] # {} => c <= b
  PROVE  Version(view) = b
<1>1. Version(view) \in Batches /\ view[Version(view)] # {} /\ b <= Version(view)
  BY VersionFacts
<1>2. Version(view) <= b
  BY <1>1
<1>3. b \in Nat /\ Version(view) \in Nat
  BY <1>1, IdsAssumption
<1> QED BY <1>1, <1>2, <1>3

LEMMA NoVersion ==
  ASSUME NEW view, \A b \in Batches : view[b] = {}
  PROVE  Version(view) = 0
<1>1. {b \in Batches : view[b] # {}} = {}
  OBVIOUS
<1> QED BY <1>1 DEF Version

Document == [batch : Batches, archive : Archives]
Distinct(hits) == \A d, e \in hits : d.archive = e.archive => d = e

\* Every place of the ranking is taken by exactly one hit.
LEMMA RankedFacts ==
  ASSUME NEW hits \in SUBSET Document, Distinct(hits)
  PROVE  /\ Cardinality(hits) \in Nat
         /\ Ranked(hits) \in [1..Cardinality(hits) -> hits]
<1> DEFINE Before(d) == {e \in hits : e.archive > d.archive}
           n == Cardinality(hits)
           f == [d \in hits |-> Cardinality(Before(d)) + 1]
<1>1. IsFiniteSet(hits)
  <2>1. IsFiniteSet(Batches \X Archives)
    BY IdsAssumption, FS_Product
  <2>2. PICK g : g = [p \in Batches \X Archives |-> [batch |-> p[1], archive |-> p[2]]]
    OBVIOUS
  <2>3. g \in Surjection(Batches \X Archives, Document)
    <3>1. g \in [Batches \X Archives -> Document]
      BY <2>2 DEF Document
    <3>2. \A d \in Document : \E p \in Batches \X Archives : g[p] = d
      <4> SUFFICES ASSUME NEW d \in Document PROVE \E p \in Batches \X Archives : g[p] = d
        OBVIOUS
      <4>1. <<d.batch, d.archive>> \in Batches \X Archives
        BY DEF Document
      <4>2. g[<<d.batch, d.archive>>] = d
        BY <2>2, <4>1 DEF Document
      <4> QED BY <4>1, <4>2
    <3> QED BY <3>1, <3>2 DEF Surjection
  <2>4. IsFiniteSet(Document)
    BY <2>1, <2>3, FS_Surjection
  <2> QED BY <2>4, FS_Subset
<1>2. n \in Nat
  BY <1>1, FS_CardinalityType
<1>3. \A d \in hits : d.archive \in Nat
  BY IdsAssumption DEF Document
<1>4. \A d \in hits : /\ IsFiniteSet(Before(d)) /\ Cardinality(Before(d)) \in Nat
                      /\ Cardinality(Before(d)) < n
  <2> SUFFICES ASSUME NEW d \in hits
               PROVE  /\ IsFiniteSet(Before(d)) /\ Cardinality(Before(d)) \in Nat
                      /\ Cardinality(Before(d)) < n
    OBVIOUS
  <2>1. Before(d) \subseteq hits /\ d \notin Before(d)
    BY <1>3
  <2> HIDE DEF Before
  <2> QED BY <1>1, <1>2, <2>1, FS_Subset, FS_CardinalityType
<1>5. \A d, e \in hits : d.archive > e.archive => Cardinality(Before(d)) < Cardinality(Before(e))
  <2> SUFFICES ASSUME NEW d \in hits, NEW e \in hits, d.archive > e.archive
               PROVE  Cardinality(Before(d)) < Cardinality(Before(e))
    OBVIOUS
  <2>1. Before(d) \subseteq Before(e) /\ d \in Before(e) /\ d \notin Before(d)
    BY <1>3
  <2> HIDE DEF Before
  <2> QED BY <1>4, <2>1, FS_Subset
<1> HIDE DEF Before, n
<1>6. f \in Injection(hits, 1..n)
  <2>1. f \in [hits -> 1..n]
    BY <1>2, <1>4
  <2>2. ASSUME NEW d \in hits, NEW e \in hits, d # e PROVE f[d] # f[e]
    <3>1. d.archive > e.archive \/ e.archive > d.archive
      BY <1>3, <2>2 DEF Distinct
    <3> QED BY <1>4, <1>5, <3>1
  <2> QED BY <2>1, <2>2 DEF Injection, IsInjective
<1>7. f \in Surjection(hits, 1..n)
  <2>1. IsFiniteSet(1..n) /\ Cardinality(1..n) = n
    BY <1>2, FS_Interval
  <2> HIDE DEF f
  <2> QED BY <1>6, <2>1, FS_Injection DEF n
<1>8. \A k \in 1..n : \E d \in hits : Cardinality(Before(d)) = k - 1
  <2> SUFFICES ASSUME NEW k \in 1..n PROVE \E d \in hits : Cardinality(Before(d)) = k - 1
    OBVIOUS
  <2>1. PICK d \in hits : f[d] = k
    BY <1>7 DEF Surjection
  <2> QED BY <1>2, <1>4, <2>1
<1> QED BY <1>2, <1>8 DEF Ranked, Before, n

\* The hits of a snapshot in which no archive is twice.
Apart(view) == \A b, c \in Batches : b # c => view[b] \cap view[c] = {}

LEMMA SearchFacts ==
  ASSUME NEW view \in Views, Apart(view), NEW q, q.offset \in Nat, q.size \in Nat
  PROVE  /\ Search(view, q).version = Version(view)
         /\ \A i \in DOMAIN Search(view, q).ids : HasDocument(view, Search(view, q).ids[i])
<1> DEFINE hits == Hits(view, q)
           n == Cardinality(hits)
           ranked == Ranked(hits)
           last == Min({Len(ranked), q.offset + q.size})
<1>1. hits \subseteq Document /\ \A d \in hits : HasDocument(view, d)
  BY DEF Hits, Document
<1>2. Distinct(hits)
  <2> SUFFICES ASSUME NEW d \in hits, NEW e \in hits, d.archive = e.archive PROVE d = e
    BY DEF Distinct
  <2>1. d.batch = e.batch
    BY <1>1 DEF HasDocument, Apart
  <2> QED BY <1>1, <2>1 DEF Document
<1> HIDE DEF hits
<1>3. n \in Nat /\ ranked \in [1..n -> hits]
  BY <1>1, <1>2, RankedFacts
<1> HIDE DEF ranked, n
<1>4. ranked \in Seq(hits) /\ Len(ranked) = n
  BY <1>3
<1>5. last \in Nat /\ last <= Len(ranked)
  <2>1. \E x \in {Len(ranked), q.offset + q.size} : \A y \in {Len(ranked), q.offset + q.size} : x =< y
    BY <1>3, <1>4
  <2> QED BY <1>3, <1>4, <2>1 DEF Min
<1> HIDE DEF last
<1>6. \A i \in q.offset + 1..last : ranked[i] \in hits
  BY <1>3, <1>4, <1>5
<1>7. /\ Search(view, q).ids = SubSeq(ranked, q.offset + 1, last)
      /\ Search(view, q).version = Version(view)
  BY DEF Search, ranked, last, hits
<1>8. PICK ids : ids = SubSeq(ranked, q.offset + 1, last)
  OBVIOUS
<1>9. ids \in Seq(hits)
  BY <1>5, <1>6, <1>8, SubSeqProperties
<1>10. \A i \in DOMAIN ids : ids[i] \in hits
  BY <1>9
<1> QED BY <1>1, <1>7, <1>8, <1>10

-----------------------------------------------------------------------------
(* The calls.                                                              *)

Fields == {"gate", "stage", "in", "query", "version", "got", "page", "reply", "code"}
Shaped == DOMAIN call = Callers /\ \A c \in Callers : DOMAIN call[c] = Fields

Inputs == UNION Workloads
FitsWindow(q) == q.offset + q.size <= Window

\* A call that has not got a page yet has none, one that has or is about to
\* has a query within the window, and its query is that of its request.
CallOK(r) ==
  /\ r.gate \in {"idle", "waiting", "answered"}
  /\ r.stage \in {"none", "sent", "lookup", "get", "callback", "set", "reply"}
  /\ r.stage \in {"lookup", "get", "callback", "set", "reply"} => up
  /\ r.stage # "none" => r.in \in Inputs
  /\ r.stage \in {"get", "callback", "set"} => r.query = MakeQuery(r.in)
  /\ r.stage \in {"none", "sent", "lookup", "get"} => r.got = {}
  /\ r.stage \in {"none", "sent", "lookup", "get", "callback"} => r.page = NoPage
  /\ \A p, q \in r.got : p = q
  /\ r.got # {} \/ r.stage = "set" \/ r.page # NoPage => FitsWindow(r.query)

\* A step of call c: the others stay, and of this one the fields outside F.
Only(c, F) ==
  /\ \A d \in Callers : d # c => call'[d] = call[d]
  /\ \A f \in Fields \ F : call'[c][f] = call[c][f]

LEMMA ReplyFields ==
  ASSUME Shaped, NEW c \in Callers, NEW code, call' = Reply(c, code)
  PROVE  /\ Shaped' /\ Only(c, {"stage", "reply"})
         /\ call'[c].stage = "reply" /\ call'[c].reply = code
BY DEF Shaped, Only, Reply, Fields

LEMMA StartQueryFields ==
  ASSUME Shaped, NEW c \in Callers, NEW q, call' = StartQuery(c, q)
  PROVE  /\ Shaped' /\ Only(c, {"stage", "query", "version"})
         /\ call'[c].stage = "get" /\ call'[c].query = q /\ call'[c].version = Version(snapshot)
BY DEF Shaped, Only, StartQuery, Fields

LEMMA LookupFields ==
  ASSUME Shaped, NEW c \in Callers, call' = [call EXCEPT ![c].stage = "lookup"]
  PROVE  Shaped' /\ Only(c, {"stage"}) /\ call'[c].stage = "lookup"
BY DEF Shaped, Only, Fields

LEMMA UnusedFields ==
  /\ DOMAIN Unused = Fields /\ Unused.gate = "idle" /\ Unused.stage = "none" /\ Unused.got = {}
  /\ Unused.page = NoPage
BY DEF Unused, Fields

\* What Callback makes of a call: a restored page, a search, or an error.
Restored(c) == [Reply(c, "OK") EXCEPT ![c].got = {}, ![c].page = CHOOSE p \in call[c].got : TRUE]
Searched(c) ==
  [call EXCEPT ![c].stage = "set", ![c].got = {}, ![c].page = Search(snapshot, call[c].query)]

LEMMA RestoredFields ==
  ASSUME Shaped, NEW c \in Callers, call' = Restored(c)
  PROVE  /\ Shaped' /\ Only(c, {"stage", "reply", "got", "page"})
         /\ call'[c].stage = "reply" /\ call'[c].reply = "OK" /\ call'[c].got = {}
         /\ call'[c].page = CHOOSE p \in call[c].got : TRUE
<1>1. PICK m : m = Reply(c, "OK")
  OBVIOUS
<1>2. PICK page : page = CHOOSE p \in call[c].got : TRUE
  OBVIOUS
<1>3. /\ DOMAIN m = Callers /\ DOMAIN m[c] = Fields /\ \A d \in Callers : d # c => m[d] = call[d]
      /\ m[c].stage = "reply" /\ m[c].reply = "OK"
      /\ \A f \in Fields \ {"stage", "reply"} : m[c][f] = call[c][f]
  BY <1>1 DEF Reply, Shaped, Fields
<1>4. call' = [m EXCEPT ![c].got = {}, ![c].page = page]
  BY <1>1, <1>2 DEF Restored
<1>5. /\ DOMAIN call' = Callers /\ DOMAIN call'[c] = Fields
      /\ \A d \in Callers : d # c => call'[d] = m[d]
      /\ call'[c].got = {} /\ call'[c].page = page
      /\ \A f \in Fields \ {"got", "page"} : call'[c][f] = m[c][f]
  BY <1>3, <1>4 DEF Fields
<1> QED BY <1>2, <1>3, <1>5 DEF Shaped, Only, Fields

LEMMA SearchedFields ==
  ASSUME Shaped, NEW c \in Callers, call' = Searched(c)
  PROVE  /\ Shaped' /\ Only(c, {"stage", "got", "page"})
         /\ call'[c].stage = "set" /\ call'[c].got = {}
         /\ call'[c].page = Search(snapshot, call[c].query)
<1> DEFINE page == Search(snapshot, call[c].query)
           r == [call[c] EXCEPT !.stage = "set", !.got = {}, !.page = page]
<1> HIDE DEF page
<1>1. call' = [call EXCEPT ![c] = r]
  BY DEF Searched, Shaped, page
<1>2. /\ DOMAIN r = Fields /\ r.stage = "set" /\ r.got = {} /\ r.page = page
      /\ \A f \in Fields \ {"stage", "got", "page"} : r[f] = call[c][f]
  BY DEF Shaped, Fields
<1> HIDE DEF r
<1> QED BY <1>1, <1>2 DEF Shaped, Only, page

-----------------------------------------------------------------------------
(* The invariant of the whole state.                                       *)

Budgets == [inputs : Workloads, rebuilds : 0..MaxRebuilds, crashes : Nat, faults : Nat]

IndexOK ==
  /\ catalog \in Views /\ snapshot \in Views /\ retired \subseteq Batches
  /\ Apart(catalog) /\ Apart(snapshot)

CachesOK ==
  /\ \A e, f \in redis : e.key = f.key => e = f
  /\ \A e \in redis \cup late : FitsWindow(e.key.query)

SInv ==
  /\ up \in BOOLEAN /\ due \in BOOLEAN /\ (due => up)
  /\ budget \in Budgets
  /\ IndexOK /\ CachesOK
  /\ Shaped /\ \A c \in Callers : CallOK(call[c])

LEMMA QueryFacts ==
  ASSUME NEW in \in Inputs
  PROVE  MakeQuery(in).offset \in Nat /\ MakeQuery(in).size \in Nat
<1>1. in.offset \in Nat /\ in.size \in Nat /\ Width32 \in Nat \ {0} /\ CodeMatches \in Nat
  BY RequestsAssumption, WidthAssumption, BoundsAssumption DEF Inputs
<1>2. in.offset % Width32 \in Nat /\ in.size % Width32 \in Nat
  BY <1>1
<1> QED BY <1>1, <1>2 DEF MakeQuery, NoQuery

\* A step that touches one call and leaves it in order.
CallStep(c) ==
  /\ Shaped' /\ \A d \in Callers : d # c => call'[d] = call[d]
  /\ CallOK(call[c])'

LEMMA ReplyOK ==
  ASSUME SInv, NEW c \in Callers, NEW code, up, up' = up, call[c].stage # "none",
         call' = Reply(c, code)
  PROVE  CallStep(c)
<1>1. /\ Shaped' /\ Only(c, {"stage", "reply"}) /\ call'[c].stage = "reply"
  BY ReplyFields DEF SInv
<1>2. CallOK(call[c])
  BY DEF SInv
<1>3. /\ call'[c].gate = call[c].gate /\ call'[c].in = call[c].in /\ call'[c].query = call[c].query
      /\ call'[c].got = call[c].got /\ call'[c].page = call[c].page
  BY <1>1 DEF Only, Fields
<1> QED BY <1>1, <1>2, <1>3 DEF CallStep, CallOK, Only, FitsWindow

LEMMA StartQueryOK ==
  ASSUME SInv, NEW c \in Callers, up, up' = up, call[c].stage \in {"sent", "lookup"},
         call' = StartQuery(c, MakeQuery(call[c].in))
  PROVE  CallStep(c)
<1>1. /\ Shaped' /\ Only(c, {"stage", "query", "version"}) /\ call'[c].stage = "get"
      /\ call'[c].query = MakeQuery(call[c].in)
  BY StartQueryFields DEF SInv
<1>2. CallOK(call[c])
  BY DEF SInv
<1>3. /\ call'[c].gate = call[c].gate /\ call'[c].in = call[c].in
      /\ call'[c].got = call[c].got /\ call'[c].page = call[c].page
  BY <1>1 DEF Only, Fields
<1> QED BY <1>1, <1>2, <1>3 DEF CallStep, CallOK, Only

LEMMA AskOK ==
  ASSUME SInv, NEW c \in Callers, NEW in \in budget.inputs, Ask(c, in)
  PROVE  CallStep(c)
<1>1. in \in Inputs
  BY DEF SInv, Budgets, Inputs
<1>2. PICK r : /\ call' = [call EXCEPT ![c] = r]
               /\ \/ r = [Unused EXCEPT !.gate = "answered", !.in = in, !.code = "OPERATOR_TOKEN_INVALID"]
                  \/ r = [Unused EXCEPT !.gate = "waiting", !.stage = "sent", !.in = in]
                  \/ r = [Unused EXCEPT !.gate = "answered", !.in = in, !.code = "INVALID_ARGUMENT"]
  BY DEF Ask
<1>3. /\ DOMAIN r = Fields /\ r.gate \in {"idle", "waiting", "answered"} /\ r.stage \in {"none", "sent"}
      /\ r.in = in /\ r.got = {} /\ r.page = NoPage
  BY <1>2, UnusedFields DEF Fields
<1>4. call'[c] = r /\ Shaped' /\ \A d \in Callers : d # c => call'[d] = call[d]
  BY <1>2, <1>3 DEF SInv, Shaped
<1> QED BY <1>1, <1>3, <1>4 DEF CallStep, CallOK

LEMMA GetOK ==
  ASSUME SInv, NEW c \in Callers, Get(c)
  PROVE  CallStep(c)
<1>0. CallOK(call[c]) /\ Shaped /\ up' = up /\ up /\ call[c].stage = "get"
  BY DEF SInv, Get
<1>1. PICK pages : pages = {e.page : e \in {f \in redis : f.key = Key(c)}}
  OBVIOUS
<1>2. /\ \A p, q \in pages : p = q
      /\ pages # {} => FitsWindow(call[c].query)
  <2>1. \A e \in redis : e.key = Key(c) => FitsWindow(call[c].query)
    BY DEF SInv, CachesOK, Key
  <2> QED BY <1>1, <2>1 DEF SInv, CachesOK
<1>3. CASE call' = [call EXCEPT ![c].stage = "callback", ![c].got = pages]
  <2>1. /\ Shaped' /\ Only(c, {"stage", "got"})
        /\ call'[c].stage = "callback" /\ call'[c].got = pages
    BY <1>0, <1>3 DEF Shaped, Only, Fields
  <2>2. /\ call'[c].gate = call[c].gate /\ call'[c].in = call[c].in
        /\ call'[c].query = call[c].query /\ call'[c].page = call[c].page
    BY <2>1 DEF Only, Fields
  <2> QED BY <1>0, <1>2, <2>1, <2>2 DEF CallStep, CallOK, Only, FitsWindow
<1>4. CASE call' = [call EXCEPT ![c].stage = "callback"]
  <2>1. Shaped' /\ Only(c, {"stage"}) /\ call'[c].stage = "callback"
    BY <1>0, <1>4 DEF Shaped, Only, Fields
  <2>2. /\ call'[c].gate = call[c].gate /\ call'[c].in = call[c].in
        /\ call'[c].query = call[c].query /\ call'[c].page = call[c].page /\ call'[c].got = call[c].got
    BY <2>1 DEF Only, Fields
  <2> QED BY <1>0, <2>1, <2>2 DEF CallStep, CallOK, Only, FitsWindow
<1> QED BY <1>1, <1>3, <1>4 DEF Get

\* A page is restored from what was found under the query, or computed after
\* the engine has checked the window.
LEMMA CallbackCases ==
  ASSUME SInv, NEW c \in Callers, Callback(c)
  PROVE  \/ call' = Restored(c) /\ \E p \in call[c].got : Restores(p) /\ call'[c].page = p
         \/ call' = Searched(c) /\ EngineAccepts(call[c].query)
         \/ call' = Reply(c, "INDEX_CORRUPTED")
<1>1. CASE \E p \in call[c].got : Restores(p)
  <2>1. call' = Restored(c)
    BY <1>1 DEF Callback, Restored
  <2>2. call'[c].page \in call[c].got
    BY <1>1, <2>1, RestoredFields DEF SInv
  <2> QED BY <1>1, <2>1, <2>2 DEF SInv, CallOK
<1>2. CASE ~ \E p \in call[c].got : Restores(p)
  BY <1>2 DEF Callback, Searched
<1> QED BY <1>1, <1>2

LEMMA CallbackOK ==
  ASSUME SInv, NEW c \in Callers, Callback(c)
  PROVE  CallStep(c)
<1>0. CallOK(call[c]) /\ Shaped /\ up' = up /\ up /\ call[c].stage = "callback"
  BY DEF SInv, Callback
<1>1. CASE call' = Restored(c) /\ \E p \in call[c].got : Restores(p) /\ call'[c].page = p
  <2>1. /\ Shaped' /\ Only(c, {"stage", "reply", "got", "page"})
        /\ call'[c].stage = "reply" /\ call'[c].got = {}
    BY <1>0, <1>1, RestoredFields
  <2>2. /\ call'[c].gate = call[c].gate /\ call'[c].in = call[c].in /\ call'[c].query = call[c].query
    BY <2>1 DEF Only, Fields
  <2>3. FitsWindow(call[c].query)
    BY <1>0, <1>1 DEF CallOK
  <2> QED BY <1>0, <2>1, <2>2, <2>3 DEF CallStep, CallOK, Only, FitsWindow
<1>2. CASE call' = Searched(c) /\ EngineAccepts(call[c].query)
  <2>1. /\ Shaped' /\ Only(c, {"stage", "got", "page"})
        /\ call'[c].stage = "set" /\ call'[c].got = {}
    BY <1>0, <1>2, SearchedFields
  <2>2. /\ call'[c].gate = call[c].gate /\ call'[c].in = call[c].in /\ call'[c].query = call[c].query
    BY <2>1 DEF Only, Fields
  <2>3. FitsWindow(call[c].query)
    <3>1. call[c].query.offset \in Nat /\ call[c].query.size \in Nat /\ Window \in Nat
      BY <1>0, QueryFacts, WidthAssumption DEF CallOK
    <3> QED BY <1>2, <3>1 DEF EngineAccepts, FitsWindow
  <2> QED BY <1>0, <2>1, <2>2, <2>3 DEF CallStep, CallOK, Only, FitsWindow
<1>3. CASE call' = Reply(c, "INDEX_CORRUPTED")
  BY <1>0, <1>3, ReplyOK
<1> QED BY <1>1, <1>2, <1>3, CallbackCases

LEMMA RespondOK ==
  ASSUME SInv, NEW c \in Callers, Respond(c)
  PROVE  CallStep(c)
<1>1. PICK r : /\ call' = [call EXCEPT ![c] = r]
               /\ \E code : r = [Unused EXCEPT !.in = call[c].in, !.gate = "answered", !.code = code]
  BY DEF Respond
<1>2. DOMAIN r = Fields /\ r.gate = "answered" /\ r.stage = "none" /\ r.got = {} /\ r.page = NoPage
  BY <1>1, UnusedFields DEF Fields
<1>3. call'[c] = r /\ Shaped' /\ \A d \in Callers : d # c => call'[d] = call[d]
  BY <1>1, <1>2 DEF SInv, Shaped
<1> QED BY <1>2, <1>3 DEF CallStep, CallOK

LEMMA FinishOK ==
  ASSUME SInv, NEW c \in Callers, Finish(c)
  PROVE  CallStep(c)
<1>1. call'[c] = Unused /\ Shaped' /\ \A d \in Callers : d # c => call'[d] = call[d]
  BY UnusedFields DEF SInv, Shaped, Finish
<1> QED BY <1>1, UnusedFields DEF CallStep, CallOK

LEMMA TimeoutOK ==
  ASSUME SInv, NEW c \in Callers, Timeout(c)
  PROVE  CallStep(c)
<1>0. CallOK(call[c]) /\ Shaped /\ up' = up
  BY DEF SInv, Timeout
<1>1. Shaped' /\ Only(c, {"gate", "code"}) /\ call'[c].gate = "answered"
  BY <1>0 DEF Shaped, Only, Fields, Timeout
<1>2. /\ call'[c].stage = call[c].stage /\ call'[c].in = call[c].in /\ call'[c].query = call[c].query
      /\ call'[c].got = call[c].got /\ call'[c].page = call[c].page
  BY <1>1 DEF Only, Fields
<1> QED BY <1>0, <1>1, <1>2 DEF CallStep, CallOK, Only, FitsWindow

LEMMA UnreachableOK ==
  ASSUME SInv, NEW c \in Callers, Unreachable(c)
  PROVE  CallStep(c)
<1>0. CallOK(call[c]) /\ Shaped /\ call[c].stage \in {"none", "sent"}
  BY DEF SInv, Unreachable
<1>1. /\ Shaped' /\ Only(c, {"gate", "stage", "code"})
      /\ call'[c].gate = "answered" /\ call'[c].stage = "none"
  BY <1>0 DEF Shaped, Only, Fields, Unreachable
<1>2. call'[c].got = call[c].got /\ call'[c].page = call[c].page
  BY <1>1 DEF Only, Fields
<1> QED BY <1>0, <1>1, <1>2 DEF CallStep, CallOK, Only

LEMMA CrashOK ==
  ASSUME SInv, Crash
  PROVE  Shaped' /\ \A c \in Callers : CallOK(call[c])'
<1>1. ASSUME NEW c \in Callers PROVE DOMAIN call'[c] = Fields /\ CallOK(call[c])'
  <2>1. PICK r : r = [Unused EXCEPT !.gate = call[c].gate, !.in = call[c].in, !.code = call[c].code]
    OBVIOUS
  <2>2. call'[c] = r
    BY <2>1 DEF Crash
  <2>3. DOMAIN r = Fields /\ r.gate = call[c].gate /\ r.stage = "none" /\ r.got = {} /\ r.page = NoPage
    BY <2>1, UnusedFields DEF Fields
  <2>4. call[c].gate \in {"idle", "waiting", "answered"}
    BY DEF SInv, CallOK
  <2> QED BY <2>2, <2>3, <2>4 DEF CallOK
<1>2. DOMAIN call' = Callers
  BY DEF Crash
<1> QED BY <1>1, <1>2 DEF Shaped

LEMMA ReceiveOK ==
  ASSUME SInv, NEW c \in Callers,
         ReceiveSearch(c) \/ ReceiveDetail(c) \/ ReceiveCode(c) \/ LookUpCode(c) \/ DetailUnreadable(c)
  PROVE  CallStep(c)
<1>0. CallOK(call[c]) /\ Shaped
  BY DEF SInv
<1>1. CASE ReceiveSearch(c)
  BY <1>1, ReplyOK, StartQueryOK DEF ReceiveSearch
<1>2. CASE ReceiveDetail(c)
  BY <1>2, ReplyOK DEF ReceiveDetail
<1>3. CASE ReceiveCode(c)
  <2>1. CASE call' = StartQuery(c, MakeQuery(call[c].in))
    BY <1>3, <2>1, StartQueryOK DEF ReceiveCode
  <2>2. CASE call' = [call EXCEPT ![c].stage = "lookup"]
    <3>1. Shaped' /\ Only(c, {"stage"}) /\ call'[c].stage = "lookup"
      BY <1>0, <2>2, LookupFields
    <3>2. /\ call'[c].gate = call[c].gate /\ call'[c].in = call[c].in
          /\ call'[c].got = call[c].got /\ call'[c].page = call[c].page
      BY <3>1 DEF Only, Fields
    <3>3. call[c].stage = "sent" /\ up' = up /\ up
      BY <1>3 DEF ReceiveCode
    <3> QED BY <1>0, <3>1, <3>2, <3>3 DEF CallStep, CallOK, Only
  <2> QED BY <1>3, <2>1, <2>2 DEF ReceiveCode
<1>4. CASE LookUpCode(c)
  BY <1>4, ReplyOK, StartQueryOK DEF LookUpCode
<1>5. CASE DetailUnreadable(c)
  BY <1>5, ReplyOK DEF DetailUnreadable
<1> QED BY <1>1, <1>2, <1>3, <1>4, <1>5

LEMMA SetOK ==
  ASSUME SInv, NEW c \in Callers, Set(c)
  PROVE  CallStep(c)
BY ReplyOK DEF Set

\* What the steps of a call do besides.
CallAction(c) ==
  \/ \E in \in budget.inputs : Ask(c, in)
  \/ Handler(c) \/ DetailUnreadable(c)
  \/ Timeout(c) \/ Unreachable(c) \/ Finish(c)

LEMMA CallActionOK ==
  ASSUME SInv, NEW c \in Callers, CallAction(c)
  PROVE  CallStep(c) /\ UNCHANGED <<catalog, retired, up, due, snapshot>>
<1>1. CallStep(c)
  BY AskOK, ReceiveOK, GetOK, CallbackOK, SetOK, RespondOK, TimeoutOK, UnreachableOK, FinishOK
     DEF CallAction, Handler
<1>2. UNCHANGED <<cvars, up, due, snapshot>>
  BY DEF CallAction, Handler, Ask, ReceiveSearch, ReceiveDetail, DetailUnreadable, ReceiveCode,
         LookUpCode, Get, Callback, Set, Respond, Timeout, Unreachable, Finish
<1> QED BY <1>1, <1>2 DEF cvars

LEMMA FaultBudget ==
  ASSUME SInv, Fault
  PROVE  budget' \in Budgets /\ budget'.rebuilds = budget.rebuilds
BY DEF SInv, Fault, Budgets

LEMMA CallActionBudget ==
  ASSUME SInv, NEW c \in Callers, CallAction(c)
  PROVE  budget' \in Budgets /\ budget'.rebuilds = budget.rebuilds
<1>1. budget' = budget \/ Fault
  BY DEF CallAction, Handler, Ask, ReceiveSearch, ReceiveDetail, DetailUnreadable, ReceiveCode,
         LookUpCode, Get, Callback, Set, Respond, Timeout, Unreachable, Finish
<1> QED BY <1>1, FaultBudget DEF SInv

\* Redis keeps one entry per key, and a late command takes its place there.
LEMMA StoredOK ==
  ASSUME CachesOK, NEW key, NEW page, FitsWindow(key.query), redis' = Stored(key, page), late' \subseteq late
  PROVE  CachesOK'
<1>1. PICK e : e = [key |-> key, page |-> page]
  OBVIOUS
<1>2. e.key = key /\ redis' = {f \in redis : f.key # key} \cup {e}
  BY <1>1 DEF Stored
<1>3. \A f \in redis' \cup late' : FitsWindow(f.key.query)
  BY <1>2 DEF CachesOK
<1>4. \A f, g \in redis' : f.key = g.key => f = g
  BY <1>2 DEF CachesOK
<1> QED BY <1>3, <1>4 DEF CachesOK, FitsWindow

LEMMA SetCaches ==
  ASSUME SInv, NEW c \in Callers, Set(c)
  PROVE  CachesOK'
<1>1. FitsWindow(Key(c).query) /\ CachesOK
  BY DEF SInv, CallOK, Set, Key
<1>2. CASE redis' = Stored(Key(c), call[c].page) /\ late' = late
  BY <1>1, <1>2, StoredOK
<1>3. CASE redis' = redis /\ late' = late
  BY <1>1, <1>3 DEF CachesOK, FitsWindow
<1>4. CASE redis' = redis /\ late' = late \cup {[key |-> Key(c), page |-> call[c].page]}
  <2>1. PICK e : e = [key |-> Key(c), page |-> call[c].page]
    OBVIOUS
  <2>2. e.key = Key(c) /\ late' = late \cup {e}
    BY <1>4, <2>1
  <2> QED BY <1>1, <1>4, <2>2 DEF CachesOK, FitsWindow
<1> QED BY <1>2, <1>3, <1>4 DEF Set

LEMMA CallActionCaches ==
  ASSUME SInv, NEW c \in Callers, CallAction(c)
  PROVE  CachesOK'
<1>1. CASE Set(c)
  BY <1>1, SetCaches
<1>2. CASE UNCHANGED <<redis, late>>
  BY <1>2 DEF SInv, CachesOK, FitsWindow
<1> QED BY <1>1, <1>2 DEF CallAction, Handler, Ask, ReceiveSearch, ReceiveDetail, DetailUnreadable,
      ReceiveCode, LookUpCode, Get, Callback, Respond, Timeout, Unreachable, Finish

LEMMA CallActionKeeps ==
  ASSUME SInv, NEW c \in Callers, CallAction(c)
  PROVE  SInv'
<1>1. CallStep(c) /\ UNCHANGED <<catalog, retired, up, due, snapshot>>
  BY CallActionOK
<1>2. \A d \in Callers : CallOK(call[d])'
  <2>1. ASSUME NEW d \in Callers, d # c PROVE CallOK(call[d])'
    <3>1. call'[d] = call[d] /\ up' = up /\ CallOK(call[d])
      BY <1>1, <2>1 DEF SInv, CallStep
    <3> QED BY <3>1 DEF CallOK, FitsWindow
  <2> QED BY <1>1, <2>1 DEF CallStep
<1>3. IndexOK'
  BY <1>1 DEF SInv, IndexOK, Apart
<1> QED BY <1>1, <1>2, <1>3, CallActionBudget, CallActionCaches DEF SInv, CallStep

\* The calls do not notice what happens to the index, the caches and the budget.
LEMMA CallsStay ==
  ASSUME SInv, call' = call, up' = up \/ (~up /\ up')
  PROVE  Shaped' /\ \A c \in Callers : CallOK(call[c])'
<1>1. \A c \in Callers : CallOK(call[c])
  BY DEF SInv
<1>2. Shaped'
  BY DEF SInv, Shaped
<1> QED BY <1>1, <1>2 DEF CallOK, FitsWindow

LEMMA PublishKeeps ==
  ASSUME SInv, NEW b \in Batches, NEW s \in Contents, PublishBatch(b, s)
  PROVE  SInv'
<1>1. /\ catalog' = [catalog EXCEPT ![b] = s] /\ retired' = retired /\ s \subseteq Archives
      /\ \A c \in Batches : catalog[c] \cap s = {}
      /\ UNCHANGED <<up, snapshot, redis, late, call, budget>> /\ due' = up
  BY BoundsAssumption DEF PublishBatch, Publish
<1>2. IndexOK'
  <2>1. catalog' \in Views
    BY <1>1 DEF SInv, IndexOK, Views
  <2>2. Apart(catalog)'
    <3>1. \A c \in Batches : catalog'[c] = IF c = b THEN s ELSE catalog[c]
      BY <1>1 DEF SInv, IndexOK, Views
    <3> QED BY <1>1, <3>1 DEF SInv, IndexOK, Apart
  <2>3. Apart(snapshot)'
    BY <1>1 DEF SInv, IndexOK, Apart
  <2> QED BY <1>1, <2>1, <2>2, <2>3 DEF SInv, IndexOK
<1>3. CachesOK'
  BY <1>1 DEF SInv, CachesOK, FitsWindow
<1> QED BY <1>1, <1>2, <1>3, CallsStay DEF SInv

LEMMA RebuildKeeps ==
  ASSUME SInv, NEW b \in Batches, Rebuild(b)
  PROVE  SInv' /\ budget'.rebuilds = budget.rebuilds - 1 /\ budget.rebuilds > 0
<1>1. /\ catalog' = [catalog EXCEPT ![b] = {}] /\ retired' = retired \cup {b}
      /\ UNCHANGED <<up, due, snapshot, redis, late, call>>
      /\ budget.rebuilds > 0 /\ budget' = [budget EXCEPT !.rebuilds = @ - 1]
  BY DEF Rebuild, Retire
<1>2. IndexOK'
  <2>1. catalog' \in Views
    BY <1>1 DEF SInv, IndexOK, Views
  <2>2. Apart(catalog)'
    <3>1. \A c \in Batches : catalog'[c] = IF c = b THEN {} ELSE catalog[c]
      BY <1>1 DEF SInv, IndexOK, Views
    <3> QED BY <1>1, <3>1 DEF SInv, IndexOK, Apart
  <2>3. Apart(snapshot)'
    BY <1>1 DEF SInv, IndexOK, Apart
  <2> QED BY <1>1, <2>1, <2>2, <2>3 DEF SInv, IndexOK
<1>3. CachesOK'
  BY <1>1 DEF SInv, CachesOK, FitsWindow
<1>4. budget' \in Budgets /\ budget'.rebuilds = budget.rebuilds - 1
  BY <1>1, BoundsAssumption DEF SInv, Budgets
<1> QED BY <1>1, <1>2, <1>3, <1>4, CallsStay DEF SInv

LEMMA LoadKeeps ==
  ASSUME SInv, Refresh \/ Start
  PROVE  /\ SInv' /\ budget'.rebuilds = budget.rebuilds
         /\ UNCHANGED <<catalog, retired, redis, late, details, call>>
         /\ snapshot' \in {snapshot, catalog}
<1>1. /\ UNCHANGED <<catalog, retired, redis, late, details, call>>
      /\ snapshot' \in {snapshot, catalog} /\ (budget' = budget \/ Fault)
      /\ (due' = due \/ due' = FALSE) /\ (up' = up \/ (~up /\ up')) /\ up' \in BOOLEAN
      /\ due' \in BOOLEAN /\ (due' => up')
  BY DEF Refresh, Start, cvars, SInv
<1>2. IndexOK'
  BY <1>1 DEF SInv, IndexOK, Apart
<1>3. CachesOK'
  BY <1>1 DEF SInv, CachesOK, FitsWindow
<1>4. budget' \in Budgets /\ budget'.rebuilds = budget.rebuilds
  BY <1>1, FaultBudget DEF SInv
<1> QED BY <1>1, <1>2, <1>3, <1>4, CallsStay DEF SInv

LEMMA CrashKeeps ==
  ASSUME SInv, Crash
  PROVE  /\ SInv' /\ budget'.rebuilds = budget.rebuilds
         /\ UNCHANGED <<catalog, retired, redis, late, snapshot>>
<1>1. /\ UNCHANGED <<catalog, retired, redis, late, snapshot>> /\ up' = FALSE /\ due' = FALSE
      /\ budget.crashes > 0 /\ budget' = [budget EXCEPT !.crashes = @ - 1]
  BY DEF Crash, cvars
<1>2. IndexOK'
  BY <1>1 DEF SInv, IndexOK, Apart
<1>3. CachesOK'
  BY <1>1 DEF SInv, CachesOK, FitsWindow
<1>4. budget' \in Budgets /\ budget'.rebuilds = budget.rebuilds
  BY <1>1 DEF SInv, Budgets
<1> QED BY <1>1, <1>2, <1>3, <1>4, CrashOK DEF SInv

LEMMA RedisKeeps ==
  ASSUME SInv, Expire \/ \E e \in late : LateSet(e)
  PROVE  SInv' /\ UNCHANGED <<catalog, retired, up, due, snapshot, call, budget>>
<1>1. UNCHANGED <<catalog, retired, up, due, snapshot, call, budget>>
  BY DEF Expire, LateSet, cvars
<1>2. CachesOK'
  <2>1. CASE Expire
    <3>1. redis' \subseteq redis /\ late' = late
      BY <2>1 DEF Expire
    <3> QED BY <3>1 DEF SInv, CachesOK, FitsWindow
  <2>2. CASE \E e \in late : LateSet(e)
    <3>1. PICK e \in late : redis' = Stored(e.key, e.page) /\ late' = late \ {e}
      BY <2>2 DEF LateSet
    <3>2. CachesOK /\ FitsWindow(e.key.query)
      BY DEF SInv, CachesOK
    <3> QED BY <3>1, <3>2, StoredOK
  <2> QED BY <2>1, <2>2
<1>3. IndexOK'
  BY <1>1 DEF SInv, IndexOK, Apart
<1> QED BY <1>1, <1>2, <1>3, CallsStay DEF SInv

LEMMA InitOK == ASSUME Init PROVE SInv
<1>1. /\ catalog = [b \in Batches |-> {}] /\ retired = {} /\ snapshot = [b \in Batches |-> {}]
      /\ up = FALSE /\ due = FALSE /\ redis = {} /\ late = {} /\ call = [c \in Callers |-> Unused]
  BY DEF Init, CatalogInit
<1>2. IndexOK
  BY <1>1 DEF IndexOK, Views, Apart
<1>3. budget \in Budgets
  BY BoundsAssumption DEF Init, Budgets
<1>4. Shaped /\ \A c \in Callers : CallOK(call[c])
  BY <1>1, UnusedFields DEF Shaped, CallOK
<1> QED BY <1>1, <1>2, <1>3, <1>4 DEF SInv, CachesOK

\* The steps of Next, as the proofs tell them apart.
LEMMA NextCases ==
  ASSUME [Next]_vars
  PROVE  \/ \E c \in Callers : CallAction(c)
         \/ \E b \in Batches : Rebuild(b)
         \/ \E b \in Batches, s \in Contents : PublishBatch(b, s)
         \/ Refresh \/ Start
         \/ Crash
         \/ Expire \/ \E e \in late : LateSet(e)
         \/ UNCHANGED vars
BY DEF Next, CallAction

LEMMA NextKeeps == ASSUME SInv, [Next]_vars PROVE SInv'
<1>1. CASE UNCHANGED vars
  <2>1. UNCHANGED <<catalog, retired, up, due, snapshot, redis, late, call, budget>>
    BY <1>1 DEF vars, cvars, svars
  <2>2. IndexOK' /\ CachesOK'
    BY <2>1 DEF SInv, IndexOK, CachesOK, Apart, FitsWindow
  <2> QED BY <2>1, <2>2, CallsStay DEF SInv
<1> QED BY <1>1, NextCases, CallActionKeeps, RebuildKeeps, PublishKeeps, LoadKeeps, CrashKeeps, RedisKeeps

\* The invariant the other theorems rest on: a handler runs only in a running
\* server, the pages of Redis and of the calls belong to queries within the
\* window, and a snapshot holds no archive twice.
THEOREM ServiceInvariant == Spec => []SInv
<1>1. Init => SInv
  BY InitOK
<1>2. SInv /\ [Next]_vars => SInv'
  BY NextKeeps
<1> QED BY <1>1, <1>2, PTL DEF Spec

LEMMA TypeFollows == ASSUME SInv PROVE TypeOK
<1>1. ASSUME NEW c \in Callers PROVE Cardinality(call[c].got) <= 1
  <2>1. \A p, q \in call[c].got : p = q
    BY DEF SInv, CallOK
  <2>2. CASE call[c].got = {}
    BY <2>2, FS_EmptySet
  <2>3. CASE call[c].got # {}
    <3>1. PICK p : call[c].got = {p}
      BY <2>1, <2>3
    <3>2. Cardinality({p}) = 1
      BY FS_Singleton
    <3> QED BY <3>1, <3>2
  <2> QED BY <2>2, <2>3
<1>2. \A c \in Callers : CallOK(call[c])
  BY DEF SInv
<1> QED BY <1>1, <1>2 DEF SInv, TypeOK, CallOK, IndexOK, CachesOK, Views, FitsWindow

\* TypeOK for any requests and any number of callers, batches, faults and
\* crashes: whatever passes the checks of the gateway and of the handlers, with
\* offsets that wrap at either width, no page beyond the window is computed or
\* taken from Redis, and Redis holds one page per key.
THEOREM ServiceTypeOK == Spec => []TypeOK
<1>1. SInv => TypeOK
  BY TypeFollows
<1> QED BY <1>1, ServiceInvariant, PTL

-----------------------------------------------------------------------------
(* Pages.  Until a batch is withdrawn the catalog only grows at its top, so *)
(* a version stands for one view of it, and every page there is was         *)
(* computed on one of these views.                                         *)

Upto(v) == [b \in Batches |-> IF b <= v THEN catalog[b] ELSE {}]
Versions == {0} \cup {b \in Batches : catalog[b] # {}}
Past == {Upto(v) : v \in Versions}

PageOf(page, q) == \E view \in Past : page = Search(view, q)

CallPages(r) ==
  /\ \A p \in r.got : PageOf(p, r.query)
  /\ r.stage = "set" => PageOf(r.page, r.query)
CachedPages == \A e \in redis \cup late : PageOf(e.page, e.key.query)
PagesOK == snapshot \in Past /\ CachedPages /\ \A c \in Callers : CallPages(call[c])

PInv == budget.rebuilds = MaxRebuilds => PagesOK

LEMMA UptoVersion ==
  ASSUME SInv, NEW v \in Versions
  PROVE  Upto(v) \in Views /\ Version(Upto(v)) = v
<1>0. catalog \in Views /\ Batches \subseteq Nat \ {0}
  BY IdsAssumption DEF SInv, IndexOK
<1>1. Upto(v) \in Views
  BY <1>0 DEF Upto, Views
<1>2. CASE v = 0
  <2>1. ASSUME NEW b \in Batches PROVE Upto(v)[b] = {}
    <3>1. ~(b <= v)
      BY <1>0, <1>2
    <3> QED BY <3>1 DEF Upto
  <2> QED BY <1>1, <1>2, <2>1, NoVersion
<1>3. CASE v \in Batches /\ catalog[v] # {}
  <2>1. Upto(v)[v] # {} /\ \A b \in Batches : Upto(v)[b] # {} => b <= v
    BY <1>0, <1>3 DEF Upto
  <2> QED BY <1>1, <1>3, <2>1, VersionIs
<1> QED BY <1>2, <1>3 DEF Versions

\* A version tells which view it is of.
LEMMA PastByVersion ==
  ASSUME SInv, NEW V \in Past, NEW W \in Past, Version(V) = Version(W)
  PROVE  V = W
BY UptoVersion DEF Past

LEMMA PastViews == ASSUME SInv PROVE Past \subseteq Views
BY UptoVersion DEF Past

\* What is READY now is one of them.
LEMMA CatalogIsPast == ASSUME SInv PROVE catalog \in Past
<1>0. catalog \in Views
  BY DEF SInv, IndexOK
<1>1. PICK v : v = Version(catalog)
  OBVIOUS
<1>2. v \in Versions /\ \A b \in Batches : catalog[b] # {} => b <= v
  BY <1>0, <1>1, VersionFacts DEF Versions
<1>3. Upto(v) = catalog
  BY <1>0, <1>2 DEF Upto, Views
<1> QED BY <1>2, <1>3 DEF Past

LEMMA PublishKeepsPast ==
  ASSUME SInv, NEW b \in Batches, NEW s, Publish(b, s)
  PROVE  Past \subseteq Past'
<1>1. /\ catalog \in Views /\ Batches \subseteq Nat \ {0} /\ catalog' = [catalog EXCEPT ![b] = s]
      /\ catalog[b] = {} /\ \A c \in Batches : catalog[c] # {} => c < b
  BY IdsAssumption DEF SInv, IndexOK, Publish
<1>2. ASSUME NEW v \in Versions PROVE v \in Versions' /\ Upto(v)' = Upto(v)
  <2>1. v \in Nat /\ v < b
    BY <1>1 DEF Versions
  <2>2. v \in Versions'
    BY <1>1 DEF Versions, Views
  <2>3. \A c \in Batches : c <= v => catalog'[c] = catalog[c]
    BY <1>1, <2>1 DEF Views
  <2> QED BY <2>2, <2>3 DEF Upto
<1> QED BY <1>2 DEF Past

\* What a step of a call does to its pages.
LEMMA CallKinds ==
  ASSUME SInv, NEW c \in Callers, CallAction(c)
  PROVE  \/ call'[c].stage \in {"none", "sent", "lookup", "get"}
         \/ Only(c, {"stage", "reply"}) /\ call'[c].stage = "reply"
         \/ Only(c, {"gate", "code"})
         \/ Get(c)
         \/ Callback(c)
<1>0. Shaped
  BY DEF SInv
<1>1. ASSUME NEW in \in budget.inputs, Ask(c, in) PROVE call'[c].stage \in {"none", "sent"}
  <2>1. PICK r : /\ call' = [call EXCEPT ![c] = r]
                 /\ \/ r = [Unused EXCEPT !.gate = "answered", !.in = in, !.code = "OPERATOR_TOKEN_INVALID"]
                    \/ r = [Unused EXCEPT !.gate = "waiting", !.stage = "sent", !.in = in]
                    \/ r = [Unused EXCEPT !.gate = "answered", !.in = in, !.code = "INVALID_ARGUMENT"]
    BY <1>1 DEF Ask
  <2>2. r.stage \in {"none", "sent"}
    BY <2>1, UnusedFields DEF Fields
  <2> QED BY <1>0, <2>1, <2>2 DEF Shaped
<1>2. CASE \E code : call' = Reply(c, code)
  BY <1>0, <1>2, ReplyFields
<1>3. CASE \E q : call' = StartQuery(c, q)
  BY <1>0, <1>3, StartQueryFields
<1>4. CASE call' = [call EXCEPT ![c].stage = "lookup"]
  BY <1>0, <1>4, LookupFields
<1>5. CASE Respond(c)
  <2>1. PICK r : /\ call' = [call EXCEPT ![c] = r]
                 /\ \E code : r = [Unused EXCEPT !.in = call[c].in, !.gate = "answered", !.code = code]
    BY <1>5 DEF Respond
  <2>2. r.stage = "none"
    BY <2>1, UnusedFields DEF Fields
  <2> QED BY <1>0, <2>1, <2>2 DEF Shaped
<1>6. CASE Finish(c)
  BY <1>0, <1>6, UnusedFields DEF Finish, Shaped
<1>7. CASE Timeout(c)
  BY <1>0, <1>7 DEF Timeout, Shaped, Only, Fields
<1>8. CASE Unreachable(c)
  BY <1>0, <1>8 DEF Unreachable, Shaped, Fields
<1>9. \/ \E in \in budget.inputs : Ask(c, in)
      \/ \E code : call' = Reply(c, code)
      \/ \E q : call' = StartQuery(c, q)
      \/ call' = [call EXCEPT ![c].stage = "lookup"]
      \/ Respond(c) \/ Finish(c) \/ Timeout(c) \/ Unreachable(c) \/ Get(c) \/ Callback(c)
  BY DEF CallAction, Handler, ReceiveSearch, ReceiveDetail, DetailUnreadable, ReceiveCode,
         LookUpCode, Set
<1> QED BY <1>1, <1>2, <1>3, <1>4, <1>5, <1>6, <1>7, <1>8, <1>9

LEMMA GetFields ==
  ASSUME SInv, NEW c \in Callers, Get(c)
  PROVE  /\ Only(c, {"stage", "got"}) /\ call'[c].stage = "callback"
         /\ \/ call'[c].got = {e.page : e \in {f \in redis : f.key = Key(c)}}
            \/ call'[c].got = call[c].got
<1>1. Shaped
  BY DEF SInv
<1>2. PICK pages : pages = {e.page : e \in {f \in redis : f.key = Key(c)}}
  OBVIOUS
<1>3. CASE call' = [call EXCEPT ![c].stage = "callback", ![c].got = pages]
  BY <1>1, <1>2, <1>3 DEF Shaped, Only, Fields
<1>4. CASE call' = [call EXCEPT ![c].stage = "callback"]
  BY <1>1, <1>4 DEF Shaped, Only, Fields
<1> QED BY <1>2, <1>3, <1>4 DEF Get

\* The pages a call holds stay pages of a view, in every step of the call.
LEMMA CallPagesStay ==
  ASSUME SInv, PagesOK, NEW c \in Callers, CallAction(c)
  PROVE  CallPages(call[c])'
<1>0. CallOK(call[c])' /\ CallPages(call[c]) /\ catalog' = catalog /\ Past' = Past
  <2>1. CallOK(call[c])' /\ catalog' = catalog
    BY CallActionOK DEF CallStep
  <2> QED BY <2>1 DEF PagesOK, Past, Upto, Versions
<1>1. CASE call'[c].stage \in {"none", "sent", "lookup", "get"}
  BY <1>0, <1>1 DEF CallOK, CallPages
<1>2. CASE Only(c, {"stage", "reply"}) /\ call'[c].stage = "reply"
  <2>1. call'[c].got = call[c].got /\ call'[c].query = call[c].query
    BY <1>2 DEF Only, Fields
  <2> QED BY <1>0, <1>2, <2>1 DEF CallPages, PageOf
<1>3. CASE Only(c, {"gate", "code"})
  <2>1. /\ call'[c].got = call[c].got /\ call'[c].query = call[c].query
        /\ call'[c].stage = call[c].stage /\ call'[c].page = call[c].page
    BY <1>3 DEF Only, Fields
  <2> QED BY <1>0, <2>1 DEF CallPages, PageOf
<1>4. CASE Get(c)
  <2>1. /\ Only(c, {"stage", "got"}) /\ call'[c].stage = "callback"
        /\ \/ call'[c].got = {e.page : e \in {f \in redis : f.key = Key(c)}}
           \/ call'[c].got = call[c].got
    BY <1>4, GetFields
  <2>2. call'[c].query = call[c].query
    BY <2>1 DEF Only, Fields
  <2>3. Key(c).query = call[c].query
    BY DEF Key
  <2>4. \A e \in redis : e.key = Key(c) => PageOf(e.page, call[c].query)
    BY <2>3 DEF PagesOK, CachedPages
  <2>5. \A p \in call'[c].got : PageOf(p, call[c].query)
    BY <1>0, <2>1, <2>4 DEF CallPages
  <2> QED BY <1>0, <2>1, <2>2, <2>5 DEF CallPages, PageOf
<1>5. CASE Callback(c)
  <2>0. Shaped
    BY DEF SInv
  <2>1. CASE call' = Restored(c)
    <3>1. call'[c].stage = "reply" /\ call'[c].got = {}
      BY <2>0, <2>1, RestoredFields
    <3> QED BY <3>1 DEF CallPages
  <2>2. CASE call' = Searched(c)
    <3>1. /\ call'[c].got = {} /\ call'[c].page = Search(snapshot, call[c].query)
          /\ Only(c, {"stage", "got", "page"})
      BY <2>0, <2>2, SearchedFields
    <3>2. call'[c].query = call[c].query /\ snapshot \in Past
      BY <3>1 DEF Only, Fields, PagesOK
    <3> QED BY <1>0, <3>1, <3>2 DEF CallPages, PageOf
  <2>3. CASE call' = Reply(c, "INDEX_CORRUPTED")
    <3>1. call'[c].stage = "reply" /\ Only(c, {"stage", "reply"})
      BY <2>0, <2>3, ReplyFields
    <3>2. call'[c].got = call[c].got /\ call'[c].query = call[c].query
      BY <3>1 DEF Only, Fields
    <3> QED BY <1>0, <3>1, <3>2 DEF CallPages, PageOf
  <2> QED BY <1>5, <2>1, <2>2, <2>3, CallbackCases
<1> QED BY <1>1, <1>2, <1>3, <1>4, <1>5, CallKinds

LEMMA CallActionPages ==
  ASSUME SInv, PagesOK, NEW c \in Callers, CallAction(c)
  PROVE  PagesOK'
<1>0. /\ catalog' = catalog /\ Past' = Past /\ snapshot' = snapshot
      /\ \A d \in Callers : d # c => call'[d] = call[d]
  <2>1. CallStep(c) /\ catalog' = catalog /\ snapshot' = snapshot
    BY CallActionOK
  <2> QED BY <2>1 DEF CallStep, Past, Upto, Versions
<1>1. ASSUME NEW d \in Callers PROVE CallPages(call[d])'
  <2>1. CASE d # c
    BY <1>0, <2>1 DEF PagesOK, CallPages, PageOf
  <2> QED BY <2>1, CallPagesStay
<1>2. ASSUME NEW e \in redis' \cup late' PROVE e \in redis \cup late \/ PageOf(e.page, e.key.query)
  <2>1. CASE UNCHANGED <<redis, late>>
    BY <2>1
  <2>2. CASE Set(c)
    <3>1. PICK n : n = [key |-> Key(c), page |-> call[c].page]
      OBVIOUS
    <3>2. n.page = call[c].page /\ n.key.query = call[c].query
      BY <3>1 DEF Key
    <3>3. redis' \cup late' \subseteq redis \cup late \cup {n}
      BY <2>2, <3>1 DEF Set, Stored
    <3>4. PageOf(n.page, n.key.query)
      BY <2>2, <3>2 DEF PagesOK, CallPages, Set
    <3> QED BY <3>3, <3>4
  <2> QED BY <2>1, <2>2 DEF CallAction, Handler, Ask, ReceiveSearch, ReceiveDetail, DetailUnreadable,
      ReceiveCode, LookUpCode, Get, Callback, Respond, Timeout, Unreachable, Finish
<1>3. CachedPages'
  BY <1>0, <1>2 DEF PagesOK, CachedPages, PageOf
<1> QED BY <1>0, <1>1, <1>3 DEF PagesOK

\* Steps outside the calls: views are added, never changed, and what moves in
\* Redis was there before.
LEMMA OtherPages ==
  ASSUME PagesOK, Past \subseteq Past', snapshot' \in {snapshot} \cup Past',
         redis' \cup late' \subseteq redis \cup late,
         \A c \in Callers :
           call'[c] = call[c] \/ (call'[c].got = {} /\ call'[c].stage # "set")
  PROVE  PagesOK'
<1>1. \A c \in Callers : CallPages(call[c])'
  BY DEF PagesOK, CallPages, PageOf
<1>2. CachedPages'
  BY DEF PagesOK, CachedPages, PageOf
<1> QED BY <1>1, <1>2 DEF PagesOK

LEMMA NextPages ==
  ASSUME SInv, PInv, [Next]_vars
  PROVE  PInv'
<1> SUFFICES ASSUME budget'.rebuilds = MaxRebuilds PROVE PagesOK'
  BY DEF PInv
<1>0. SInv'
  BY NextKeeps
<1>1. CASE \E c \in Callers : CallAction(c)
  <2>1. PICK c \in Callers : CallAction(c)
    BY <1>1
  <2>2. PagesOK
    BY <2>1, CallActionBudget DEF PInv
  <2> QED BY <2>1, <2>2, CallActionPages
<1>2. ASSUME NEW b \in Batches, Rebuild(b) PROVE FALSE
  <2>1. budget.rebuilds \in 0..MaxRebuilds /\ MaxRebuilds \in Nat
    BY BoundsAssumption DEF SInv, Budgets
  <2> QED BY <1>2, <2>1, RebuildKeeps
<1>3. ASSUME NEW b \in Batches, NEW s \in Contents, PublishBatch(b, s) PROVE PagesOK'
  <2>1. Publish(b, s) /\ UNCHANGED <<snapshot, redis, late, call, budget>>
    BY <1>3 DEF PublishBatch
  <2>2. Past \subseteq Past'
    BY <2>1, PublishKeepsPast
  <2> QED BY <2>1, <2>2, OtherPages DEF PInv
<1>4. ASSUME UNCHANGED catalog PROVE Past' = Past
  BY <1>4 DEF Past, Upto, Versions
<1>5. CASE Refresh \/ Start
  <2>1. /\ budget'.rebuilds = budget.rebuilds /\ UNCHANGED <<catalog, redis, late, call>>
        /\ snapshot' \in {snapshot, catalog}
    BY <1>5, LoadKeeps
  <2>2. catalog \in Past
    BY CatalogIsPast
  <2> QED BY <1>4, <2>1, <2>2, OtherPages DEF PInv
<1>6. CASE Crash
  <2>1. budget'.rebuilds = budget.rebuilds /\ UNCHANGED <<catalog, redis, late, snapshot>>
    BY <1>6, CrashKeeps
  <2>2. ASSUME NEW c \in Callers PROVE call'[c].got = {} /\ call'[c].stage # "set"
    <3>1. PICK r : r = [Unused EXCEPT !.gate = call[c].gate, !.in = call[c].in, !.code = call[c].code]
      OBVIOUS
    <3>2. call'[c] = r
      BY <1>6, <3>1 DEF Crash
    <3> QED BY <3>1, <3>2, UnusedFields DEF Fields
  <2> QED BY <1>4, <2>1, <2>2, OtherPages DEF PInv
<1>7. CASE Expire
  <2>1. UNCHANGED <<catalog, snapshot, late, call, budget>> /\ redis' \subseteq redis
    BY <1>7 DEF Expire, cvars
  <2> QED BY <1>4, <2>1, OtherPages DEF PInv
<1>8. CASE \E e \in late : LateSet(e)
  <2>1. PICK e \in late : redis' = Stored(e.key, e.page)
    BY <1>8 DEF LateSet
  <2>2. UNCHANGED <<catalog, snapshot, call, budget>> /\ late' \subseteq late
    BY <1>8 DEF LateSet, cvars
  <2>3. PagesOK /\ Past' = Past
    BY <1>4, <2>2 DEF PInv
  <2>4. PICK n : n = [key |-> e.key, page |-> e.page]
    OBVIOUS
  <2>5. PageOf(n.page, n.key.query) /\ redis' \subseteq redis \cup {n}
    BY <2>1, <2>3, <2>4 DEF PagesOK, CachedPages, Stored
  <2>6. CachedPages'
    <3> SUFFICES ASSUME NEW f \in redis' \cup late' PROVE PageOf(f.page, f.key.query)
      BY <2>3 DEF CachedPages, PageOf
    <3> QED BY <2>2, <2>3, <2>5 DEF PagesOK, CachedPages
  <2>7. \A c \in Callers : CallPages(call[c])'
    BY <2>2, <2>3 DEF PagesOK, CallPages, PageOf
  <2> QED BY <2>2, <2>3, <2>6, <2>7 DEF PagesOK
<1>9. CASE UNCHANGED vars
  <2>1. UNCHANGED <<catalog, snapshot, redis, late, call, budget>>
    BY <1>9 DEF vars, cvars, svars
  <2> QED BY <1>4, <2>1, OtherPages DEF PInv
<1> QED BY <1>1, <1>2, <1>3, <1>5, <1>6, <1>7, <1>8, <1>9, NextCases

LEMMA InitPages == ASSUME Init PROVE PInv
<1>1. SInv
  BY InitOK
<1>2. /\ snapshot = catalog /\ redis = {} /\ late = {} /\ call = [c \in Callers |-> Unused]
  BY DEF Init, CatalogInit
<1>3. \A c \in Callers : CallPages(call[c])
  BY <1>2, UnusedFields DEF CallPages
<1> QED BY <1>1, <1>2, <1>3, CatalogIsPast DEF PInv, PagesOK, CachedPages

\* Only the callback of GET gives a call a page.
LEMMA NewPageOnlyByCallback ==
  ASSUME SInv, [Next]_vars, NEW c \in Callers, NewPage(c)
  PROVE  Callback(c)
<1>1. ASSUME NEW d \in Callers, CallAction(d) PROVE Callback(c)
  <2>1. CallStep(d)
    BY <1>1, CallActionOK
  <2>2. d = c
    BY <2>1 DEF CallStep, NewPage
  <2>3. CASE call'[c].stage \in {"none", "sent", "lookup", "get"}
    BY <2>1, <2>2, <2>3 DEF CallStep, CallOK, NewPage
  <2>4. CASE Only(c, {"stage", "reply"}) \/ Only(c, {"gate", "code"}) \/ Only(c, {"stage", "got"})
    BY <2>4 DEF Only, Fields, NewPage
  <2> QED BY <1>1, <2>2, <2>3, <2>4, CallKinds, GetFields
<1>2. CASE UNCHANGED call
  BY <1>2 DEF NewPage
<1>3. CASE Crash
  <2>1. PICK r : r = [Unused EXCEPT !.gate = call[c].gate, !.in = call[c].in, !.code = call[c].code]
    OBVIOUS
  <2>2. call'[c] = r
    BY <1>3, <2>1 DEF Crash
  <2> QED BY <2>1, <2>2, UnusedFields DEF Fields, NewPage
<1>4. \/ \E d \in Callers : CallAction(d)
      \/ UNCHANGED call \/ Crash
  BY NextCases DEF Rebuild, PublishBatch, Refresh, Start, Expire, LateSet, vars, svars
<1> QED BY <1>1, <1>2, <1>3, <1>4

LEMMA CallbackIsCurrent ==
  ASSUME SInv, PInv, NEW c \in Callers, Callback(c), NewPage(c)
  PROVE  /\ \A i \in DOMAIN call'[c].page.ids : HasDocument(snapshot, call'[c].page.ids[i])
         /\ budget.rebuilds = MaxRebuilds => PageIsSearched(c)
<1>0. /\ CallOK(call[c]) /\ Shaped /\ call[c].stage = "callback"
      /\ call[c].query = MakeQuery(call[c].in) /\ call[c].in \in Inputs
      /\ snapshot \in Views /\ Apart(snapshot)
  BY DEF SInv, CallOK, Callback, IndexOK
<1>1. CASE call' = Restored(c) /\ \E p \in call[c].got : Restores(p) /\ call'[c].page = p
  <2>1. PICK p \in call[c].got : Restores(p) /\ call'[c].page = p
    BY <1>1
  <2>2. \A i \in DOMAIN p.ids : HasDocument(snapshot, p.ids[i])
    BY <2>1 DEF Restores
  <2>3. ASSUME budget.rebuilds = MaxRebuilds PROVE p = Search(snapshot, call[c].query)
    <3>1. PICK view \in Past : p = Search(view, call[c].query)
      BY <2>3 DEF PInv, PagesOK, CallPages, PageOf
    <3>2. p.version = Version(view) /\ p.version = Version(snapshot)
      BY <2>1, <3>1 DEF Search, Restores
    <3>3. snapshot \in Past
      BY <2>3 DEF PInv, PagesOK
    <3> QED BY <3>1, <3>2, <3>3, PastByVersion
  <2> QED BY <1>0, <2>1, <2>2, <2>3 DEF PageIsSearched
<1>2. CASE call' = Searched(c)
  <2>1. call'[c].page = Search(snapshot, call[c].query)
    BY <1>0, <1>2, SearchedFields
  <2>2. call[c].query.offset \in Nat /\ call[c].query.size \in Nat
    BY <1>0, QueryFacts
  <2> QED BY <1>0, <2>1, <2>2, SearchFacts DEF PageIsSearched
<1>3. CASE call' = Reply(c, "INDEX_CORRUPTED")
  <2>1. Only(c, {"stage", "reply"})
    BY <1>0, <1>3, ReplyFields
  <2> QED BY <2>1 DEF Only, Fields, NewPage
<1> QED BY <1>1, <1>2, <1>3, CallbackCases

\* PageIsCurrent for any requests and any number of callers, batches, faults
\* and crashes: however refreshes, late SETEX commands and restarts fall between
\* the version in the key, GET, the search and SETEX, a page lists documents of
\* the snapshot current when it is made, and until a rebuild it is exactly what
\* a search of that snapshot gives.
THEOREM PagesAreCurrent == Spec => PageIsCurrent
<1>1. Init => SInv /\ PInv
  BY InitOK, InitPages
<1>2. SInv /\ PInv /\ [Next]_vars => (SInv /\ PInv)'
  BY NextKeeps, NextPages
<1>3. SInv /\ PInv /\ [Next]_vars =>
        [\A c \in Callers : NewPage(c) =>
           /\ \A i \in DOMAIN call'[c].page.ids : HasDocument(snapshot, call'[c].page.ids[i])
           /\ budget.rebuilds = MaxRebuilds => PageIsSearched(c)]_vars
  BY NewPageOnlyByCallback, CallbackIsCurrent
<1> QED BY <1>1, <1>2, <1>3, PTL DEF Spec, PageIsCurrent

-----------------------------------------------------------------------------
(* Details.  The cache may keep the details of a batch after its rebuild,  *)
(* under the version of the snapshot that still held it.  What excludes a  *)
(* stale answer is that no later snapshot has this version: a refresh      *)
(* follows a publication, and the batch published is above every version   *)
(* in the cache, unless it too has been withdrawn since.                   *)

Known(v) == v = 0 \/ v \in retired \/ (v \in Batches /\ catalog[v] # {})
KnownDoc(doc) == HasDocument(catalog, doc) \/ doc.batch \in retired

\* The snapshot holds batches as they are in the catalog, or withdrawn ones.
SnapshotOK ==
  /\ \A b \in retired : catalog[b] = {}
  /\ \A b \in Batches : snapshot[b] = {} \/ snapshot[b] = catalog[b] \/ b \in retired

\* How many batches have been withdrawn.
RetiredOK ==
  /\ budget.rebuilds = MaxRebuilds => retired = {}
  /\ budget.rebuilds + 1 = MaxRebuilds => \A x, y \in retired : x = y

EntriesOK ==
  /\ ~up => details = {}
  /\ \A e \in details : Known(e.version) /\ KnownDoc(e.doc)

\* The batch the worker has published: nothing in the cache is about it.
Top(b) == catalog[b] # {} /\ \A c \in Batches : catalog[c] # {} => c <= b
Fresh(b) == snapshot[b] = {} /\ \A e \in details : e.version # b /\ e.doc.batch # b
DueOK == due => \E b \in Batches : (b \in retired \/ Top(b)) /\ Fresh(b)

EntriesCurrent ==
  \A e \in details : e.version = Version(snapshot) => HasDocument(snapshot, e.doc)

DInv ==
  /\ SnapshotOK /\ RetiredOK /\ EntriesOK /\ DueOK
  /\ budget.rebuilds + 1 >= MaxRebuilds => EntriesCurrent

\* The largest loaded batch, and a document that is loaded, are known.
LEMMA LoadedIsKnown ==
  ASSUME SInv, SnapshotOK
  PROVE  /\ Known(Version(snapshot))
         /\ \A doc : HasDocument(snapshot, doc) => KnownDoc(doc)
<1>1. snapshot \in Views
  BY DEF SInv, IndexOK
<1>2. Version(snapshot) = 0 \/ (Version(snapshot) \in Batches /\ snapshot[Version(snapshot)] # {})
  BY <1>1, VersionFacts
<1> QED BY <1>2 DEF SnapshotOK, Known, KnownDoc, HasDocument

LEMMA PublishDetails ==
  ASSUME SInv, DInv, NEW b \in Batches, NEW s \in Contents, PublishBatch(b, s)
  PROVE  DInv'
<1>1. /\ catalog[b] = {} /\ b \notin retired /\ s # {} /\ \A c \in Batches : catalog[c] # {} => c < b
      /\ UNCHANGED <<retired, up, snapshot, details, budget>> /\ due' = up
      /\ \A c \in Batches : catalog'[c] = IF c = b THEN s ELSE catalog[c]
      /\ b \in Nat \ {0} /\ retired \subseteq Batches
  BY IdsAssumption DEF PublishBatch, Publish, SInv, IndexOK, Views
<1>2. SnapshotOK'
  BY <1>1 DEF DInv, SnapshotOK
<1>3. \A v : Known(v) => Known(v)' /\ v # b
  BY <1>1 DEF Known
<1>4. \A doc : KnownDoc(doc) => (HasDocument(catalog', doc) \/ doc.batch \in retired') /\ doc.batch # b
  BY <1>1 DEF KnownDoc, HasDocument
<1>5. EntriesOK'
  BY <1>1, <1>3, <1>4 DEF DInv, EntriesOK, KnownDoc, Known
<1>6. DueOK'
  <2>1. Top(b)'
    <3>1. ASSUME NEW c \in Batches, catalog'[c] # {} PROVE c <= b
      <4>1. c \in Nat /\ b \in Nat /\ (c = b \/ c < b)
        BY <1>1, <3>1, IdsAssumption
      <4> QED BY <4>1
    <3>2. catalog'[b] # {}
      BY <1>1
    <3> QED BY <3>1, <3>2 DEF Top
  <2>2. Fresh(b)'
    BY <1>1, <1>3, <1>4 DEF DInv, SnapshotOK, EntriesOK, Fresh
  <2> QED BY <2>1, <2>2 DEF DueOK
<1>7. RetiredOK' /\ (budget'.rebuilds + 1 >= MaxRebuilds => EntriesCurrent')
  BY <1>1 DEF DInv, RetiredOK, EntriesCurrent, HasDocument
<1> QED BY <1>2, <1>5, <1>6, <1>7 DEF DInv

LEMMA RebuildDetails ==
  ASSUME SInv, DInv, NEW b \in Batches, Rebuild(b)
  PROVE  DInv'
<1>1. /\ \A c \in Batches : catalog'[c] = IF c = b THEN {} ELSE catalog[c]
      /\ retired' = retired \cup {b} /\ UNCHANGED <<up, due, snapshot, details>>
      /\ retired \subseteq Batches
  BY DEF Rebuild, Retire, SInv, IndexOK, Views
<1>2. /\ budget.rebuilds \in 0..MaxRebuilds /\ budget'.rebuilds = budget.rebuilds - 1 /\ MaxRebuilds \in Nat
  BY RebuildKeeps, BoundsAssumption DEF SInv, Budgets
<1>3. budget'.rebuilds # MaxRebuilds
      /\ (budget'.rebuilds + 1 >= MaxRebuilds => budget.rebuilds = MaxRebuilds)
      /\ (budget'.rebuilds + 1 = MaxRebuilds => budget.rebuilds = MaxRebuilds)
  BY <1>2
<1>4. RetiredOK'
  BY <1>1, <1>3 DEF DInv, RetiredOK
<1>5. SnapshotOK'
  BY <1>1 DEF DInv, SnapshotOK
<1>6. EntriesOK'
  <2>1. \A v : Known(v) => Known(v)'
    BY <1>1 DEF Known
  <2>2. \A doc : KnownDoc(doc) => HasDocument(catalog', doc) \/ doc.batch \in retired'
    BY <1>1 DEF KnownDoc, HasDocument
  <2> QED BY <1>1, <2>1, <2>2 DEF DInv, EntriesOK, KnownDoc, Known
<1>7. DueOK'
  <2>1. \A c \in Batches : c \in retired \/ Top(c) => c \in retired' \/ Top(c)'
    BY <1>1 DEF Top
  <2>2. \A c : Fresh(c) => Fresh(c)'
    BY <1>1 DEF Fresh
  <2> QED BY <1>1, <2>1, <2>2 DEF DInv, DueOK
<1>8. budget'.rebuilds + 1 >= MaxRebuilds => EntriesCurrent'
  <2>1. budget.rebuilds = MaxRebuilds => budget.rebuilds + 1 >= MaxRebuilds
    BY <1>2
  <2>2. EntriesCurrent => EntriesCurrent'
    BY <1>1 DEF EntriesCurrent, HasDocument
  <2> QED BY <1>3, <2>1, <2>2 DEF DInv
<1> QED BY <1>4, <1>5, <1>6, <1>7, <1>8 DEF DInv

\* The worker loads what is READY: the version is that of the batch published,
\* or if that one was the batch withdrawn, nothing in the cache is withdrawn.
LEMMA RefreshDetails ==
  ASSUME SInv, DInv, Refresh
  PROVE  DInv'
<1>0. /\ UNCHANGED <<catalog, retired, up, details>> /\ up /\ due /\ due' = FALSE
      /\ budget'.rebuilds = budget.rebuilds /\ snapshot' \in {snapshot, catalog}
  BY LoadKeeps DEF Refresh, cvars
<1>1. SnapshotOK' /\ RetiredOK' /\ EntriesOK' /\ DueOK'
  BY <1>0 DEF DInv, SnapshotOK, RetiredOK, EntriesOK, DueOK, Known, KnownDoc, HasDocument
<1>2. ASSUME budget.rebuilds + 1 >= MaxRebuilds PROVE EntriesCurrent'
  <2>1. CASE snapshot' = snapshot
    BY <1>0, <1>2, <2>1 DEF DInv, EntriesCurrent
  <2>2. CASE snapshot' = catalog
    <3> SUFFICES ASSUME NEW e \in details, e.version = Version(catalog)
                 PROVE  HasDocument(catalog, e.doc)
      BY <1>0, <2>2 DEF EntriesCurrent
    <3>1. PICK b \in Batches : (b \in retired \/ Top(b)) /\ Fresh(b)
      BY <1>0 DEF DInv, DueOK
    <3>2. CASE Top(b)
      <4>1. Version(catalog) = b
        BY <3>2, VersionIs DEF Top, SInv, IndexOK
      <4> QED BY <3>1, <4>1 DEF Fresh
    <3>3. CASE b \in retired
      <4>1. budget.rebuilds \in 0..MaxRebuilds /\ MaxRebuilds \in Nat
        BY BoundsAssumption DEF SInv, Budgets
      <4>2. budget.rebuilds = MaxRebuilds \/ budget.rebuilds + 1 = MaxRebuilds
        BY <1>2, <4>1
      <4>3. \A x \in retired : x = b
        BY <3>3, <4>2 DEF DInv, RetiredOK
      <4>4. e.doc.batch \notin retired
        BY <3>1, <4>3 DEF Fresh
      <4> QED BY <4>4 DEF DInv, EntriesOK, KnownDoc
    <3> QED BY <3>1, <3>2, <3>3
  <2> QED BY <1>0, <2>1, <2>2
<1> QED BY <1>0, <1>1, <1>2 DEF DInv

LEMMA StartDetails ==
  ASSUME SInv, DInv, Start
  PROVE  DInv'
<1>0. /\ UNCHANGED <<catalog, retired, details, due, budget>> /\ ~up /\ ~due /\ details = {}
      /\ snapshot' = catalog
  BY DEF Start, cvars, SInv, DInv, EntriesOK
<1>1. SnapshotOK' /\ RetiredOK' /\ EntriesOK' /\ DueOK'
  BY <1>0 DEF DInv, SnapshotOK, RetiredOK, EntriesOK, DueOK
<1>2. EntriesCurrent'
  BY <1>0 DEF EntriesCurrent
<1> QED BY <1>1, <1>2 DEF DInv

LEMMA CrashDetails ==
  ASSUME SInv, DInv, Crash
  PROVE  DInv'
<1>0. /\ UNCHANGED <<catalog, retired, snapshot>> /\ details' = {} /\ due' = FALSE
      /\ budget'.rebuilds = budget.rebuilds
  BY CrashKeeps DEF Crash
<1>1. SnapshotOK' /\ RetiredOK' /\ EntriesOK' /\ DueOK'
  BY <1>0 DEF DInv, SnapshotOK, RetiredOK, EntriesOK, DueOK
<1>2. EntriesCurrent'
  BY <1>0 DEF EntriesCurrent
<1> QED BY <1>1, <1>2 DEF DInv

\* Steps that leave the index and the server alone and put into the cache at
\* most a document of the snapshot, under its version.
LEMMA CacheDetails ==
  ASSUME SInv, DInv, UNCHANGED <<catalog, retired, up, due, snapshot>>,
         budget'.rebuilds = budget.rebuilds,
         \A e \in details' : \/ e \in details
                             \/ up /\ e.version = Version(snapshot) /\ HasDocument(snapshot, e.doc)
  PROVE  DInv'
<1>1. SnapshotOK' /\ RetiredOK'
  BY DEF DInv, SnapshotOK, RetiredOK
<1>2. /\ Known(Version(snapshot)) /\ \A doc : HasDocument(snapshot, doc) => KnownDoc(doc)
  BY LoadedIsKnown DEF DInv
<1>3. \A e \in details' : Known(e.version) /\ KnownDoc(e.doc) /\ (e \in details \/ up)
  BY <1>2 DEF DInv, EntriesOK
<1>4. EntriesOK'
  BY <1>3 DEF DInv, EntriesOK, Known, KnownDoc, HasDocument
<1>5. ASSUME NEW b \in Batches, Fresh(b) PROVE Fresh(b)'
  <2>1. snapshot \in Views /\ 0 \notin Batches
    BY IdsAssumption DEF SInv, IndexOK
  <2>2. Version(snapshot) # b
    BY <1>5, <2>1, VersionFacts DEF Fresh
  <2>3. \A doc : HasDocument(snapshot, doc) => doc.batch # b
    BY <1>5 DEF Fresh, HasDocument
  <2> QED BY <1>5, <2>2, <2>3 DEF Fresh
<1>6. DueOK'
  BY <1>5 DEF DInv, DueOK, Top
<1>7. EntriesCurrent => EntriesCurrent'
  BY DEF EntriesCurrent
<1> QED BY <1>1, <1>4, <1>6, <1>7 DEF DInv

LEMMA CallActionDetails ==
  ASSUME SInv, DInv, NEW c \in Callers, CallAction(c)
  PROVE  DInv'
<1>1. UNCHANGED <<catalog, retired, up, due, snapshot>> /\ budget'.rebuilds = budget.rebuilds
  BY CallActionOK, CallActionBudget
<1>2. CASE details' = details
  BY <1>1, <1>2, CacheDetails
<1>3. CASE ReceiveDetail(c)
  <2>1. PICK n : n = DetailEntry(call[c].in.doc)
    OBVIOUS
  <2>2. n.version = Version(snapshot) /\ n.doc = call[c].in.doc
    BY <2>1 DEF DetailEntry
  <2>3. /\ up /\ details' \subseteq details \cup {n}
        /\ n \in details' => n \in details \/ HasDocument(snapshot, n.doc)
    BY <1>3, <2>1, <2>2 DEF ReceiveDetail
  <2> QED BY <1>1, <2>2, <2>3, CacheDetails
<1> QED BY <1>2, <1>3 DEF CallAction, Handler, Ask, ReceiveSearch, DetailUnreadable, ReceiveCode,
      LookUpCode, Get, Callback, Set, Respond, Timeout, Unreachable, Finish

LEMMA NextDetails == ASSUME SInv, DInv, [Next]_vars PROVE DInv'
<1>1. CASE (Expire \/ \E e \in late : LateSet(e)) \/ UNCHANGED vars
  <2>1. UNCHANGED <<catalog, retired, up, due, snapshot, budget>> /\ details' \subseteq details
    BY <1>1 DEF Expire, LateSet, vars, svars, cvars
  <2> QED BY <2>1, CacheDetails
<1> QED BY <1>1, NextCases, CallActionDetails, RebuildDetails, PublishDetails, RefreshDetails, StartDetails,
           CrashDetails

LEMMA InitDetails == ASSUME Init PROVE DInv
BY DEF Init, CatalogInit, DInv, SnapshotOK, RetiredOK, EntriesOK, DueOK, EntriesCurrent

\* The reply to a detail call.
LEMMA DetailReply ==
  ASSUME SInv, [Next]_vars, NEW c \in Callers, DetailAnswered(c)
  PROVE  ReceiveDetail(c) \/ (DetailUnreadable(c) /\ call'[c].reply = "STORAGE_IO_ERROR")
<1>0. Shaped /\ call[c].stage = "sent" /\ call'[c].stage = "reply" /\ call[c].in.op = "detail"
  BY DEF SInv, DetailAnswered
<1>1. ASSUME NEW d \in Callers, CallAction(d)
      PROVE  ReceiveDetail(c) \/ (DetailUnreadable(c) /\ call'[c].reply = "STORAGE_IO_ERROR")
  <2>1. d = c
    BY <1>0, <1>1, CallActionOK DEF CallStep
  <2>2. CASE DetailUnreadable(c)
    BY <1>0, <2>2, ReplyFields DEF DetailUnreadable
  <2>3. CASE ReceiveDetail(c)
    BY <2>3
  <2>5. ASSUME NEW in \in budget.inputs, Ask(c, in) PROVE FALSE
    BY <1>0, <2>5 DEF Ask
  <2>6. CASE Timeout(c)
    BY <1>0, <2>6 DEF Timeout, Shaped, Fields
  <2>7. CASE Unreachable(c)
    BY <1>0, <2>7 DEF Unreachable, Shaped, Fields
  <2>8. ~ReceiveSearch(c) /\ ~ReceiveCode(c) /\ ~LookUpCode(c) /\ ~Get(c) /\ ~Callback(c) /\ ~Set(c)
        /\ ~Respond(c) /\ ~Finish(c)
    BY <1>0 DEF ReceiveSearch, ReceiveCode, LookUpCode, Get, Callback, Set, Respond, Finish
  <2> QED BY <1>1, <2>1, <2>2, <2>3, <2>5, <2>6, <2>7, <2>8
     DEF CallAction, Handler
<1>2. CASE UNCHANGED call
  BY <1>0, <1>2
<1>3. CASE Crash
  <2>1. PICK r : r = [Unused EXCEPT !.gate = call[c].gate, !.in = call[c].in, !.code = call[c].code]
    OBVIOUS
  <2>2. call'[c] = r /\ r.stage = "none"
    BY <1>3, <2>1, UnusedFields DEF Crash, Fields
  <2> QED BY <1>0, <2>2
<1>4. \/ \E d \in Callers : CallAction(d)
      \/ UNCHANGED call \/ Crash
  BY NextCases DEF Rebuild, PublishBatch, Refresh, Start, Expire, LateSet, vars, svars
<1> QED BY <1>1, <1>2, <1>3, <1>4

LEMMA DetailStep ==
  ASSUME SInv, DInv, [Next]_vars, NEW c \in Callers, DetailAnswered(c),
         budget.rebuilds + 1 >= MaxRebuilds
  PROVE  DetailIsThere(c)
<1>1. CASE ReceiveDetail(c)
  <2>1. PICK n : n = DetailEntry(call[c].in.doc)
    OBVIOUS
  <2>2. n.version = Version(snapshot) /\ n.doc = call[c].in.doc
    BY <2>1 DEF DetailEntry
  <2>3. n \in details => HasDocument(snapshot, call[c].in.doc)
    BY <2>2 DEF DInv, EntriesCurrent
  <2>4. CASE call' = Reply(c, "OK") /\ (n \in details \/ HasDocument(snapshot, call[c].in.doc))
    <3>1. call'[c].reply = "OK"
      BY <2>4, ReplyFields DEF SInv
    <3> QED BY <2>3, <2>4, <3>1 DEF DetailIsThere
  <2>5. CASE call' = Reply(c, "LOG_NOT_FOUND") /\ ~HasDocument(snapshot, call[c].in.doc)
    <3>1. call'[c].reply = "LOG_NOT_FOUND"
      BY <2>5, ReplyFields DEF SInv
    <3> QED BY <2>5, <3>1 DEF DetailIsThere
  <2> QED BY <1>1, <2>1, <2>4, <2>5 DEF ReceiveDetail
<1>2. CASE call'[c].reply = "STORAGE_IO_ERROR"
  BY <1>2 DEF DetailIsThere
<1> QED BY <1>1, <1>2, DetailReply

\* DetailIsCurrent for any requests and any number of callers, batches, faults
\* and crashes: with the detail cache asked first, a detail is shown for
\* documents of the current snapshot only, and refused only for others, until a
\* second batch is withdrawn.
THEOREM DetailsAreCurrent == Spec => DetailIsCurrent
<1>1. Init => SInv /\ DInv
  BY InitOK, InitDetails
<1>2. SInv /\ DInv /\ [Next]_vars => (SInv /\ DInv)'
  BY NextKeeps, NextDetails
<1>3. SInv /\ DInv /\ [Next]_vars =>
        [\A c \in Callers :
           DetailAnswered(c) /\ budget.rebuilds + 1 >= MaxRebuilds => DetailIsThere(c)]_vars
  BY DetailStep
<1> QED BY <1>1, <1>2, <1>3, PTL DEF Spec, DetailIsCurrent
=============================================================================
