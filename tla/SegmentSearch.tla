--------------------------- MODULE SegmentSearch ---------------------------
(***************************************************************************)
(* From parsed archives to a page of hits: ParsedBatchWriter writes a      *)
(* batch, ParsedBatchReader checks it, SegmentStore builds the inverted    *)
(* index document by document and checks it again when it loads it,        *)
(* IndexSnapshot collects the segments, SearchEngine answers queries, and  *)
(* readOriginalRecord fetches the text of a hit from the archive file.     *)
(*                                                                         *)
(* A line of an archive is a sequence of words and a file the sequence of  *)
(* its words with a newline after each line, so that the length of a       *)
(* sequence stands for a number of bytes.  SHA-256 values are the contents *)
(* they are computed from.  Scores are the code's formula in thousandths.  *)
(*                                                                         *)
(* A definition placed directly above another under a name that extends    *)
(* its name is a faulty variant of it, used only to show that a property   *)
(* notices the fault.                                                      *)
(***************************************************************************)
EXTENDS Integers, Sequences, FiniteSets, FiniteSetsExt, SequencesExt

CONSTANTS
  Corpora,     \* the possible contents of archive storage: sequences of batches
  TermOf,      \* the term of a word in lower case, 0 if it has no term character
  Rewritten,   \* the word an overwritten word of the same length becomes
  Idf,         \* Idf[n][d]: 1000 * ln(1 + (n - d + 1/2) / (d + 1/2))
  Queries,     \* search requests
  IdWidth,     \* how many local ids fit below the batch id in a doc_id (2^32)
  Window,      \* the largest offset + page_size (1000)
  MaxDamage    \* bound: archive files changed behind the index

ASSUME WidthAssumption == IdWidth \in Nat \ {0} /\ Window \in Nat \ {0} /\ MaxDamage \in Nat
ASSUME TermAssumption ==
  \A w \in DOMAIN TermOf : TermOf[w] \in Nat /\ Rewritten[w] \in DOMAIN TermOf

VARIABLES
  corpus,      \* batches to be indexed; batch i has batch_id corpus[i].id
  storage,     \* archive_id -> bytes of the archive file
  next,        \* the batch being indexed
  pc,          \* where the pipeline is
  artifact,    \* directory parsed/batch_<id>
  work,        \* the locals of SegmentStore::build
  snapshot,    \* the loaded segments in batch order
  refused,     \* batches whose reading, building or loading threw
  search,      \* the locals of SearchEngine::search
  damage,      \* archives changed behind the index
  torn         \* archives overwritten while a build was reading them

segmentVars == <<corpus, storage, next, pc, artifact, work, snapshot, refused, search, damage, torn>>

-----------------------------------------------------------------------------
(* Archive files, lines and terms.                                         *)

NewLine == 0
Bytes(lines) == FlattenSeq([i \in DOMAIN lines |-> Append(lines[i].words, NewLine)])
OffsetOf(lines, i) == Len(Bytes(SubSeq(lines, 1, i - 1)))
ArchivesIn(c) == UNION {{b.archives[i] : i \in DOMAIN b.archives} : b \in Range(c)}

Tokenize(words) ==
  SelectSeq([i \in DOMAIN words |-> TermOf[words[i]]], LAMBDA t : t # 0)
Frequency(t, terms) == Cardinality({i \in DOMAIN terms : terms[i] = t})

-----------------------------------------------------------------------------
(* ParsedBatchWriter.                                                      *)

ParsedDocument(a, i) ==
  LET line == a.lines[i] IN
  [archive |-> a.id, offset |-> OffsetOf(a.lines, i), length |-> Len(line.words),
   time |-> line.time, level |-> line.level, code |-> line.code, device |-> a.device,
   count |-> Len(Tokenize(line.words))]
ArchiveRow(a) == [id |-> a.id, size |-> Len(Bytes(a.lines)), sha |-> Bytes(a.lines),
                  device |-> a.device, documents |-> Len(a.lines)]
DocumentRows(archives) ==
  LET docs == FlattenSeq([k \in DOMAIN archives |->
                [i \in DOMAIN archives[k].lines |-> ParsedDocument(archives[k], i)]])
  IN [j \in DOMAIN docs |-> [local |-> j - 1, doc |-> docs[j]]]

\* What index_batch records of a batch: its archive_id range and its counts.
Descriptor(b) ==
  [id |-> b.id, first |-> b.first, last |-> b.last, sources |-> Len(b.archives) + b.failed,
   documents |-> SumFunction([k \in DOMAIN b.archives |-> Len(b.archives[k].lines)])]

Write ==
  /\ pc = "write" /\ next <= Len(corpus)
  /\ LET b == corpus[next] IN
     artifact' = [archives |-> [k \in DOMAIN b.archives |-> ArchiveRow(b.archives[k])],
                  documents |-> DocumentRows(b.archives), batch |-> Descriptor(b),
                  parsed |-> Len(b.archives), failed |-> b.failed]
  /\ pc' = "read"
  /\ UNCHANGED <<corpus, storage, next, work, snapshot, refused, search, damage, torn>>

-----------------------------------------------------------------------------
(* ParsedBatchReader::load.                                                *)

RowOf(archives, id) == CHOOSE k \in DOMAIN archives : archives[k].id = id

ValidArchives(art, d) ==
  /\ Len(art.archives) = art.parsed /\ art.parsed # 0 /\ art.parsed + art.failed = d.sources
  /\ IsInjective([k \in DOMAIN art.archives |-> art.archives[k].id])
  /\ \A k \in DOMAIN art.archives :
       art.archives[k].size # 0 /\ art.archives[k].id \in d.first..d.last

ValidDocument(art, j) ==
  LET row == art.documents[j] doc == row.doc IN
  /\ row.local < IdWidth /\ row.local = j - 1 /\ doc.length # 0
  /\ \E k \in DOMAIN art.archives :
       LET a == art.archives[k] IN
       /\ a.id = doc.archive /\ a.device = doc.device
       /\ doc.offset <= a.size /\ doc.length <= a.size - doc.offset

LoadParsed(art, d) ==
  /\ art.batch = d /\ ValidArchives(art, d) /\ Len(art.documents) = d.documents
  /\ \A j \in DOMAIN art.documents : ValidDocument(art, j)
  /\ \A k \in DOMAIN art.archives :
       art.archives[k].documents =
         Cardinality({j \in DOMAIN art.documents : art.documents[j].doc.archive = art.archives[k].id})

NoWork == [files |-> <<>>, documents |-> <<>>, inverted |-> [t \in {} |-> {}],
           terms |-> <<>>, postings |-> <<>>]

Refuse ==
  /\ refused' = refused \cup {corpus[next].id} /\ next' = next + 1 /\ pc' = "write"
  /\ work' = NoWork
  /\ UNCHANGED <<corpus, storage, artifact, snapshot, search, damage, torn>>

Read ==
  /\ pc = "read"
  /\ IF LoadParsed(artifact, Descriptor(corpus[next]))
     THEN pc' = "files" /\ UNCHANGED <<corpus, storage, next, artifact, work, snapshot,
                                       refused, search, damage, torn>>
     ELSE Refuse

-----------------------------------------------------------------------------
(* SegmentStore::build.                                                    *)

OpenVerified(file) == Len(storage[file.id]) = file.size
VerifyOriginalBySize(file) == OpenVerified(file)
VerifyOriginal(file) == OpenVerified(file) /\ storage[file.id] = file.sha
ReadOriginal(file, offset, length) == SubSeq(storage[file.id], offset + 1, offset + length)

Files ==
  /\ pc = "files"
  /\ IF /\ artifact.batch.id < IdWidth /\ artifact.batch.documents # 0
        /\ \A k \in DOMAIN artifact.archives : VerifyOriginal(artifact.archives[k])
     THEN /\ work' = [NoWork EXCEPT !.files = [k \in DOMAIN artifact.archives |->
                        [id |-> artifact.archives[k].id, size |-> artifact.archives[k].size,
                         sha |-> artifact.archives[k].sha]]]
          /\ pc' = "index"
          /\ UNCHANGED <<corpus, storage, next, artifact, snapshot, refused, search, damage, torn>>
     ELSE Refuse

DocIdOverlapping(batch, local) == batch + local
DocId(batch, local) == batch * IdWidth + local

AddPostings(inverted, local, terms) ==
  [t \in DOMAIN inverted \cup Range(terms) |->
     (IF t \in DOMAIN inverted THEN inverted[t] ELSE {})
       \cup (IF t \in Range(terms) THEN {[local |-> local, freq |-> Frequency(t, terms)]} ELSE {})]

\* One document: its text is read back from the archive and split into
\* terms again; a count that differs from the parser's ends the build.
IndexDocument ==
  /\ pc = "index" /\ Len(work.documents) < Len(artifact.documents)
  /\ LET row == artifact.documents[Len(work.documents) + 1]
         doc == row.doc
         k == RowOf(work.files, doc.archive)
         file == work.files[k]
         terms == Tokenize(ReadOriginal(file, doc.offset, doc.length))
     IN IF OpenVerified(file) /\ Len(terms) = doc.count
        THEN /\ work' = [work EXCEPT
                  !.documents = Append(@, [id |-> DocId(artifact.batch.id, row.local),
                                 local |-> row.local, ordinal |-> k - 1, archive |-> doc.archive,
                                 offset |-> doc.offset, length |-> doc.length, time |-> doc.time,
                                 level |-> doc.level, code |-> doc.code, device |-> doc.device,
                                 count |-> Len(terms)]),
                  !.inverted = AddPostings(@, row.local, terms)]
             /\ UNCHANGED <<corpus, storage, next, pc, artifact, snapshot, refused, search, damage, torn>>
        ELSE Refuse

\* The next term of the map becomes a run of postings in local id order.
FlattenTerm ==
  /\ pc = "index" /\ Len(work.documents) = Len(artifact.documents)
  /\ DOMAIN work.inverted # {}
  /\ LET t == Min(DOMAIN work.inverted)
         run == SetToSortSeq(work.inverted[t], LAMBDA p, q : p.local < q.local)
     IN work' = [work EXCEPT
          !.terms = Append(@, [term |-> t, df |-> Len(run), begin |-> Len(work.postings),
                               count |-> Len(run)]),
          !.postings = @ \o run,
          !.inverted = [u \in DOMAIN @ \ {t} |-> @[u]]]
  /\ UNCHANGED <<corpus, storage, next, pc, artifact, snapshot, refused, search, damage, torn>>

-----------------------------------------------------------------------------
(* loadAtPath: the checks a segment has to pass before it is published and *)
(* whenever it is loaded.                                                  *)

LoadFiles(s) ==
  /\ IsInjective([k \in DOMAIN s.files |-> s.files[k].id])
  /\ \A k \in DOMAIN s.files : s.files[k].id # 0 /\ s.files[k].size # 0

LoadDocuments(s) ==
  \A j \in DOMAIN s.documents :
    LET d == s.documents[j] IN
    /\ d.local = j - 1 /\ d.id = DocId(s.batch, d.local) /\ d.ordinal < Len(s.files)
    /\ d.length # 0 /\ d.archive = s.files[d.ordinal + 1].id
    /\ d.offset <= s.files[d.ordinal + 1].size
    /\ d.length <= s.files[d.ordinal + 1].size - d.offset

LoadPostings(s) ==
  \A i \in DOMAIN s.postings : s.postings[i].local < Len(s.documents) /\ s.postings[i].freq # 0

LoadTerms(s) ==
  /\ \A i \in DOMAIN s.terms :
       LET t == s.terms[i] IN
       /\ i > 1 => s.terms[i - 1].term < t.term
       /\ t.df # 0 /\ t.df = t.count
       /\ t.begin = (IF i = 1 THEN 0 ELSE s.terms[i - 1].begin + s.terms[i - 1].count)
       /\ t.begin <= Len(s.postings) /\ t.count <= Len(s.postings) - t.begin
       /\ \A q \in t.begin + 1 .. t.begin + t.count - 1 :
            s.postings[q].local < s.postings[q + 1].local
  /\ Last(s.terms).begin + Last(s.terms).count = Len(s.postings)

LoadSegment(s) ==
  /\ s.files # <<>> /\ s.documents # <<>> /\ s.terms # <<>> /\ s.postings # <<>>
  /\ LoadFiles(s) /\ LoadDocuments(s) /\ LoadPostings(s) /\ LoadTerms(s)

\* Serialised, written, loaded back, published and in the next snapshot;
\* the snapshot refuses batches that do not ascend.
Publish ==
  /\ pc = "index" /\ Len(work.documents) = Len(artifact.documents) /\ DOMAIN work.inverted = {}
  /\ LET s == [batch |-> artifact.batch.id, files |-> work.files, documents |-> work.documents,
               terms |-> work.terms, postings |-> work.postings]
     IN IF LoadSegment(s) /\ \A o \in Range(snapshot) : o.batch < s.batch
        THEN /\ snapshot' = Append(snapshot, s)
             /\ next' = next + 1 /\ pc' = "write" /\ work' = NoWork
             /\ UNCHANGED <<corpus, storage, artifact, refused, search, damage, torn>>
        ELSE Refuse

-----------------------------------------------------------------------------
(* SearchEngine::search.                                                   *)

\* search() takes the snapshot once: the segments published until then.
View == 1..search.view
DocumentCount == SumFunction([i \in View |-> Len(snapshot[i].documents)])
TotalLength ==
  SumFunction([i \in View |->
    SumFunction([j \in DOMAIN snapshot[i].documents |-> snapshot[i].documents[j].count])])

HasTerm(s, t) == \E i \in DOMAIN s.terms : s.terms[i].term = t
TermRecord(s, t) == s.terms[CHOOSE i \in DOMAIN s.terms : s.terms[i].term = t]
GlobalDf(t) ==
  SumFunction([i \in {k \in View : HasTerm(snapshot[k], t)} |-> TermRecord(snapshot[i], t).df])

PostingList(s, t) ==
  LET r == TermRecord(s, t) IN
  [i \in 1..r.count |-> s.postings[r.begin + i].local]

\* The documents of a segment that hold every term: the rarest term's list,
\* cut down by the others.
Candidates(s, terms) ==
  IF terms = {} THEN [j \in DOMAIN s.documents |-> j - 1]
  ELSE LET rarest == CHOOSE t \in terms : \A u \in terms : TermRecord(s, t).df <= TermRecord(s, u).df
       IN SelectSeq(PostingList(s, rarest),
                    LAMBDA d : \A t \in terms : d \in Range(PostingList(s, t)))

MatchesFilters(d, q) ==
  /\ q.device # "" => d.device = q.device
  /\ q.levels # {} => d.level \in q.levels
  /\ q.code # "" => d.code = q.code
  /\ q.range # <<>> => q.range[1] <= d.time /\ d.time <= q.range[2]
  /\ q.anomaly => d.level \in {"WARN", "ERROR"} \/ d.code # ""

\* Binary search for a local id in the run of a term; what it ends at is
\* compared against the end of all postings, not of the run.
TermFrequency(s, t, local) ==
  LET r == TermRecord(s, t)
      run == r.begin + 1 .. r.begin + r.count
      left == r.begin + 1 + Cardinality({i \in run : s.postings[i].local < local})
  IN IF left <= Len(s.postings) /\ s.postings[left].local = local
     THEN s.postings[left].freq ELSE 0

BusinessWeight(d, q) ==
  (IF q.code # "" /\ d.code = q.code THEN 3000 ELSE 0)
    + (IF d.level = "ERROR" THEN 2000 ELSE IF d.level = "WARN" THEN 1000 ELSE 0)

\* idf * f * 2.2 / (f + 1.2 * (0.25 + 0.75 * length / average length))
Bm25(idf, f, length, total, n) ==
  (idf * 22 * f * total) \div (10 * f * total + 3 * total + 9 * length * n)

ScoreLocalDf(s, d, q) ==
  BusinessWeight(d, q)
    + SumFunction([t \in q.terms |-> Bm25(Idf[DocumentCount][TermRecord(s, t).df],
                                  TermFrequency(s, t, d.local), d.count, TotalLength, DocumentCount)])
Score(s, d, q) ==
  BusinessWeight(d, q)
    + SumFunction([t \in q.terms |-> Bm25(Idf[DocumentCount][GlobalDf(t)],
                                  TermFrequency(s, t, d.local), d.count, TotalLength, DocumentCount)])

IsBetter(x, y) ==
  \/ x.score > y.score
  \/ x.score = y.score /\ x.time > y.time
  \/ x.score = y.score /\ x.time = y.time /\ x.id > y.id
Worst(hits) == CHOOSE h \in hits : \A o \in hits \ {h} : IsBetter(o, h)

NoSearch == [active |-> FALSE, query |-> <<>>, view |-> 0, segment |-> 0, candidates |-> <<>>, best |-> {}, hits |-> 0,
             page |-> <<>>]

Ask(q) ==
  /\ ~search.active /\ q.size # 0 /\ q.offset <= Window /\ q.size <= Window - q.offset
  /\ search' = [NoSearch EXCEPT !.active = TRUE, !.query = q, !.view = Len(snapshot)]
  /\ UNCHANGED <<corpus, storage, next, pc, artifact, work, snapshot, refused, damage, torn>>

Searching == search.active /\ search.segment <= search.view

NextSegment ==
  /\ Searching /\ search.candidates = <<>> /\ search.segment < search.view
  /\ LET i == search.segment + 1
         s == snapshot[i]
     IN search' = [search EXCEPT !.segment = i,
          !.candidates = IF \A t \in search.query.terms : HasTerm(s, t)
                         THEN Candidates(s, search.query.terms) ELSE <<>>]
  /\ UNCHANGED <<corpus, storage, next, pc, artifact, work, snapshot, refused, damage, torn>>

Offer(best, hit, capacity) ==
  IF Cardinality(best) < capacity THEN best \cup {hit}
  ELSE IF IsBetter(hit, Worst(best)) THEN (best \ {Worst(best)}) \cup {hit} ELSE best

NextCandidate ==
  /\ Searching /\ search.candidates # <<>>
  /\ LET s == snapshot[search.segment]
         q == search.query
         d == s.documents[Head(search.candidates) + 1]
         hit == [id |-> d.id, time |-> d.time, score |-> Score(s, d, q)]
     IN search' = [search EXCEPT !.candidates = Tail(@),
          !.best = IF MatchesFilters(d, q) THEN Offer(@, hit, q.offset + q.size) ELSE @,
          !.hits = IF MatchesFilters(d, q) THEN @ + 1 ELSE @]
  /\ UNCHANGED <<corpus, storage, next, pc, artifact, work, snapshot, refused, damage, torn>>

Answer ==
  /\ Searching /\ search.candidates = <<>> /\ search.segment = search.view
  /\ LET q == search.query
         ranked == SetToSortSeq(search.best, IsBetter)
     IN search' = [search EXCEPT !.segment = search.view + 1, !.best = {},
                     !.page = SubSeq(ranked, q.offset + 1, Len(ranked))]
  /\ UNCHANGED <<corpus, storage, next, pc, artifact, work, snapshot, refused, damage, torn>>

Deliver ==
  /\ search.active /\ search.segment > search.view
  /\ search' = NoSearch
  /\ UNCHANGED <<corpus, storage, next, pc, artifact, work, snapshot, refused, damage, torn>>

-----------------------------------------------------------------------------
(* Looking a document up by its id and reading its text.                   *)

FindDocument(id) ==
  LET batch == id \div IdWidth
      local == id % IdWidth
      found == {i \in DOMAIN snapshot : snapshot[i].batch = batch
                  /\ local < Len(snapshot[i].documents)
                  /\ snapshot[i].documents[local + 1].id = id}
  IN {<<i, local + 1>> : i \in found}

\* What readOriginalRecord returns: the text, or nothing (it throws).
ReadText(i, j) ==
  LET d == snapshot[i].documents[j]
      file == snapshot[i].files[d.ordinal + 1]
  IN IF OpenVerified(file) THEN {ReadOriginal(file, d.offset, d.length)} ELSE {}

-----------------------------------------------------------------------------
(* Archive files change behind the index: cut short, or overwritten with   *)
(* as many other bytes.  Nothing holds a file between verifyOriginalArchive *)
(* and the last readOriginalRecord of its batch, and the latter looks at   *)
(* the size only: an overwritten file goes on into the index then.         *)

Overwritten(bytes) ==
  [i \in DOMAIN bytes |-> IF bytes[i] = NewLine THEN NewLine ELSE Rewritten[bytes[i]]]
BeingIndexed == IF pc = "index" THEN {f.id : f \in Range(work.files)} ELSE {}

Damage(a) ==
  /\ Cardinality(damage) < MaxDamage /\ a \in DOMAIN storage \ damage
  /\ damage' = damage \cup {a}
  /\ \/ storage' = [storage EXCEPT ![a] = Tail(@)] /\ UNCHANGED torn
     \/ storage' = [storage EXCEPT ![a] = Overwritten(@)] /\ torn' = torn \cup ({a} \cap BeingIndexed)
  /\ UNCHANGED <<corpus, next, pc, artifact, work, snapshot, refused, search>>

-----------------------------------------------------------------------------
SegmentInit ==
  /\ corpus \in Corpora
  /\ storage = [id \in {a.id : a \in ArchivesIn(corpus)} |->
                  Bytes((CHOOSE a \in ArchivesIn(corpus) : a.id = id).lines)]
  /\ next = 1 /\ pc = "write" /\ artifact = "none" /\ work = NoWork
  /\ snapshot = <<>> /\ refused = {} /\ search = NoSearch /\ damage = {} /\ torn = {}

SegmentNext ==
  \/ Write \/ Read \/ Files \/ IndexDocument \/ FlattenTerm \/ Publish
  \/ \E q \in Queries : Ask(q)
  \/ NextSegment \/ NextCandidate \/ Answer \/ Deliver
  \/ \E a \in DOMAIN storage : Damage(a)

SegmentSpec == SegmentInit /\ [][SegmentNext]_segmentVars

-----------------------------------------------------------------------------
(* The reference: what the lines themselves say.                           *)

BatchOf(id) == CHOOSE b \in Range(corpus) : b.id = id
LinesOf(b) == FlattenSeq([k \in DOMAIN b.archives |-> b.archives[k].lines])
TermsAt(i, j) == Tokenize(LinesOf(BatchOf(snapshot[i].batch))[j].words)

\* The lines a query is about, as positions in the snapshot, and how many
\* lines and terms there are.
Lines == UNION {{i} \X DOMAIN LinesOf(BatchOf(snapshot[i].batch)) : i \in View}
LineCount == Cardinality(Lines)
TermCount == SumFunction([l \in Lines |-> Len(TermsAt(l[1], l[2]))])
LinesWith(t) == {l \in Lines : t \in Range(TermsAt(l[1], l[2]))}

ExpectedScore(l, q) ==
  BusinessWeight(snapshot[l[1]].documents[l[2]], q)
    + SumFunction([t \in q.terms |->
        Bm25(Idf[LineCount][Cardinality(LinesWith(t))], Frequency(t, TermsAt(l[1], l[2])),
             Len(TermsAt(l[1], l[2])), TermCount, LineCount)])

Expected(q, lines) ==
  {[id |-> snapshot[l[1]].documents[l[2]].id, time |-> snapshot[l[1]].documents[l[2]].time,
    score |-> ExpectedScore(l, q)] :
     l \in {m \in lines : /\ q.terms \subseteq Range(TermsAt(m[1], m[2]))
                         /\ MatchesFilters(snapshot[m[1]].documents[m[2]], q)}}

-----------------------------------------------------------------------------
(* Properties.                                                             *)

\* The postings of a loaded segment are those of the lines: each document has
\* exactly the terms of its line, with their frequencies (SegmentStore::build
\* against loadAtPath).  A file that changed since it was parsed stays out of
\* the index, with the one exception the code makes: a file overwritten with
\* as many bytes after the build verified its digest.  A document read after
\* that has the terms of the new bytes, if they are as many as the parser
\* counted.  And writer, reader, builder and loader agree: a batch whose archive
\* files did not change is never refused.
Frequencies(terms) == {<<t, Frequency(t, terms)>> : t \in Range(terms)}
Listed(s) ==
  UNION {{<<r.term, s.postings[p].freq, s.postings[p].local>> : p \in r.begin + 1 .. r.begin + r.count} :
           r \in Range(s.terms)}
TermsListed(s, j) == {<<e[1], e[2]>> : e \in {f \in Listed(s) : f[3] = j - 1}}
TornTermsAt(i, j) == Tokenize(Overwritten(LinesOf(BatchOf(snapshot[i].batch))[j].words))
IndexMatchesFiles ==
  /\ \A i \in DOMAIN snapshot : LET s == snapshot[i] IN
       /\ \A e \in Listed(s) : e[3] < Len(s.documents)
       /\ \A j \in DOMAIN s.documents :
            \/ TermsListed(s, j) = Frequencies(TermsAt(i, j))
            \/ /\ s.documents[j].archive \in torn /\ Len(TornTermsAt(i, j)) = Len(TermsAt(i, j))
               /\ TermsListed(s, j) = Frequencies(TornTermsAt(i, j))
  /\ \A i \in DOMAIN corpus : corpus[i].id \in refused =>
       \E k \in DOMAIN corpus[i].archives : corpus[i].archives[k].id \in damage

\* The page is the slice offset .. offset + page_size of all hits, best
\* first, and total_hits counts them all, so that pages of one snapshot
\* tile the result: no hit is lost or shown twice.  This is the result of the
\* lines as long as no file was overwritten while its batch was being built.
PageIsSlice ==
  search.active /\ search.segment > search.view
  /\ (\A i \in View : \A f \in Range(snapshot[i].files) : f.id \notin torn) =>
    LET q == search.query
        hits == Expected(q, Lines)
        slice == {h \in hits : Cardinality({o \in hits : IsBetter(o, h)})
                                 \in q.offset .. q.offset + q.size - 1}
    IN search.hits = Cardinality(hits) /\ search.page = SetToSortSeq(slice, IsBetter)

\* A doc_id leads back to its document and to the very line it was parsed
\* from; if the file was cut short the read fails, it never returns other
\* bytes of the file.
DetailIsOriginal ==
  \A i \in DOMAIN snapshot : \A j \in 1..Len(LinesOf(BatchOf(snapshot[i].batch))) :
    LET d == snapshot[i].documents[j]
        text == LinesOf(BatchOf(snapshot[i].batch))[j].words
    IN /\ FindDocument(d.id) = {<<i, j>>}
       /\ Len(storage[d.archive]) # snapshot[i].files[d.ordinal + 1].size
            => ReadText(i, j) = {}
       /\ d.archive \notin damage => ReadText(i, j) = {text}
=============================================================================
