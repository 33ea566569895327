-------------------------- MODULE SegmentSearchMC --------------------------
(* Instances of SegmentSearch for TLC. *)
EXTENDS SegmentSearch

\* Word 3 is another spelling of word 1, word 4 has no term character.
SmallTermOf == <<1, 2, 1, 0>>

\* Words 1 and 2 keep the number of terms, words 3 and 4 change it.
SwappedWords == <<2, 1, 4, 3>>

\* Rows: number of documents; columns: document frequency.
IdfTable == << <<288>>, <<693, 182>>, <<981, 470, 134>>, <<1204, 693, 357, 105>>,
               <<1386, 875, 539, 288, 87>> >>

Line(words, time, level, code) ==
  [words |-> words, time |-> time, level |-> level, code |-> code]
Archive(id, device, lines) == [id |-> id, device |-> device, lines |-> lines]

\* Two batches with three archives, one more in the first that failed to
\* parse; equal lines in different batches, equal times, a term that only
\* one segment holds.  Or nothing yet.
FirstLines == {<<1>>, <<1, 2>>, <<3, 4, 1>>, <<2, 4>>}
LastLines == {<<1>>, <<2, 1>>}
MixedCorpora ==
  { << [id |-> 1, first |-> 1, last |-> 3, failed |-> 1,
        archives |-> << Archive(1, "d1", <<Line(v, 5, "INFO", "")>>),
                        Archive(3, "d2", <<Line(w, 5, "ERROR", "E1"), Line(<<1, 2>>, 7, "WARN", "")>>) >>],
       [id |-> 3, first |-> 4, last |-> 4, failed |-> 0,
        archives |-> << Archive(4, "d1", <<Line(x, 5, "INFO", ""), Line(<<1, 1, 2>>, 7, "ERROR", "")>>) >>] >> :
    v \in FirstLines, w \in FirstLines, x \in LastLines }
    \cup {<<>>}

Query(terms, offset, size) ==
  [terms |-> terms, offset |-> offset, size |-> size, device |-> "", levels |-> {}, code |-> "",
   range |-> <<>>, anomaly |-> FALSE]
MixedQueries ==
  { Query({1}, 0, 2), Query({1}, 2, 2), Query({1, 2}, 1, 1), Query({2}, 0, 1),
    [Query({}, 0, 2) EXCEPT !.range = <<5, 5>>],
    [Query({1}, 0, 1) EXCEPT !.device = "d1", !.levels = {"INFO", "ERROR"}],
    [Query({}, 1, 2) EXCEPT !.anomaly = TRUE], [Query({}, 0, 1) EXCEPT !.code = "E1"] }
=============================================================================
