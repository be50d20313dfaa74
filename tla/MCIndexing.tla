---------------------------- MODULE MCIndexing ----------------------------
(* Small instances of Indexing: every page of two paragraphs up to a size,   *)
(* followed by an empty page and two of one word.                            *)
EXTENDS Indexing, TLC

CONSTANTS MaxWords

\* The words of a page are numbered in reading order; a page is given by the
\* lengths of its sentences.
Shapes == LET Paragraphs == UNION {[1..n -> 1..MaxWords] : n \in 1..3}
          IN UNION {[1..n -> Paragraphs] : n \in 0..2}

Before(shape, p, s) ==
  FoldLeft(+, 0, FlattenSeq(SubSeq(shape, 1, p - 1)) \o SubSeq(shape[p], 1, s - 1))

Page(shape) ==
  [p \in DOMAIN shape |-> [s \in DOMAIN shape[p] |->
    [w \in 1..shape[p][s] |-> Before(shape, p, s) + w]]]

Short == Page(<< <<1>> >>)

Corpus(shape) == <<Page(shape), <<>>, Short, Short>>

AllCorpora == {Corpus(shape) : shape \in Shapes}

\* Pages that are cut into one chunk or two
FewCorpora == {Corpus(<<paragraph>>) : paragraph \in {<<1, 2>>, <<3>>}}

AllSizes == {<<2, 0>>, <<2, 1>>, <<3, 1>>, <<2, 3>>}
===========================================================================
