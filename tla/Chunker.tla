------------------------------- MODULE Chunker -------------------------------
(***************************************************************************)
(* How the index run cuts a page into chunks: by paragraphs, a paragraph    *)
(* that is too long by sentences, a sentence that is too long by words.  A  *)
(* page is a sequence of paragraphs, a paragraph one of sentences, and a    *)
(* sentence one of words; what is empty never gets that far.  Joining and   *)
(* splitting at blanks keeps the words, so a chunk is a sequence of words.  *)
(***************************************************************************)
EXTENDS Integers, Sequences, FiniteSets, SequencesExt

\* _last_n_words
LastWords(words, n) ==
  IF n <= 0 THEN <<>>
  ELSE SubSeq(words, IF Len(words) > n THEN Len(words) - n + 1 ELSE 1, Len(words))

\* Variant: the last window is dropped when it is not full.
FullWindows(words, size, overlap) ==
  LET step  == Max({1, size - overlap})
      count == IF Len(words) < size THEN 0 ELSE ((Len(words) - size) \div step) + 1
  IN [k \in 1..count |-> SubSeq(words, (k - 1) * step + 1, (k - 1) * step + size)]

\* _word_sliding_window: a window starts at every step inside the sentence.
Windows(words, size, overlap) ==
  LET step  == Max({1, size - overlap})
      count == (Len(words) + step - 1) \div step
  IN [k \in 1..count |->
       SubSeq(words, (k - 1) * step + 1, Min({(k - 1) * step + size, Len(words)}))]

\* _split_paragraph: the chunks so far, the words of the sentences gathered, and
\* the overlap carried over from the chunk before them.
Flushed(s) == s.prefix \o s.current

Flush(s, overlap) ==
  IF s.current = <<>> THEN s
  ELSE [out     |-> Append(s.out, Flushed(s)),
        current |-> <<>>,
        prefix  |-> LastWords(Flushed(s), overlap)]

AddLongSentence(s, sentence, size, overlap) ==
  LET t   == Flush(s, overlap)
      cut == Windows(sentence, size, overlap)
      sub == <<t.prefix \o Head(cut)>> \o Tail(cut)
  IN [out |-> t.out \o sub, current |-> <<>>, prefix |-> LastWords(Last(sub), overlap)]

AddSentence(s, sentence, size, overlap) ==
  CASE Len(sentence) > size ->
         AddLongSentence(s, sentence, size, overlap)
    [] Len(sentence) <= size /\ Len(s.current) + Len(sentence) <= size ->
         [s EXCEPT !.current = @ \o sentence]
    [] OTHER -> [Flush(s, overlap) EXCEPT !.current = sentence]

SplitParagraph(paragraph, size, overlap) ==
  LET add(s, sentence) == AddSentence(s, sentence, size, overlap)
      end == FoldLeft(add, [out |-> <<>>, current |-> <<>>, prefix |-> <<>>], paragraph)
  IN Flush(end, overlap).out

\* _chunk_text: short paragraphs are gathered, without any overlap.
AddParagraph(s, paragraph, size, overlap) ==
  LET words  == FlattenSeq(paragraph)
      closed == IF s.current = <<>> THEN s.out ELSE Append(s.out, s.current)
  IN CASE Len(words) > size ->
            [out |-> closed \o SplitParagraph(paragraph, size, overlap), current |-> <<>>]
       [] Len(words) <= size /\ Len(s.current) + Len(words) <= size ->
            [s EXCEPT !.current = @ \o words]
       [] OTHER -> [out |-> closed, current |-> words]

ChunkText(page, size, overlap) ==
  LET add(s, paragraph) == AddParagraph(s, paragraph, size, overlap)
      end == FoldLeft(add, [out |-> <<>>, current |-> <<>>], page)
  IN IF end.current = <<>> THEN end.out ELSE Append(end.out, end.current)

-----------------------------------------------------------------------------
(* What the chunks of a page must be, without saying how they are cut.       *)

AllWords(page) == FlattenSeq([p \in DOMAIN page |-> FlattenSeq(page[p])])

\* For a page whose words are numbered 1..n: each chunk is a stretch of the page
\* of bounded length that begins inside the chunk before it or right after it and
\* ends no earlier, and together they reach from the first word to the last.
Covers(chunks, n, size, overlap) ==
  LET from(k) == chunks[k][1]
      to(k)   == Last(chunks[k])
  IN /\ \A k \in DOMAIN chunks :
          /\ chunks[k] # <<>>
          /\ chunks[k] = [i \in 1..Len(chunks[k]) |-> from(k) + i - 1]
          /\ Len(chunks[k]) <= size + Max({0, overlap})
          /\ IF k = 1 THEN from(k) = 1
             ELSE from(k) \in from(k - 1)..(to(k - 1) + 1) /\ to(k) >= to(k - 1)
     /\ IF chunks = <<>> THEN n = 0 ELSE to(Len(chunks)) = n
=============================================================================
