----------------------------- MODULE MCReports -----------------------------
(* Five time stamps on three days of weeks of two; the first two share an     *)
(* hour, the last one is a week after them.                                   *)
EXTENDS Reports

MCTimes  == {0, 1, 2, 5, 8}
MCRanges == {<<0, 8>>, <<1, 5>>}

Row(source, words, ms, tokens, scores, question) ==
  [source |-> source, words |-> words, ms |-> ms, tokens |-> tokens, scores |-> scores,
   question |-> question]

MCNoMs == -1
MCSilhouettes == {-1, 0, 1}

MCRows ==
  {Row("rag", 5, 2, 1, <<10000, -1>>, "how"),
   Row("rag", 30, 1, 2, <<1000>>, "why"),
   Row("error", 0, -1, 0, <<>>, "what")}
===========================================================================
