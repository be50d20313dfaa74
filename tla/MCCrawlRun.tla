----------------------------- MODULE MCCrawlRun -----------------------------
(* Small sites for CrawlRun; every page names its links in document order.   *)
EXTENDS CrawlRun

\* A cycle with a repeated link, a star, and a chain that leads back.
SmallSites ==
  LET Site(a, b, c, d, e) ==
        [u \in Urls |-> CASE u = "a" -> a [] u = "b" -> b [] u = "c" -> c
                           [] u = "d" -> d [] OTHER -> e]
  IN  { Site(<<"b", "b", "c">>, <<"d", "a">>, <<"d", "e">>, <<"a">>, <<>>),
        Site(<<"b", "c", "d", "e">>, <<>>, <<>>, <<>>, <<>>),
        Site(<<"b">>, <<"c">>, <<"a", "d">>, <<"b", "e">>, <<"a">>) }

=============================================================================
