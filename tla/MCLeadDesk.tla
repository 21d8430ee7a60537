----------------------------- MODULE MCLeadDesk -----------------------------
(* A small instance of LeadDesk: a handful of markets, every adapter in one.
   Days are counted from long after day 0, the bucket of undated leads. *)
EXTENDS LeadDesk

Post(a, id, hits, hour) ==
  [adapter |-> a, kind |-> "job", titled |-> TRUE, worded |-> TRUE, dev |-> TRUE, words |-> {"cook"},
   round |-> "seed", hits |-> hits, ids |-> <<<<id>>, <<>>>>, url |-> <<"u", id>>,
   domain |-> <<>>, person |-> <<>>, hour |-> hour]
Of(p, company) == [p EXCEPT !.domain = <<company>>]
By(p, author) == [p EXCEPT !.person = <<author>>]

\* One company on two sources, on one day and on two.
Reposts == {Of(Post("hackernews", "1", {"hiring", "growth"}, 24), "acme"),
            Of(Post("hackernews", "2", {"hiring"}, 72), "acme"),
            Of(Post("reddit", "3", {"hiring"}, 30), "acme")}
\* The same author with and without a date, and a text without a signal.
Undateds == {[By(Post("linkedin", "4", {"pain"}, Undated), "ann") EXCEPT !.kind = "post"],
             By(Post("reddit", "5", {"pain"}, 24), "ann"),
             By(Post("hackernews", "6", {}, 24), "bob")}
\* One post edited between two scrapes, and the search that finds it as well.
Edited == {By(Post("reddit", "7", {"hiring"}, 72), "cy"), By(Post("reddit", "7", {"pain"}, 72), "cy"),
           Of(Post("google_cse", "7", {"budget"}, 72), "acme")}
\* Cards and jobs without a link.
Unlinked == {[Post("wellfound", "8", {}, 72) EXCEPT !.url = <<>>],
             [Post("wellfound", "9", {}, 72) EXCEPT !.url = <<>>, !.titled = FALSE],
             [Post("linkedin", "10", {}, 72) EXCEPT !.url = <<>>]}
\* A round of funding and a comment of the hiring thread.
Announced == {Of(Post("funding", "11", {}, 24), "acme"), By(Post("hnhiring", "16", {}, 24), "bob")}
\* Feeds.
Feeds == {By(Post("rss", "15", {}, 24), "dee"), Post("producthunt", "12", {"raised"}, 48),
          Of(Post("remoteok", "13", {}, Undated), "eve")}
\* A post whose lead is enriched.
Enriched == {[By(Post("linkedin", "14", {"recommend", "raised"}, 24), "fay") EXCEPT !.kind = "post"]}

Own == [DefaultRequest EXCEPT !.patterns = {<<[re |-> "growth", signal |-> Signal("expansion", 99)]>>},
                              !.keep_unclassified = TRUE, !.queries = {"cook"}]

List(n, k, o, src) == [size |-> n, sort_by |-> k, sort_order |-> o, source |-> src]
Market(posts, requests, lists) == [posts |-> posts, requests |-> requests, lists |-> lists]

MCMarkets == {
  Market(Reposts, {DefaultRequest}, {List(1, "fetched_at", "desc", ""), List(3, "posted_at", "asc", "")}),
  Market(Undateds, {DefaultRequest, Own}, {List(1, "posted_at", "desc", "")}),
  Market(Edited, {DefaultRequest, Own}, {List(1, "signal_strength", "asc", "reddit")}),
  Market(Unlinked, {DefaultRequest}, {List(3, "fetched_at", "asc", "")}),
  Market(Announced, {DefaultRequest}, {List(1, "fetched_at", "asc", "hnhiring")}),
  Market(Feeds, {DefaultRequest}, {List(1, "signal_strength", "desc", "")}),
  Market(Enriched, {DefaultRequest}, {List(1, "score", "desc", "")})}

MCWorkable == Enriched

MCSymmetry == Permutations(Pipelines)

MCAnswers == {[strength |-> 90, icp |-> 80, urgency |-> 40, dm |-> 60, stack |-> {"go"}, skip |-> b] :
                b \in BOOLEAN}
=============================================================================
