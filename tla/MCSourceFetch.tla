---------------------------- MODULE MCSourceFetch ----------------------------
(* A small instance of SourceFetch: two callers, pages of two. *)
EXTENDS SourceFetch

\* Found empty, shorter than a page, with a reply in the first page, and with
\* more comments than a page holds.
MCThreads == {<<>>, <<1>>, <<1, 0, 2>>, <<1, 2, 3>>}

\* Adapters that share nothing with another run: all but google_cse.
MCAlone == Adapters \ {"google_cse"}
=============================================================================
