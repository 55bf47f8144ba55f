---------------------------- MODULE MCFeedFetch ----------------------------
(* FeedFetch with small sets for TLC. *)
EXTENDS FeedFetch, TLC

\* A feed, a public mirror, an intranet page and a file, all of which the feed
\* may redirect to.
Hosts == "feed" :> "origin" @@ "mirror" :> "cdn" @@ "intranet" :> "private" @@ "file" :> "origin"
=============================================================================
