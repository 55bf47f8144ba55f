---------------------------- MODULE MCFeedClaims ----------------------------
(* FeedClaims on small instances; the cfg files give every constant its value. *)
EXTENDS FeedClaims
=============================================================================
