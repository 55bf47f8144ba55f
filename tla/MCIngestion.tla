---------------------------- MODULE MCIngestion ----------------------------
(* Ingestion with small sets for TLC. *)
EXTENDS Ingestion, TLC

Rule(name, include, exclude) == [name |-> name, include |-> include, exclude |-> exclude, active |-> TRUE]

OneRule == {1 :> Rule("n1", {"storm"}, {"snow"}) @@ 2 :> NoRule}

NewRows == {Rule("n2", {"flood"}, {})}
NewBatches == {<<Rule("n2", {"flood"}, {}), Rule("n2", {"storm"}, {}), Rule("n1", {"sport"}, {})>>}

Link(page, query) == [page |-> page, query |-> query]
Item(guid, link, words) == [guid |-> IF guid = Absent THEN Absent ELSE Link(guid, <<>>), link |-> link, date |-> Absent, words |-> words]

\* f1 publishes articles a and b, and f2 the same two in the opposite order with
\* tracking parameters. Later f1 has a again, revised and as a second item.
RawItems ==
    "a1" :> Item("g1", Link("a", <<>>), {"storm"})
    @@ "b1" :> Item(Absent, Link("b", <<"id">>), {"storm", "flood"})
    @@ "a2" :> Item("g1", Link("a", <<"utm">>), {"storm"})
    @@ "a3" :> Item("g2", Link("a", <<>>), {"flood"})
    @@ "b9" :> Item(Absent, Link("b", <<"utm", "id">>), {"storm", "sport"})
    @@ "a9" :> Item("h2", Link("a", <<>>), {"storm"})

FeedOfItem == [i \in Items |-> IF i \in {"a9", "b9"} THEN "f2" ELSE "f1"]

Shared == "f1" :> << <<"a1", "b1">>, <<"a2", "a3">> >> @@ "f2" :> << <<"b9", "a9">> >>

FeedOfJob == "j1" :> "f1" @@ "j2" :> "f2" @@ "j3" :> "f1"
=============================================================================
