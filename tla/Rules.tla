------------------------------- MODULE Rules -------------------------------
(***************************************************************************)
(* The matching rules of one tenant in FeedPulse: the `rules` table, the    *)
(* calls of the API that change it, and the decision whether a rule matches *)
(* a text. PATCH and DELETE read the row first and write every column of it *)
(* later, in two statements with nothing in between to hold the row.        *)
(***************************************************************************)
EXTENDS Integers, Sequences, FiniteSets

CONSTANTS
    RuleIds,      \* rules.id
    Names,        \* rule names, after the DTO has normalized them
    Phrases,      \* normalized phrases
    NoRule,       \* a rule id without a row
    Unset,        \* a field that a PATCH leaves out
    Rows,         \* rows that may be created
    Batches,      \* lists of rows a batch may have
    Patches,      \* bodies a PATCH may have
    StartRules,   \* tables to start from
    MaxRuleCalls  \* bound: calls of the rules API

Row == [name: Names, include: SUBSET Phrases, exclude: SUBSET Phrases, active: BOOLEAN]

Patch == [name: Names \cup {Unset}, include: (SUBSET Phrases) \cup {Unset},
          exclude: (SUBSET Phrases) \cup {Unset}, active: BOOLEAN \cup {Unset}]

ASSUME RulesAssumption ==
    /\ RuleIds \subseteq Nat
    /\ Rows \subseteq Row /\ Batches \subseteq Seq(Row) /\ Patches \subseteq Patch
    /\ StartRules \subseteq [RuleIds -> Row \cup {NoRule}]
    /\ MaxRuleCalls \in Nat

VARIABLES
    rules,      \* the table
    edits,      \* PATCH and DELETE calls between their SELECT and their UPDATE
    ruleCalls   \* calls so far

ruleVars == <<rules, edits, ruleCalls>>

Edit == [id: RuleIds, number: 1 .. MaxRuleCalls, row: Row]

RulesTypeOK ==
    /\ rules \in [RuleIds -> Row \cup {NoRule}]
    /\ edits \subseteq Edit
    /\ ruleCalls \in 0 .. MaxRuleCalls

RulesInit ==
    /\ rules \in StartRules
    /\ edits = {}
    /\ ruleCalls = 0

-----------------------------------------------------------------------------
(* The table *)

Existing == {r \in RuleIds : rules[r] # NoRule}

NamesTaken == {rules[r].name : r \in Existing}

\* idx_rules_tenant_name_unique: no other row has the name.
NameFree(name, r) == \A q \in Existing \ {r} : rules[q].name # name

\* POST /rules, a plain INSERT: a name that is taken is a unique violation and
\* the call answers 409.
CreateRule(r, row) ==
    /\ ruleCalls < MaxRuleCalls
    /\ rules[r] = NoRule /\ NameFree(row.name, r)
    /\ rules' = [rules EXCEPT ![r] = row]
    /\ ruleCalls' = ruleCalls + 1
    /\ UNCHANGED edits

\* findById of a PATCH: what the body leaves out comes from the row as it is
\* now. A DELETE is the PATCH that only sets is_active to false.
ReadForUpdate(r, patch) ==
    LET Chosen(field) == IF patch[field] # Unset THEN patch[field] ELSE rules[r][field]
    IN  /\ ruleCalls < MaxRuleCalls
        /\ r \in Existing
        /\ edits' = edits \cup {[id |-> r, number |-> ruleCalls + 1,
                                 row |-> [field \in DOMAIN patch |-> Chosen(field)]]}
        /\ ruleCalls' = ruleCalls + 1
        /\ UNCHANGED rules

DisablePatch == [name |-> Unset, include |-> Unset, exclude |-> Unset, active |-> FALSE]

\* The UPDATE writes all four columns, whatever the row holds by now; a name
\* taken in the meantime is a unique violation.
WriteUpdate(edit) ==
    /\ rules' = IF NameFree(edit.row.name, edit.id) THEN [rules EXCEPT ![edit.id] = edit.row] ELSE rules
    /\ edits' = edits \ {edit}
    /\ UNCHANGED ruleCalls

\* POST /rules/batch, one statement: the first draft of each name is inserted
\* unless the name is taken; the others are reported back.
CreateBatch(drafts) ==
    LET first == {n \in 1 .. Len(drafts) : \A m \in 1 .. n - 1 : drafts[m].name # drafts[n].name}
        kept == {n \in first : drafts[n].name \notin NamesTaken}
    IN  /\ ruleCalls < MaxRuleCalls
        /\ \E id \in [kept -> RuleIds \ Existing] :
              /\ \A m, n \in kept : m < n => id[m] < id[n]
              /\ rules' = [r \in RuleIds |-> IF \E n \in kept : id[n] = r
                                             THEN drafts[CHOOSE n \in kept : id[n] = r] ELSE rules[r]]
        /\ ruleCalls' = ruleCalls + 1
        /\ UNCHANGED edits

RulesStep ==
    \/ \E r \in RuleIds, row \in Rows : CreateRule(r, row)
    \/ \E drafts \in Batches : CreateBatch(drafts)
    \/ \E r \in RuleIds, patch \in Patches \cup {DisablePatch} : ReadForUpdate(r, patch)
    \/ \E edit \in edits : WriteUpdate(edit)

-----------------------------------------------------------------------------
(* Matching *)

\* keywordMatches: the phrase is in the text as a whole expression. A text is
\* the set of the phrases that are.
KeywordMatches(text, phrase) == phrase \in text

\* ruleMatchesNormalizedText: some include phrase, and no exclude phrase.
RuleMatches(text, row) ==
    /\ \E phrase \in row.include : KeywordMatches(text, phrase)
    /\ ~ \E phrase \in row.exclude : KeywordMatches(text, phrase)

\* listActive: the rules of the tenant that are active, by id.
ActiveRules == {r \in Existing : rules[r].active}

\* The active rules that match a text.
MatchingRules(text) == {r \in ActiveRules : RuleMatches(text, rules[r])}
=============================================================================
