------------------------------- MODULE Memory -------------------------------
(* Long-term memory: one table of texts, and the callers that write it.  The *)
(* MCP tools, the memory keeper, the console, the coder, seeding, the birth, *)
(* nightly consolidation, the workflow miner and the import of a bundle look *)
(* for a text, or do not, wait for its embedding, and write it; export and   *)
(* import page through the table while the others write it.  A statement of  *)
(* the database is one step.                                                 *)
EXTENDS Integers, Sequences, FiniteSets, SequencesExt, FiniteSetsExt

CONSTANTS
  Callers,
  Texts,
  Secrets,       \* texts shaped like a credential
  PageSize,      \* rows to a page, 500
  MaxMemories,   \* rows an export stops at, 50,000
  MaxStarts,     \* bound: requests
  MaxForgets,    \* bound: deletions
  K,             \* results a search may return
  Fanout,        \* retrieval_candidate_fanout
  Floor,         \* retrieval_min_similarity
  Similarities,  \* what an embedding may score
  Sizes,         \* what an entry of a context pack may take
  Room           \* max_chars of a context pack

ASSUME MemoryAssumption ==
  /\ Secrets \subseteq Texts
  /\ {PageSize, MaxMemories, K, Fanout} \subseteq Nat \ {0}
  /\ Similarities \subseteq Int /\ Sizes \subseteq Nat \ {0}
  /\ Floor \in Nat \ {0} /\ Room \in Nat
  /\ {MaxStarts, MaxForgets} \subseteq Nat

VARIABLES
  backend,    \* resolve_backend(), for the life of the process
  memories,   \* the table, oldest first
  op,         \* what each caller is in the middle of
  found,      \* the answer of the search that has just been made
  written,    \* rows written so far, whose count is the next one's id
  starts, forgets

memoryVars == <<backend, memories, op, found, written, starts, forgets>>

Ids == {memories[i].id : i \in DOMAIN memories}
Stored == {memories[i].text : i \in DOMAIN memories}

\* known: texts an import takes for present.  page: how far it has paged, and
\* what it has read.  History: saw, the rows a caller has reason to know of;
\* moved, that a deletion has shifted rows between its pages; missed, texts it
\* called present that were not.
Idle == [kind |-> "none", at |-> "idle", todo |-> <<>>, known |-> {},
         page |-> <<>>, saw |-> {}, moved |-> FALSE, missed |-> {}]

NoAnswer == [got |-> <<>>, want |-> <<>>, pack |-> <<>>]

Lists == BoundedSeq(Texts, 2)

MemoryTypeOK ==
  /\ backend \in {"postgres", "sqlite"}
  /\ memories \in Seq([id : 1..written, text : Texts])
  /\ \A c \in Callers :
       /\ op[c].kind \in {"none", "remember", "save", "seed", "awaken", "facts",
                          "mine", "import", "export"}
       /\ op[c].at \in {"idle", "pool", "model", "check", "store", "scan", "merge",
                        "page", "over"}
       /\ op[c].todo \in Lists /\ op[c].known \subseteq Texts
       /\ op[c].saw \subseteq 1..written /\ op[c].missed \subseteq Texts
       /\ op[c].moved \in BOOLEAN
  /\ IsInjective([i \in DOMAIN memories |-> memories[i].id])
  /\ written \in Nat /\ starts \in 0..MaxStarts /\ forgets \in 0..MaxForgets

\* The table may hold what earlier processes have stored.
MemoryInit ==
  /\ backend \in {"postgres", "sqlite"}
  /\ \E ts \in Lists :
       /\ memories = [i \in DOMAIN ts |-> [id |-> i, text |-> ts[i]]]
       /\ written = Len(ts)
  /\ op = [c \in Callers |-> Idle]
  /\ found = NoAnswer
  /\ starts = 0 /\ forgets = 0

Does(c, o) ==
  /\ op' = [op EXCEPT ![c] = o]
  /\ found' = NoAnswer
  /\ UNCHANGED backend

-----------------------------------------------------------------------------
(* Requests                                                                *)

Start(c, kind, at, todo) ==
  /\ op[c].kind = "none" /\ starts < MaxStarts
  /\ starts' = starts + 1
  /\ Does(c, [Idle EXCEPT !.kind = kind, !.at = at, !.todo = todo,
                          !.saw = IF kind \in {"import", "export"} THEN Ids ELSE {}])
  /\ UNCHANGED <<memories, written, forgets>>

\* Refused, without effect, when the text looks like a credential.
Remember(c) == \E t \in Texts \ Secrets : Start(c, "remember", "check", <<t>>)

\* The memory keeper's tool checks neither for secrets nor for the text.
Save(c) == \E t \in Texts : Start(c, "save", "store", <<t>>)

\* Neither does what is added by hand in the console,
AddMemory(c) == Save(c)

\* nor the line that records a finished build, if it ran with memory at hand.
RememberBuild(c) == Save(c)

\* In the API, or by the script, a process of its own that needs Postgres.
Seed(c) == \E ts \in Lists : ts # <<>> /\ Start(c, "seed", "check", ts)

\* The first memories: the origin story, whose text tells whether this is a
\* birth, and what it found at hand.
Awaken(c) ==
  \E ts \in Lists : ts # <<>> /\ IsInjective(ts) /\ Start(c, "awaken", "check", ts)

Consolidate(c) == Start(c, "facts", "pool", <<>>)

\* Of a bundle's records, which may repeat a text.
Import(c) == \E ts \in Lists : ts # <<>> /\ Start(c, "import", "scan", ts)

Export(c) == Start(c, "export", "page", <<>>)

-----------------------------------------------------------------------------
(* Looking, embedding, writing                                             *)

Ends(c) == Does(c, Idle)

\* The miner follows the facts.
Mining == [Idle EXCEPT !.kind = "mine", !.at = "model"]

\* The next text, or what comes after the last.
Onward(o) ==
  LET rest == Tail(o.todo)
  IN  IF rest # <<>>
        THEN [o EXCEPT !.todo = rest,
                       !.at = CASE o.kind = "import" -> "merge"
                                [] o.kind = "awaken" -> "store"
                                [] OTHER             -> "check",
                       !.saw = IF o.kind = "awaken" THEN {} ELSE @]
        ELSE CASE o.kind = "facts"  -> Mining
               [] o.kind = "import" -> [o EXCEPT !.todo = rest, !.at = "over"]
               [] OTHER             -> Idle

\* get_pool() with nothing to connect to raises, whatever store is in use.
NoPool(c) ==
  /\ op[c].at = "pool" /\ backend = "sqlite"
  /\ Ends(c)
  /\ UNCHANGED <<memories, written, starts, forgets>>

Pooled(c) ==
  /\ op[c].at = "pool" /\ backend = "postgres"
  /\ Does(c, [op[c] EXCEPT !.at = "model"])
  /\ UNCHANGED <<memories, written, starts, forgets>>

\* What the model makes of today's messages: nothing when there were none, or
\* when its answer does not parse.
ExtractsFacts(c) ==
  /\ op[c].at = "model" /\ op[c].kind = "facts"
  /\ \E ts \in Lists :
       Does(c, IF ts = <<>> THEN Mining ELSE [op[c] EXCEPT !.at = "check", !.todo = ts])
  /\ UNCHANGED <<memories, written, starts, forgets>>

\* The playbooks it finds in the traces of tools, if there are enough of them.
ExtractsPlaybooks(c) ==
  /\ op[c].at = "model" /\ op[c].kind = "mine"
  /\ \E ts \in Lists :
       Does(c, IF ts = <<>> THEN Idle ELSE [op[c] EXCEPT !.at = "check", !.todo = ts])
  /\ UNCHANGED <<memories, written, starts, forgets>>

ContentExists(t) == t \in Stored

\* Fault: nobody looks for a seed's later entries.
CheckFirstOnly(c) ==
  LET o == op[c]
  IN  /\ o.at = "check"
      /\ Does(c, IF Head(o.todo) \in Stored /\ ~ (o.kind = "seed" /\ Len(o.todo) = 1)
                   THEN Onward(o)
                   ELSE [o EXCEPT !.at = "store", !.saw = Ids])
      /\ UNCHANGED <<memories, written, starts, forgets>>

\* The origin story ends an awakening that finds it.
Check(c) ==
  LET o == op[c]
  IN  /\ o.at = "check"
      /\ Does(c, IF ContentExists(Head(o.todo))
                   THEN IF o.kind = "awaken" THEN Idle ELSE Onward(o)
                   ELSE [o EXCEPT !.at = "store", !.saw = Ids])
      /\ UNCHANGED <<memories, written, starts, forgets>>

\* The database or the model raises: no caller catches it here.
Raises(c) ==
  /\ op[c].at \in {"pool", "model", "check"}
  /\ Ends(c)
  /\ UNCHANGED <<memories, written, starts, forgets>>

Inserted(t) == Append(memories, [id |-> written + 1, text |-> t])

\* The embedding has come and the row is written.
Store(c) ==
  /\ op[c].at = "store"
  /\ written' = written + 1
  /\ memories' = Inserted(Head(op[c].todo))
  /\ Does(c, Onward([op[c] EXCEPT !.known = @ \cup {Head(op[c].todo)},
                                  !.saw = IF op[c].kind = "import" THEN @ \cup {written'} ELSE {}]))
  /\ UNCHANGED <<starts, forgets>>

\* The embedder or the store raises: consolidation, mining, import and birth
\* go on with the next, the others give up.
StoreFails(c) ==
  /\ op[c].at = "store"
  /\ IF op[c].kind \in {"facts", "mine", "import", "awaken"}
       THEN Does(c, Onward(op[c])) ELSE Ends(c)
  /\ UNCHANGED <<memories, written, starts, forgets>>

-----------------------------------------------------------------------------
(* Paging: newest first, by offset, one query to a page                     *)

First(s, n) == SubSeq(s, 1, IF n < Len(s) THEN n ELSE Len(s))

Page(o) == First(SubSeq(Reverse(memories), Len(o.page) + 1, Len(memories)), PageSize)

\* Fault: a full page is taken for the last.
LastPageIfFull(p) == Len(p) <= PageSize

LastPage(p) == Len(p) < PageSize

\* A page more of what o reads, and where that leads if it is the last.
Reads(o, p, last, after) ==
  [o EXCEPT !.page = @ \o p, !.at = IF last THEN after ELSE @]

TextsOf(p) == {p[i].text : i \in DOMAIN p}

\* What the import will take for present.
Scan(c) ==
  LET o == op[c]
      p == Page(o)
  IN  /\ o.at = "scan"
      /\ Does(c, [Reads(o, p, LastPage(p), "merge") EXCEPT !.known = @ \cup TextsOf(p)])
      /\ UNCHANGED <<memories, written, starts, forgets>>

\* A page that cannot be read ends the scan, not the import.
ScanFails(c) ==
  /\ op[c].at = "scan"
  /\ Does(c, [op[c] EXCEPT !.at = "merge", !.moved = TRUE])
  /\ UNCHANGED <<memories, written, starts, forgets>>

\* Fault: a record counts as known before it is stored.
MergeHashFirst(c) ==
  LET o == op[c]
      t == Head(o.todo)
  IN  /\ o.at = "merge"
      /\ Does(c, IF t \in o.known
                   THEN Onward([o EXCEPT !.missed = @ \cup ({t} \ Stored)])
                   ELSE [o EXCEPT !.at = "store", !.known = @ \cup {t}])
      /\ UNCHANGED <<memories, written, starts, forgets>>

\* A record whose text is known is skipped.
Merge(c) ==
  LET o == op[c]
      t == Head(o.todo)
  IN  /\ o.at = "merge"
      /\ Does(c, IF t \in o.known
                   THEN Onward([o EXCEPT !.missed = @ \cup ({t} \ Stored)])
                   ELSE [o EXCEPT !.at = "store"])
      /\ UNCHANGED <<memories, written, starts, forgets>>

Clean(p) == TextsOf(p) \cap Secrets = {}

\* Between two pages an export looks whether it has enough.
Capped(s) == Len(s) >= MaxMemories

\* A page of the export, refused as a whole when a row holds a credential.
ReadPage(c) ==
  LET o == op[c]
      p == Page(o)
  IN  /\ o.at = "page"
      /\ Does(c, IF Clean(p) THEN Reads(o, p, LastPage(p) \/ Capped(o.page \o p), "over") ELSE Idle)
      /\ UNCHANGED <<memories, written, starts, forgets>>

\* The export or the import answers.
Answer(c) ==
  /\ op[c].at = "over"
  /\ Ends(c)
  /\ UNCHANGED <<memories, written, starts, forgets>>

-----------------------------------------------------------------------------
(* Forgetting, and a crash                                                 *)

Deleted(i) == RemoveAt(memories, i)

\* The rows behind the one that goes move up, also for who is paging.
Forget ==
  \E i \in DOMAIN memories :
    /\ forgets < MaxForgets
    /\ forgets' = forgets + 1
    /\ memories' = Deleted(i)
    /\ op' = [c \in Callers |->
                IF op[c].kind \in {"import", "export"} THEN [op[c] EXCEPT !.moved = TRUE]
                                                       ELSE op[c]]
    /\ found' = NoAnswer
    /\ UNCHANGED <<backend, written, starts>>

Crash ==
  /\ \E c \in Callers : op[c] # Idle
  /\ op' = [c \in Callers |-> Idle]
  /\ found' = NoAnswer
  /\ UNCHANGED <<backend, memories, written, starts, forgets>>

-----------------------------------------------------------------------------
(* Search: sim and imp score a text, imp in halves of 0.5 to 1              *)

Rows == Range(memories)

\* What of S comes before r by its score; of equals the older does.
Ahead(S, r, score) ==
  {q \in S : \/ score[q.text] > score[r.text]
             \/ score[q.text] = score[r.text] /\ q.id < r.id}

\* ORDER BY and LIMIT: the first n of S, and all of S in order.
Best(S, n, score) == {r \in S : Cardinality(Ahead(S, r, score)) < n}

Ranked(S, score) ==
  [i \in 1..Cardinality(S) |-> CHOOSE r \in S : Cardinality(Ahead(S, r, score)) = i - 1]

Weight(sim, imp) == [t \in Texts |-> sim[t] * imp[t]]

Related(S, sim) == {r \in S : sim[r.text] >= Floor}

\* The nearest candidates by similarity alone, then the floor, then the rank.
PostgresSearch(sim, imp) ==
  LET related == Related(Best(Rows, K * Fanout, sim), sim)
  IN  Ranked(Best(related, K, Weight(sim, imp)), Weight(sim, imp))

\* Fault: the floor is applied to the weight.
SqliteSearchFloorsWeight(sim, imp) ==
  Ranked(Related(Best(Rows, K, Weight(sim, imp)), Weight(sim, imp)), Weight(sim, imp))

\* The best by rank, then the floor, which nothing unlike the question passes: a
\* floor that is not positive, which only a caller's own could be, is left out.
SqliteSearch(sim, imp) ==
  Ranked(Related(Best(Rows, K, Weight(sim, imp)), sim), Weight(sim, imp))

\* Every row that is related, ranked: what a search is for.
Ranking(sim, imp) == Ranked(Best(Related(Rows, sim), K, Weight(sim, imp)), Weight(sim, imp))

Taken(s, size) == FoldSeq(LAMBDA r, n : n + size[r.text], 0, s)

\* context_pack(): entry after entry until one does not fit.
Pack(got, size) ==
  First(got, Max({0} \cup {n \in DOMAIN got : Taken(First(got, n), size) <= Room}))

\* Bound: nobody is writing; an answer depends on the table alone.
Search ==
  /\ op = [c \in Callers |-> Idle]
  /\ \E sim \in [Texts -> Similarities], imp \in [Texts -> {1, 2}], size \in [Texts -> Sizes] :
       LET got == IF backend = "sqlite" THEN SqliteSearch(sim, imp) ELSE PostgresSearch(sim, imp)
       IN  found' = [got |-> got, want |-> Ranking(sim, imp), pack |-> Pack(got, size)]
  /\ UNCHANGED <<backend, memories, op, written, starts, forgets>>

-----------------------------------------------------------------------------

Request(c) ==
  \/ Remember(c) \/ Save(c) \/ AddMemory(c) \/ RememberBuild(c) \/ Seed(c) \/ Awaken(c)
  \/ Consolidate(c) \/ Import(c) \/ Export(c)

Step(c) ==
  \/ NoPool(c) \/ Pooled(c) \/ ExtractsFacts(c) \/ ExtractsPlaybooks(c) \/ Check(c)
  \/ Raises(c) \/ Store(c) \/ StoreFails(c) \/ Scan(c) \/ ScanFails(c) \/ Merge(c)
  \/ ReadPage(c) \/ Answer(c)

MemoryNext == (\E c \in Callers : Request(c) \/ Step(c)) \/ Forget \/ Crash \/ Search

MemorySpec == MemoryInit /\ [][MemoryNext]_memoryVars

-----------------------------------------------------------------------------
(* Properties                                                              *)

\* Nobody writes a text beside a row it had reason to know: copies come only
\* from callers that overlap, from those that do not look (the memory keeper, the
\* console, the coder, a birth after its first text), and from an import whose
\* scan a deletion or an error has cut short.
NoSecondCopy ==
  \A c \in Callers :
    op[c].at = "store" /\ ~ op[c].moved =>
      \A i \in DOMAIN memories :
        memories[i].text = Head(op[c].todo) => memories[i].id \notin op[c].saw

\* An export that nothing was deleted under holds every memory there was when
\* it began, however many were written between its pages.  One that has come to
\* its cap, with rows that it has read twice among those it counts, may leave out
\* some, all older than any it holds.
ExportComplete ==
  \A c \in Callers :
    op[c].kind = "export" /\ op[c].at = "over" /\ ~ op[c].moved =>
      LET got == {op[c].page[i].id : i \in DOMAIN op[c].page}
      IN  /\ Capped(op[c].page) \/ op[c].saw \subseteq got
          /\ \A x \in op[c].saw \ got, y \in got : x < y

\* An import that nothing was deleted under calls no text "already known" that
\* is not there, also when it has failed to store the same text before.
KnownIsThere == \A c \in Callers : op[c].moved \/ op[c].missed = {}

\* An answer is made of the best related rows: SQLite's is the beginning of
\* the ranking, Postgres' the whole, as long as its candidates are all rows.  What
\* a model is given of it is the beginning too.
AnswerIsRanked ==
  backend = "sqlite" \/ Len(memories) <= K * Fanout =>
    /\ IsPrefix(found.got, found.want) /\ IsPrefix(found.pack, found.want)
    /\ backend = "postgres" => found.got = found.want

-----------------------------------------------------------------------------
(* Together                                                                *)

\* Copies and gaps in the table come only from where two have overlapped.
MemoryInv == MemoryTypeOK /\ NoSecondCopy /\ KnownIsThere
=============================================================================
