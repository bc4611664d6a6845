# A verification of KriyamanAI

KriyamanAI (`src/kriyaman/`) answers questions over uploaded documents, the web,
memories and tools. A FastAPI process accepts a query, runs it through a LangGraph
workflow whose planner, judge and generator are LLM calls, and stores the run in
PostgreSQL. This directory holds TLA+ models of that program, the TLC configurations
that check them on small instances, and proofs checked by TLAPS. All paths below are
relative to `src/kriyaman/`.

## 1. The system

| Component | State it keeps | Operations | Hard behaviour | What makes it correct |
|---|---|---|---|---|
| Run graph (`application/graph/`) | `GraphState`: plan, plan history, evidence, assessment, counters, events, context, answer, status | 14 nodes, 4 routing functions | LLM-chosen plans and verdicts, a loop, exceptions out of any node | evidence gate, budgets, honest status, termination |
| Controller and validator (`application/controller.py`, `plan_validator.py`) | none; read history and budgets | `decide`, `refine`, `validate` | LLM failure falls back to rules, plans are replaced | only schema actions, no web search when it is off |
| Evidence judge (`application/evidence_judge.py`) | none | `evaluate` | fast paths, LLM, heuristics, promotion at the limit | a verdict the router knows, no sufficiency without evidence |
| Retrieval agent and tools (`application/retrieval_agent.py`, `adapters/tools/`) | none | `execute`, `invoke` | duplicate passages, repeated tool calls, failing stores | evidence ids unique, evidence only grows |
| Context builder, answer service, output guardrails | none | `build_context`, `generate`, `validate_answer` | trimming, invented citations | citations exist in the evidence |
| Run service (`application/run_service.py`) and HTTP API (`app/api/routes.py`) | one database transaction per request | `execute_run`, `create_run`, `get_run`, `delete_session` | exceptions and crashes between commits, concurrent deletion, polling | a run is stored whole or not at all |
| Credits (`persistence/repositories/credit_repo.py`) and metering (`adapters/llm/litellm_gateway.py`) | a row per client; the gateway's `cumulative_usage` | `check_budget`, `record_usage`, `reset_cumulative_usage` | concurrent requests of one client, a gateway shared by all requests | no lost charge, bounded overspend, usage charged to who caused it |
| LLM gateway retries (`adapters/llm/litellm_gateway.py`) | none besides the usage | `generate_text`, `generate_structured` | models, keys, attempts; rate limits; unparsable output | bounded calls, every success counted |
| Checkpoint saver (`persistence/checkpoint.py`) | checkpoint, blob and write tables | `put`, `put_writes`, `get_tuple`, `list`, `delete_thread` | failed puts; what the interface allows besides: branches, crashes, readers in other processes | a checkpoint reads back what was put, the latest is the newest, no stored task runs again |
| Ingestion (`application/ingestion_service.py`, `parsers.py`) | documents, chunks | `ingest_document` | concurrent uploads of one file, failure half way | a hash once per session, no partial document |
| Chunker (`application/chunker.py`) | the window over a text | `chunk_text` | splits and overlaps at the boundaries | no word lost at a cut, windows that advance, an end |
| Caches (`application/cache_service.py`, `adapters/cache/`) | namespaced entries | `get_or_load`, `delete_namespace` | invalidation before commit, redis failing | nothing reads them |
| Vector store (`adapters/vectorstores/pgvector.py`), reranker, web search (`adapters/web/`) | chunks | `search`, `hybrid_search` | rank fusion, provider cascade | results of the session only, best first |
| Users, sessions, principals, memories (`app/auth.py`, repositories) | rows | create, list, delete | get-or-create races | one row per identity |
| Web UI (`kriyaman_ui/src/app/page.tsx`) | active session, messages, documents, attachments, pending requests | `ensureSession`, `loadSessionData`, `handleSendMessage`, `handleUploadDocument`, `handleRemoveAttachment` | answers in any order, failures, stops, an upload that was taken back | one session is created, a load sets the chat to the session it is of, nothing stays under way |

Components interact by direct calls inside one request (route, run service, graph,
services, gateway), through PostgreSQL rows between requests, through the process-wide
gateway object that `dependencies.py` caches, and through HTTP between UI and API.
Observability, embeddings, PII patterns, the evaluation runner, migrations and page
layout are listed in `PROJECT.json` as not modelled, with the reason.

## 2. What is modelled, and where

| Module | Kind | Models |
|---|---|---|
| `RunGraph` | component | one run through the LangGraph workflow: `application/graph/`, `controller.py`, `plan_validator.py`, `evidence_judge.py`, `retrieval_agent.py`, `answer_service.py`, `output_guardrails.py` |
| `EvidenceGate` | abstract | what a run promises its caller; `RunGraph` implements it |
| `RunMetering` | component | concurrent `POST /sessions/{id}/runs` requests: credit check, locks, usage objects, the two transactions |
| `CreditAccount` | abstract | the ledger a client sees; `RunMetering` implements it |
| `LLMGateway` | component | `LiteLLMGatewayAdapter`: failover over models and keys, retries, usage |
| `MeteredCalls` | abstract | what the gateway promises its callers; `LLMGateway` implements it |
| `Workspace` | component | the data-changing endpoints as transactions over PostgreSQL: sessions, documents, memories, runs, turns |
| `SessionStore` | abstract | the same data with every request as one atomic step; `Workspace` implements it |
| `Chunker` | component | `TextChunker.chunk_text`, window by window, over positions in a text |
| `CheckpointSaver` | component | `PostgresCheckpointSaver` over its three tables, with an engine that writes and, as its interface allows, resumes, and processes that read |
| `WebClient` | component | the handlers of `page.tsx` between their awaits, with the server doing one request per step, as `SessionStore` promises |
| `MC*` | model checking | constants for TLC, one per component |
| `*Proofs` | proofs | the theorems about each component |
| `FiniteSums` | lemmas | induction over the natural numbers and sums over finite sets, for the proofs about ledgers, calls and chunks |

The components are tied to each other by what one takes from the other: `RunGraph` counts
the LLM calls per role that `LLMGateway` makes; `LLMGateway` adds up the usage whose
interleaving between runs is `RunMetering`'s `CallReads` / `CallWrites`; `RunMetering` and
`Workspace` are two views of the same request, one of its money and one of its rows, and
both start with the update of the user's row. `CheckpointSaver` stores the states between
the nodes of `RunGraph`, in transactions of its own. `WebClient` sends the requests that
`Workspace` serves, and may take each for one step of its server because `Workspace`
implements `SessionStore`. `PROJECT.json` ("map") names the lines behind every definition.

### RunGraph

The state is `GraphState` reduced to what decides the route: the node that runs next, the
plan and its history with verdicts, evidence (passages up to the hash that deduplicates
them), counters, the budgets of the request, the usage snapshot the budget checks read,
events with their numbers, context, answer and status. There is one action per node and,
where a node can leave in several ways, one per way out (`GenerateAnswer`,
`GenerateAnswerAbstains`, `GenerateAnswerRaises`). The routing functions of `policies.py`
and `builder.py` are operators. Left to chance: the guardrail's verdict on the query, the
plan an LLM returns (then validated as the code does), the judge's verdict among those its
current path can return, which passages a search finds, which citations the generator
writes, and every exception a provider or store may raise. `metered` counts successful LLM
calls beside `usage`, which the code never updates during a run.

### RunMetering

One action per statement that reads or writes something shared. A request goes through
`arrived`, the first transaction (`admitting` to `returned`) and the second (`recording`
to `charging`). Three things are shared: the user's row, which
`get_or_create_clerk_user` updates (`user_repo.py:40`) so that its lock is held to the end
of the transaction; the credit row, inserted by `check_budget` or `record_usage` and locked
`FOR UPDATE` by the latter; and the `cumulative_usage` of the adapter, which is the cached
one for all requests except those with keys of their own. `Fails` can happen at every
stage, `Crash` at any time. The key mode `keyless` is a byok request without an LLM key,
which the code sends to the platform's adapter.

### LLMGateway

A call visits *places*, pairs of candidate model and key position, in the order of the
nested loops of `generate_structured` and `generate_text`. `Reply`, `Misfit` (a reply off
the schema), `Limit` (429), `Error` and `RetryPlain` (the second request without
`response_format`) are the outcomes of one request to a provider. `attempts` and `heard`
record per place what happened there; the properties read them, the actions only the
former. Costs are integers in 1e-6 USD, so that the rounding in `_calculate_usage` is
visible.

### Workspace

Each worker serves one request in one transaction. `Arrive` authenticates and looks the
user up, `Stamp` updates the user's row or `Register` inserts it (waiting, as PostgreSQL
does, for another transaction that has written it), one action per endpoint does the
reads and decides between going on, 404 and an exception, and one action per endpoint
commits. At READ COMMITTED a statement reads committed rows, so the handler's reads are
taken where the code makes them and its writes appear with the commit; what other
transactions could do in between is in the interleaving. A run (`OpenRun`, `Retrieve`,
`FinishRun`, `CommitRun`) reads at the start, then searches through connections of the
vector store's own. `Close` ends a request that committed nothing: the session is rolled
back, and with it the update of the user's row, or the row itself if it was new.
`GET /sessions/{id}` and `GET /runs/{id}` are there because they take the same lock; the
listing endpoints behave as the former. Identifiers are uuid4, so `Brings` takes one that
was never given out and `Names` only such as were.

### Chunker

A text is a sequence over the four kinds of character `chunk_text` tells apart: letters,
dots, blanks and newlines. The state is the start of the current window and the chunks so
far, as pairs of positions. `Slide` is one turn of the loop: `Region` is the slice in which
a separator is looked for, `SplitPoints` the end of its last occurrence, `Cut` where the
window ends, `Inked` what `strip()` keeps and `Restart` where the next window begins.
Slices beyond the end of the text behave as in Python. The configured sizes are 500 and 50
characters (`config.py:153-158`); the properties do not depend on them, and the theorems
hold for every size and every non-negative overlap smaller than it. The constructor would
take a negative overlap too (`chunker.py:9-13`), which no configuration has.

### CheckpointSaver

One thread, that is one run: every statement of the saver names its thread. The tables hold
rows as the code writes them: a checkpoint with its channels' versions, a blob per channel
and version, a write per checkpoint, task and index. `Put` is one transaction; `get_tuple`
is `ReadRow`, one `ReadBlob` per channel and `ReadWrites`, between which other processes
may commit (`get_tuple` holds a lock of its own process only). A version is a counter and a
random part, which is taken never to repeat. The caller is LangGraph, modelled from its use
in `run_service.py` and `builder.py` and marked external in the map: it takes a checkpoint
after each step and hands it to a writer in the background (`TakeCheckpoint`, `queue`), it
can go on from any checkpoint, also an old one (`ReadRow` with an id, `Resume`), so that a
run has branches, and it can die (`Crash`). `PutFails` loses a checkpoint while those after
it are stored. This program uses half of that: `run_service.py:208-210` invokes a fresh
thread once, and nothing resumes one, names a checkpoint or reads a thread from another
process. The properties are those a saver owes LangGraph; what this program would meet of
their violations is nothing yet, and the hazards list only the put that fails. `list` is
left out (it orders by time alone, `checkpoint.py:146`, where `get_tuple` goes by id within
one instant), and so are the asynchronous methods, which run the same code on a thread.

### WebClient

A handler of the page runs to its next `await` in one step: `Ask`, `Attach`, `Select`,
`Delete`, `NewSession`, `Stop`, `RemoveUploading` and `RemoveUploaded` are what the user does, and
`Ensured`, `ShowTurns`, `ShowAnswer`, `Uploaded` and the like go on when an answer is
there. Requests under way are a set, so that they are served and answered in any order
(two that are equal, as two loads of one session, count as one); an answer can be a failure
although the server did what was asked. `Proceed` is the part of `handleSendMessage` and
`handleUploadDocument` behind `ensureSession`, for all handlers that waited for the same
session. A run has two awaits: `FetchEvents` takes its answer, looks at `activeAbortRef` and
asks for the events while the stream goes on, `ShowAnswer` fills the placeholder and lists
the run's session again, deleted or not; `DropAnswer` and `ShowError` are the other ways
out. `messages` keeps of each question what the chat shows of it; `Replace` touches a
placeholder only if no load has taken it away. A load brings the last turns of a session
(`Recent`; 20 in `routes.py:371`, `TurnLimit` in the model). `Delete` goes on with another
session, or with none, before the server has been asked. `asked` and `shown` are history:
the session each question was sent to, and the one the chat was last loaded from. Left out
are memories, titles, the list of documents, which the page loads after the turns and only
displays, the list of sessions the server sends at the start, and an upload the server
recognises as a duplicate; local storage holds what `listed` holds.

## 3. What is checked

| Run | Question | Bounds |
|---|---|---|
| `run_graph` | budgets, rejected queries, plan history, outcome, refinement of `EvidenceGate`, termination | 2 passages (one strong), six budgets of at most 2 iterations and 2 tool calls, of which three are spent from the start, 7 planner actions, 13 supersteps |
| `run_metering` | row locks, ledger, refinement of `CreditAccount`, every request ends | 3 requests of 2 users, both key modes, one unit call per run, limit 1 |
| `llm_gateway` | order and completeness of failover, retries, cost of tokens, refinement of `MeteredCalls`, calls return | 2 calls, 3 candidates with a repetition, 4 key configurations, 1 retry, 3 kinds of reply |
| `workspace` | orphans, half documents, stale duplicate checks, one corpus per run, refinement of `SessionStore`, every request ends | 2 workers, 2 users, 2 sessions, one content, fact and run; a second user who tries the first one's session |
| `chunker` | words at cuts, advance of the windows, number of chunks, the end of the loop | all 5461 texts of up to 6 characters (`MaxText`) under 5 windows, from no overlap to all but one character |
| `checkpoint_saver` | primary keys, reading back, snapshots under concurrent puts, the latest row, tasks run once | 3 checkpoints (`MaxId`), 2 channels (symmetric), 1 task, 1 reader beside the engine |
| `web_client` | sessions created, the chat against the selected session, chips and streams that end | 2 sessions; a question and a file, or two questions (`Plans`); a load brings 1 turn (`TurnLimit`); the user acts while fewer than 2 requests are under way (`MaxUnderWay`) |
| `run_graph_promoted`, `run_metering_overspend`, `run_metering_shared`, `llm_gateway_unmetered`, `web_client_retraction` | statements of the repository that the code does not keep (section 6) | as above or smaller |

Why these bounds are enough for the questions:

* A run has no memory beyond its history and counters. Two iterations and two tool calls
  give every order of counted and uncounted plans, the last one before a budget and the
  first one after it; the rows with 0 and -1 are budgets that are spent before the run
  starts, which a request may carry because `ExecutionBudgets` of the request is not
  checked for them. Thirteen supersteps are the bound of `BudgetsBoundTheRun` for two and one,
  and the limit is also reached by looping plans, so both outcomes occur.
* Two requests of one user meet in every pair of stages, and the third brings a second
  user to the shared adapter. A limit and a run cost of one make every run decide whether
  the next is admitted.
* The failover loops treat all models and keys alike; three candidates have a first, a
  middle and a last, and the repetition exercises the removal of duplicates. Two calls
  show what the first leaves behind for the second.
* The transactions of `Workspace` interact in pairs, over one row lock per user; two
  workers give every pair, and a crash stops both. One content is enough for duplicates
  because a second one would never be compared with the first. The second session
  separates what is found by session from what is found anywhere. That more workers
  change nothing is what the theorems show.
* A window of `Chunker` looks at most its own size ahead. Six characters hold two to five
  windows of the sizes chosen, with every separator at every place of them, and the texts
  shorter than a window. That longer texts bring nothing new is what the theorems show.
* Three checkpoints are the fewest with which a run has two branches: one that both share
  and one on each, with the same counter. Two channels separate the channel that is new
  from the one that is inherited. Again the theorems cover every other size.
* With two requests under way the answer of one meets every stage of the other, and a
  handler may send more while the user waits; a question and a file, or two questions, wait
  for the same session together, and a second question follows a stopped one whose run goes
  on. One turn per load is fewer than a session can have. Beyond these bounds is a Stop
  while a run is under way and the next question still waits for its session (section 6).

**Fairness.** `RunGraph`: weak fairness of the next step; nodes run in a worker thread and
every provider call has a timeout (`litellm_gateway.py` passes one to each request).
`RunMetering`: weak fairness of `Works`, that is of a request's steps without `Fails`; the
event loop runs all handlers. No exception is taken for granted: PostgreSQL has no
`lock_timeout` by default, so that who waits for a row is served or waits for ever. It is
enough because every holder finishes and no request arrives again. `LLMGateway`: weak
fairness of everything but `Call` and `ResetUsage`, which are the caller's choice.
`Workspace`: weak fairness of `Works`, again without the exceptions, and strong fairness
of `Stamp` and `Register`, since PostgreSQL queues those who wait for a row lock, whereas
under weak fairness a stream of other requests of that user could overtake one for ever.
`Chunker`: weak fairness of the loop, which runs on the thread that called it.
`WebClient`: weak fairness of the steps of a question or a file (`Moves`): its requests
are answered or their connection breaks, and the browser calls the handler. The user need
not do anything. `CheckpointSaver` states no fairness: it has only safety properties.
Nothing is assumed of arrivals or crashes. That `Retrieve` repeated for ever is not a
counterexample follows from the weak fairness of `Works` only because a repeated search
finds nothing new and is a stutter; the bound on the number of searches is `RunGraph`'s.

**What the runs show.** The most useful result is one nobody wrote down: the update of
`last_seen_at`, bookkeeping in `get_current_user`, serialises all transactions of a user,
because it is the first statement of every request and its lock lasts to the end of the
transaction. `SerialUntilStored`, `DuplicateCheckCurrent`, `RunsReadOneCorpus` and
`RequestsAreAtomic` all hold for this reason and for no other: the mutants `StampNothing`
and `AuthenticateReadOnly`, which only look the user up, break them. Moving the stamp to a
cache, or committing it early, would bring duplicate-key errors in uploads, insertions
below deleted sessions and runs whose evidence their planner was never told of. The price
is that a user's other requests, polls included, wait for minutes while a run executes,
each with a connection of the pool (see the hazards in `PROJECT.json`).

## 4. What is proved

TLAPS proves these for every value of the constants (`PROJECT.json`, "theorems", has the
list with one sentence each). A leaf uses Z3, Zenon or, for temporal steps, LS4.

| Module | Theorems |
|---|---|
| `RunGraphProofs` | `TypeCorrect`, `GateIsHeld`, `AnsweredIsGenerated`, `GraphImplementsGate`, `CountersStayWithinBudgets`, `BudgetsBoundRuns`, `CallsKeepPace`, `RejectionIsHonoured`, `RefinementsAreJustified`, `CitationsAreGrounded`, `PromotionsAreInVain`, `ToolRunsAreNeverAnswered` |
| `RunMeteringProofs` | `TypeCorrect`, `RunsAreSerial`, `ReadsAreCurrent`, `OwnAdaptersAreExact`, `MeteringImplementsAccount`, `LedgersAreExact`, `OneUserIsMeteredExactly`, `WaitsAreShort`, `RequestsAdvance`, `SequentialUseIsCapped` |
| `LLMGatewayProofs` | `TypeCorrect`, `FailoverIsComplete`, `RetriesAreJustified`, `TokensAlwaysCost`, `GatewayImplementsCalls`, `CallsAreBounded`, `CallsAdvance` |
| `WorkspaceProofs` | `TypeCorrect`, `NothingIsOrphaned`, `DocumentsAreWhole`, `DuplicateChecksStayCurrent`, `RunsSeeOneCorpus`, `RequestsSerialise`, `NoLockIsLeaked`, `RequestsShrink` |
| `ChunkerProofs` | `TypeCorrect`, `WindowsKeepAdvancing`, `PhrasesStayWhole`, `CutsAreDetermined`, `ChunkingGoesOn`, `EveryWindowCounts`, `ChunksAreFew` |
| `WebClientProofs` | `TypeCorrect`, `SessionIsCreatedOnce`, `ChatShowsItsSession`, `NothingWaitsInVain` |
| `CheckpointSaverProofs` | `TypeCorrect`, `StoredCheckpointsReadBack`, `ReadsReturnSnapshots`, `LatestRowIsNewest`, `TasksAreDoneOnce` |

The assumptions are those of the modules: `ContentAssumption`, `BudgetsAssumption`,
`PlannerAssumption`, `RecursionAssumption` (passages, tool ids and invented ids differ;
budgets are integers, negative ones too); `RequestAssumption`, `ModeAssumption`,
`CostAssumption` (each request has an owner; costs are natural numbers);
`ChainAssumption`, `KeyAssumption`, `RetryAssumption`, `ReplyAssumption` (an adapter has a
Gemini or a Groq key of its own, which `dependencies.py` and `create_run` check before
they build one); `CallAssumption`, `NullAssumption` (requests are of the endpoints'
shapes, null values are no users, workers or requests); `TextAssumption`,
`WindowAssumption` (texts are sequences of characters, an overlap is smaller than its
window, as the constructor demands, and not negative); `BoundAssumption`,
`ProcessAssumption` (natural bounds, a plan of the user is of jobs, and an engine is none
of the readers); `JobAssumption`, `ChipAssumption` (questions, files, the null value and
the states of a chip differ). TLC evaluates each of them in the passing runs.

Along which arguments:

* **RunGraph.** `GateHolds` and `AnsweredMeansGenerated` are not inductive: `status` is
  set to `answer` by `terminal_ready` two nodes before the generator runs. `GateInv` adds
  what is true at each node on the way (verdict, context, whether anything was generated),
  and implies both and the refinement. `BudgetsBoundRuns` needs `StepsInv`, which bounds the
  supersteps taken by three per counted plan plus the position inside the round, `CallsInv`,
  which does the same for the LLM calls, and the budget invariant on top of them.
  `CallsKeepPace` does without the counters: `RateInv` compares the calls with the
  supersteps at every node, also after plans that are counted nowhere. `CitationInv` follows
  the ids of passages and tool results from the evidence over the context to the answer.
  `VainInv` shows two of the disagreements of section 6 to be general: iterations only grow,
  so a verdict promoted at their limit meets a spent budget in the generator's node, and
  that node is reached only with no tool called. That nothing was generated before is
  `GateInv` and `CitationInv`.
  `RejectedInv` pins a rejected run to the nodes that cost
  nothing. `HistoryInv` says at each node what the last entry of the plan history has to
  do with the current verdict: between planning and judging it has none yet, at
  `controller_refine` it was found wanting, everywhere else it agrees.
* **RunMetering.** `LedgerInv`: a request in its first transaction holds its user's row,
  one that is charging holds the credit row, and a row nobody has committed is zero. From
  it follow seriality, that what was read is still there when the sum is written, and the
  refinement. `MeterInv` follows a run's own adapter from the reset to the result, and
  `PlatformInv` does so for the shared one while a single user's requests use it.
  `SumsInv` is `LedgerInv` with `LedgerExact` and the finiteness of the answered requests,
  which no assumption gives: requests may be without number, those that have been answered
  are not. Each step then adds at most one run to one sum, and by `ReadIsCurrent` the
  row grows by the same amount. `WaitsInv` names the stages in which a lock can be
  held, from which the length of a chain of waits follows. `CapInv` is for a user whose runs
  are each charged before the next is admitted, on an adapter nobody else uses: then the
  balance that admitted a run is still below the limit when its charge is added, and at most
  one charge is on its way. The run of section 6 drops the first of these hypotheses.
* **LLMGateway.** `GatewayInv` says that places after the current one are untouched and
  those before it given up; the refinement additionally uses the type of `UsageOf`, which
  is where the rounding is proved never to make tokens free. The requests of a call are
  counted as a sum over its places: `CallsAreBounded` compares it, place by place, with
  what the retries allow.
* **Workspace.** `StoreInv`: `LockInv` (a transaction past `Enter` holds its user's row),
  `StageInv` (what a request has found out still holds: the session is its user's, the
  duplicate check, the listed corpus) and `FreshInv` (what a request creates is known to no
  other). The step from one worker to the others is `SessionKept`: two requests that have
  both looked up their session successfully have different users, by `OneOfAUser`, hence
  different sessions. Without `LockInv` the rest is not inductive; without `FreshInv` a
  session could be created over one that exists. `NoLockIsLeaked` is the converse of
  `LockInv`: who holds the row is a request of that user which has yet to close.

* **Chunker.** `CutIsPlaced` shows that a cut is at most an overlap before the end of its
  window, so that `RestartAdvances`. `PhrasesWhole` is inductive with the types: a phrase
  that begins before the next window but does not end in the chunk of this one would cross
  the cut; a cut at a separator follows a blank, which no phrase contains, and a cut
  without one lies less than an overlap behind the next window's start. `CutsAreDetermined`
  says that the two choices of the model, of a split and of a chunk, leave nothing to choose,
  as the code computes both: `GreatestNumber` gives the last occurrence of a separator,
  `LeastNumber` the best separator that occurs. `ChunksPaid` charges each chunk a stride of
  the text.
* **CheckpointSaver.** `SaverInv` links everything that is stored or read to `taken`, the
  history of what the engine meant to store: `HistoryInv` (the value of a channel is that
  of the checkpoint its version is from, and that one is an ancestor, or an ancestor is
  lost), `BlobsInv` (a blob is of a version of that channel, and a stored row has its
  blobs), `RowsInv` and `QueueInv` (rows are in the order of time, and what is queued is
  younger), `ReadInv` (what a process has read so far, although puts happen in between) and
  `PendingInv`. Reading back is not inductive without the lineage: the blobs that a
  checkpoint needs were put by others. The case of a lost ancestor stays in every part,
  since the engine may go on from what it read of a damaged checkpoint.
* **WebClient.** `EnsureInv` counts the requests for a session: with the types it is
  inductive alone, and `OneSessionIsCreated` follows. `ChatIsOfSession` is not inductive: a
  load replaces the chat by what its answer holds. `AskedInv` follows each question from
  the moment it is asked: its run, the fetch of its events, the turn the server stores and
  the loads that bring it are all of the session it was asked in, and a question that waits
  was asked nowhere yet. With `ShownInv` (what is shown was asked somewhere) it is
  inductive, because each step that changes the selected session leaves a load under way or
  an empty chat, and only the arrival of a load ends one. `PendingInv` follows a job from
  the user's click over the wait for a session to its request, and a question on to the
  fetch of its events; it is inductive because an upload that was taken back is never shown
  again.

**Induction.** The library states induction for an operator `P(_)`, which the provers here
cannot instantiate. `FiniteSums` states it for a set of numbers instead, as a consequence of
the library's theorem that a set with a well-founded relation has a minimal element. On it
rests that the fold behind `MapThenSumSet` satisfies its recursive equation on every finite
set, whatever `CHOOSE` takes first, and from there the lemmas that a sum changes by what one of
its elements changes by and is at most the number of its terms times their bound.
`LedgersAreExact` and `CallsAreBounded` cite these lemmas.

Each invariant was also checked by TLC on the instance of its component: `GateInv`,
`RejectedInv`, `HistoryInv`, `LedgerInv`, `MeterInv`, `GatewayInv`, `StoreInv`, `SaverInv`,
`EnsureInv`, `ChatInv` and `PendingInv` as they stand, and `StepsInv` in the form in which
it is proved, `Counted => StepsInv`. Of the theorems whose statement no run checks,
`CallsAreBounded`, `CallsAdvance`, `NoLockIsLeaked`, `RequestsShrink`, `CutsAreDetermined`,
`ChunkingGoesOn`, `ChunksAreFew`, `NothingWaitsInVain`, `PromotionsAreInVain`,
`ToolRunsAreNeverAnswered` and `SequentialUseIsCapped` were checked in the same way.

**Only model-checked:** the six liveness properties, which rest on fairness and ENABLED.
The safety that each of them rests on besides is proved:

| Property | Proved |
|---|---|
| `RunConcludes` | `CallsKeepPace`: the supersteps of a run, and with them its calls, never pass the recursion limit |
| `EveryRequestEnds` | `RequestsAdvance` bounds the steps of all requests, `WaitsAreShort` shows that a chain of waits ends after two |
| `CallsReturn` | `CallsAdvance`: each step of a call uses up one of the requests that `CallsAreBounded` allows it |
| `RequestsEnd` | `RequestsShrink` and `NoLockIsLeaked`: at most five steps and the searches, and whoever is waited for can go on |
| `ChunkingEnds` | `ChunkingGoesOn`: the loop can take its next turn; `EveryWindowCounts`: it takes finitely many |
| `PageComesToRest` | `NothingWaitsInVain`: what the stream and the chips wait for is under way (not so for the placeholders) |

## 5. What is not modelled

`PROJECT.json` ("components") gives the reason for every part. In short: text (prompts,
wording, parsing, regular expressions, embeddings), presentation, observability,
configuration and migrations have no behaviour that a model would tell more of than a
reading. Rank fusion and the reranker are arithmetic on floats whose order no document
fixes. The caches are dead code: `get_cache_service` passes a keyword that `CacheService`
does not take, and nothing reads a cache, so that there is no caller to model them under.
Of the web client, memories, titles, the list of documents and the list of sessions at the
start are left out.
Inside the modelled parts: a session has at most 50 documents (`list_by_session` lists no
more), the database always has a connection to give, the transaction isolation is the
default of PostgreSQL, `last_seen_at` is written with a value that differs from the old
one, the random part of a version never repeats, and amounts are integers in place of
floats.

## 6. Where the code and the repository's statements disagree

`PROJECT.json` ("findings") quotes both sides.

| Run | What it shows |
|---|---|
| `run_graph_promoted` | evidence that the judge promotes at the iteration limit "for synthesis" always meets the generator's own budget check and is never synthesised (`PromotionsAreInVain`: no promotion is) |
| `run_metering_overspend` | a request is admitted between the commit of another run and the commit of its charge (`SequentialUseIsCapped`: otherwise the limit is passed by the last run at most) |
| `run_metering_shared` | two users' runs share, and reset, one usage object: one pays for the other, or for nothing |
| `llm_gateway_unmetered` | a reply that does not fit the schema is paid for and counted nowhere |
| `web_client_retraction` | a file that is taken back while it is uploaded stays on the server and is searched |

Disagreements that need no run, since one reading shows them and the model follows the
code:

* nothing updates `state["usage"]` during a run, so the latency, token and cost budgets
  never stop one (`nodes.py:434`; `docs/REBUILD_SPEC.md:258`);
* a run that called a tool and was judged sufficient fails in the context builder, on an
  attribute `ToolResult` does not have (`context_builder.py:63`; `ContextBuilderFails`; `ToolRunsAreNeverAnswered`);
* polling a stored run raises, on a column `RunModel` does not have (`routes.py:635`; the
  phase `raised` of `Workspace`);
* a run that is stored when the second transaction fails is charged to nobody
  (`routes.py:521`; `Forfeit` of `CreditAccount`);
* tool results of one run share an evidence id (`retrieval_agent.py:129`), and a plan
  without acquisition is judged sufficient over no evidence (`evidence_judge.py:172`);
* a reply off the schema makes the gateway ask the next key of the same model
  (`litellm_gateway.py:384`), where the comment above has "Escalate to next model
  immediately on schema validation failure" (`:383`) and `docs/REBUILD_SPEC.md:487` wants an
  immediate failover across providers or models; `FailoverInOrder` and `FailoverIsComplete`
  follow the code.

Behaviours of the page that no document forbids, which the model has as the code does:

* a load that arrives late shows the turns of a session that was left under the selected
  one, and stays until the next load (`page.tsx:262`; the first condition of
  `ChatIsOfSession`);
* on a fresh page the first question's run and the load of its new session go out together:
  the load, which has no turns yet, wipes the placeholder, and the stored answer is not
  shown until the session is opened again (`page.tsx:262`, `:464`);
* the end of a run lists its session again when it was deleted meanwhile (`page.tsx:479-491`);
* the end of one run ends the indicator of another, a new question takes back the Stop of
  the one before, and a Stop during the fetch of the events is not honoured (`page.tsx:370`,
  `:433`, `:444`, `:511`). A Stop while the next question waits for its session marks that
  question instead, and its answer is dropped.

## 7. What could come next

1. The rest of the page: memories, documents, the list of sessions at the start and its
   reconciliation with local storage.
2. The pool of connections, shared by the requests of `Workspace` and by the searches and
   checkpoints that take connections of their own.
