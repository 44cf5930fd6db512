# Verification of the RAG stack

TLA+ models of the services in this repository, model-checked with TLC, and
theorems about them, checked with TLAPS.  `PROJECT.json` lists the components,
the runs, the source lines every definition stands for, the hazards and the
theorems.

    tlc -workers 2 -config IngestFaults.cfg MCIngestion    # a run
    tlapm IngestionProofs.tla                              # proofs, also ChunkingProofs, PassagesProofs,
                                                           # RequestProofs, ChatProofs, SessionProofs,
                                                           # EvidenceProofs, ViewProofs

## 1. The system

A NestJS API, a Python worker and a React client share PostgreSQL (rows and
vectors), Redis (a BullMQ queue) and an object store.

| Part | State | Operations | What makes it correct |
| --- | --- | --- | --- |
| API: documents, ops | rows `Document`, `DocumentVersion`, `IngestJob` | upload, reindex, retry: one transaction, then `queue.add`, then a mark if that raised | one live job per version; a live job is always held by somebody |
| Queue `ingest` | entries with attempts, backoff, lock, stall count | add, claim, complete, fail, promote, stalled check | every added job is delivered until it is finished or given up |
| Worker | per slot: stage, job, attempt number | activate, fetch, parse, normalize, chunk, embed, persist, mark success, handle failure, report | attempts stay apart; statuses tell the truth; indexed means searchable |
| Chunk persistence | rows `DocumentChunk`, `supersededAt` | supersede, insert, verify, commit | retrieval never sees a mixture or a part |
| Knowledge bases | rows `KnowledgeBase`, `KbMember`, `AuditLog` | create, rename, archive, add, remove | somebody owns a knowledge base; the log tells what happened |
| Sessions | rows `RefreshSession`; tokens in each browser | login, refresh, logout | one successor per refresh; logout ends what it should |
| Chat | rows `Conversation`, `Message`, `Citation` | ask: persist, retrieve, answer, cite | answers cite what could be read; replies agree with the rows; prompts follow the conversation |
| Retrieval and citations | none | merge, score, order, drop duplicates, cut, cite, excerpt | the best passages are used; a citation is of what the answer used and shows it |
| Evaluations | rows `EvalRun`, `EvalItem` | run cases, grade them, compare with the previous run | every outcome agrees with its items; points are earned |
| Parsing to embedding | none | pure stages and a remote call with retries | no text is lost; chunks keep their limits; every text gets its own vector |
| Web client | selected knowledge base, conversation, lists, route | fetch, poll, upload, send, navigate | what is shown belongs to what is selected; what is pending is followed |
| Ops views, health, audit, metrics, configuration | counters, constants | reads | not decided by interleavings |

**How they interact.** A handler commits the rows before it adds the job to the
queue, so the two can part: the process may die in between, the add may be
refused, or it may raise although Redis has the job.  The queue delivers at
least once: a worker that dies, or whose event loop is blocked past its lock,
has its job given to another slot, and its own transactions may still commit.
The worker's attempt counter is in the row (with a CHECK constraint against
`maxAttempts`), the queue keeps one of its own, and the two only agree as long
as nothing dies between them.  Retrieval reads chunks by document status,
version status and `supersededAt`, which different transactions write; a chat
request runs two such queries side by side, then takes seconds for its answer,
and stores citations of chunks that may have been superseded meanwhile.

**What is hard**: two handlers between check and commit; two slots on one job;
statements of two transactions at READ COMMITTED; a crash between any two
steps; an answer that is lost although the transaction committed; counters that
meet their limits.  `PROJECT.json` has the list, each hazard at its line.

## 2. Modules

| Module | Models | State and actions |
| --- | --- | --- |
| `IngestDb` | the transactions on the ingestion rows | `document`, `version`, `job`, `jobCount`, `chunks`; one `Tx...` operator per transaction; `Fault(kind)` counts faults |
| `IngestQueue` | BullMQ as the code configures it (external) | `queue`; `QueueAdd`, `QueueClaim`, `QueueComplete`, `QueueFailAttempt`, `QueueFailForGood`, `QueuePromote`, `QueueStall` |
| `IngestApi` | `uploadDocument`, `reindexDocument`, `retryIngestJob` | `call[c].pc` names the awaits of handler `c`; one action per await that others can use |
| `IngestWorker` | `process()`, the pipeline, `_handle_failure` | `work[w].pc` names the awaits of slot `w` |
| `Ingestion` | the three together | `Next`, all properties, fairness, the refinement mapping |
| `IngestLifecycle` | what a document's life promises | `phase`, `round`, `tries` |
| `MCIngestion` | instances for TLC | symmetry, the fault set of the serial run |
| `IngestionProofs` | theorems | the inductive invariant `IInv`; `Serial`, what holds when a job has one owner at a time; the refinement of `IngestLifecycle`; for `ChunkStore` the inductive invariant `StoreIInv` and the refinement of `ChunkReplace` |
| `ChunkStore` | `persist_chunks`, statement by statement | rows with their transaction and visibility; blocking on the unique index |
| `ChunkReplace` | the replacement it promises | the current generation |
| `KbMembership` | `create`, `update`, `remove`, `addMember`, `removeMember` | `row` and `log` are what rows and audit rows say of each member, the name and the status; `call[h].pc` names the awaits of handler `h` |
| `Extraction` | parsers and normalizer | operators only: lines of pages to blocks |
| `Chunking` | the chunker | operators only: blocks to sections, units and chunks |
| `Passages` | the pipeline from parsing to embedding, with `embed_texts` and its retries | `pc` is the stage, `vectors` and `asked` what the embedding service gave and was sent |
| `MCPassages` | instances for TLC | the files |
| `ChunkingProofs` | lemmas | what the chunker makes of any blocks: sections, groups, texts, units, chunks |
| `PassagesProofs` | theorems | what the parser makes of any lines; the sections and titles of a chunk; the inductive invariant `IInv` of `Passages` |
| `Relevance` | scoring, order, duplicate suppression | operators only; scores as integers |
| `Citing` | local answers, citations, excerpts | operators only |
| `EvalGrading` | `EvalScoringService`: what an execution earns | operators only; `CardOf` makes the card that `EvalScoring` adds up |
| `Evidence` | a question from the search to the final answer, for `ask` and for `executeCase` | `pc` is the step; `semantic` and `lexical` the rows found, `selected` the grounding set |
| `MCEvidence` | instances for TLC | corpora, questions, cases |
| `EvidenceProofs` | theorems | what folds, orders, windows and rounds compute; the inductive invariant `Searched /\ Replied` of `Evidence` |
| `KbSelection` | `KBProvider`, `KBSelector` | `selected`, `listed`, the requests for the list |
| `DocumentList` | `KnowledgeBaseView` | `docs` is the list that is shown, `requests` those under way, `timers`, the upload |
| `ChatTranscript` | `ChatView`, `ConversationsView` | `conv`, `transcript`, `calls` |
| `WebViews` | the three as pages of one client | `route`; composes the page that is mounted with the selection and the API |
| `MCViews` | instances for TLC | two knowledge bases in order |
| `ViewProofs` | theorems | the inductive invariant `IInv` of `WebViews` |
| `EvalScoring` | points, pass rule, regression flag, rates | operators only; scores in fortieths, with the doubles they are stored as |
| `EvalRuns` | `runEvalSet` | `run`, `item`, `flagged` are rows; `pc[r]` names the awaits of the request of run `r`; `previous` is its copy of the baseline |
| `MCEvalRuns` | instances for TLC | the score card, symmetry |
| `RequestProofs` | theorems | the inductive invariants `KbIInv` of `KbMembership` and `IInv` of `EvalRuns` |
| `ChatCorpus` | the chunks as chat reads them, the candidate queries, selection and citations | `open`, `indexed`, `generation`, `chunks`; what ingestion and membership do to them, as four steps |
| `ChatAsk` | `ChatService.ask` and its persistence | `pc[a]` names the awaits of request `a`; `message` and `activity` are rows |
| `MCChatAsk` | instances for TLC | symmetry |
| `ChatProofs` | theorems | the inductive invariant `IInv` of `ChatAsk` |
| `AuthService` | `issueTokenPair` and the rows `RefreshSession` | `session[n]` is the row of token pair `n`, with the age of its tokens |
| `Sessions` | login, refresh, logout and other requests; `AuthContext` and `apiFetch` in the tabs of one browser | `store` is localStorage, `shown` and `armed` are the state and the timer of each tab, `req` the requests under way |
| `MCSessions` | instances for TLC | symmetry |
| `SessionProofs` | theorems | the inductive invariant `IInv` of `Sessions` |

`ChatCorpus` does not reuse `Ingestion`: chat sees only which chunks are current
and which documents are INDEXED, and every step of ingestion that changes this
is there without the guards that the queue and the statuses put on it, so the
composed system does nothing that is not allowed here.  Any ranking, any
similarity of neighbouring chunks and any verdict on a citation may happen;
limits, duplicates by checksum and the check of the model's ids are exact.
`Evidence` is the other half: one request at a time, with the scores, the order and
the texts as the code computes them, and it instantiates `ChatCorpus` to check
that what it selects and cites is among what `ChatAsk` lets happen.

A text of `Relevance` is a sequence of words; a word knows the term that matching
makes of it and the terms that it begins with or contains, so stop words, prefixes
and phrases behave as in the code without spelling.  Scores are integers, rounded
down where the code keeps six digits; the score of a window of an excerpt, which the
code does not round, is exact over one denominator.  An excerpt may begin at the
place of a quoted phrase, stop words included, as `findBestAnchorIndex` has it.  The content of a chunk and its search
text are one, so are the two lists of stop words, a refusal text has no terms
of the corpus, and an answer reads as a refusal when it has no terms.

A word of `Extraction` knows its place in the file and its number of tokens; what the
regular expressions make of a line (heading and level, list item, question,
answer, margin key) comes with the line.  Tokens add up, without those that
joining texts adds or saves.

A page of the web client that is left keeps its requests under way, and their
answers show nowhere; the document page has its timers, intervals and requests
in one place because React tears them down together.  `EffectRuns` is 2 for the
development build, whose StrictMode runs the effects of a mount twice.
`KbMembership` follows one knowledge base and the numbers of all slugs of its name.

In `Sessions` a fetch is sent, handled at the API and answered in separate steps,
so timers, clicks and other tabs come in between; `refresh` is two steps at the
API, its check and its transaction.  What a tab does between two awaits is one
step, and the head and the body of an answer arrive together.  The variables
`overlap`, `ended`, `left`, `cut` and `writer` are history: no guard reads them, nor
`unsure`, `met`, `cause`, `choice` and `crossed` of the other modules.

A transaction of `IngestDb` is one step because every transaction that changes a
status locks the version row and the document row; two of them on one document
never overlap.  `ChunkStore` is where that is not taken for granted: it splits
the one transaction that takes no such lock first.  Names of definitions
follow the functions they translate.

Definitions named `X_Something` next to a definition `X` are mutants: `X` as a
plausible bug would write it, to see that the properties notice.

## 3. What is checked

| Run | Question | Result |
| --- | --- | --- |
| `ingest_faults` | what survives every fault, two handlers, two slots | `StatusExplained`, `IndexedIsSearchable`, `TerminalReasons`, `FinishedNeverRestarts` hold |
| `ingest_serial` | what holds when requests do not overlap and locks and answers are not lost | `OneLiveJob`, `CountsWhatIsSearched`, and the refinement `FollowsLifecycle`, whose final phases nothing leaves but a new round, hold |
| `ingest_progress` | does every job settle | under fairness `JobsSettle` holds |
| `ingest_exhausted` | "Retry limit exceeded: DEAD_LETTER" | violated: the row stays ACTIVE |
| `chunk_store` | two writers of one version | the refinement `ReplacesAtomically` holds |
| `kb_members` | what do overlapping changes and lost writes do to members, slugs and the audit log | `LogTellsTheState`, `CreationRefusedOnlyByRace`, `LastOwnerLostOnlyToRace` hold |
| `eval_runs` | evaluation runs that overlap, crash and fail | `CompletedIsWhole`, `FlagsMatchBaseline`, `BaselineMissesOnlyOverlaps`, `AnswersAgree` hold |
| `chat_ask` | two requests beside reindexing, archiving, an error or a crash | `CitedWasReadable`, `CitationsStand`, `PassageOnce`, `PromptFollowsConversation`, `RepliesAreStored`, `ActivityLagsOnlyOnRace` hold |
| `sessions` | two tabs, every order of refreshes, logouts, logins and answers | `OneExchangePerToken`, `LogoutEndsLogins`, `StoredTokenIsUnspent`, `OthersChangeTheUser`, `LoggedOutTabStaysOut` hold |
| `passages` | what becomes of the text of a file | `NothingLost`, `ChunksFit`, `CitedWhereItStands`, `EmbeddedOnce` hold |
| `evidence` | is the best evidence used, cited, shown and graded | `GroundingIsBest`, `CitationsAccounted`, `LocalAnswerIsCited`, `SnippetShowsTheMatch`, `GradeIsEarned` hold |
| `views` | does the client show what is selected, whatever the order of the answers | `ChoiceStands`, `ListIsOfSelection`, `TranscriptIsOfConversation` and, under fairness, `PendingIsFollowed` hold |

**Bounds.** One document is enough for safety of ingestion, since no
transaction touches rows of two documents and no action's guard reads another
document; `ingest_progress` has two, so that jobs compete for a slot.  Two jobs
per document are a first run and a reindex or retry; two handlers and two slots
are the smallest overlap, and a third would only repeat the role of the second.
`MaxAttempts` is 2 or 3: a retry, a last attempt, and one in between.
`MaxStalled = 1` is BullMQ's default.  `MaxFaults` bounds the faults of one
behaviour (2 of any kind, 3 in the serial run): any two kinds may meet.
`ChunkStore` has two writers with two runs each and generations of up to three
chunks, so a shorter one may replace a longer one.  `KbMembers.cfg` has two users,
one of them an administrator, two handlers, which is what an overlap needs,
three knowledge bases of one name (the second slug that is tried may be taken as
well) and four requests: two to make a state and two to overlap in it.  `EvalRuns` has three runs, so that a run has two
candidates for its baseline and may itself be one, two cases, a case with full
points or one whose execution raised, three milliseconds (`MaxTime` 2) and two
faults, for the catch block fails only after another error.  `ChatAsk` has two requests, which meet in a
conversation or not, and one document that is indexed, replaced and marked again
at every moment of a search; candidates of both queries fill the grounding set,
one citation and two messages of history are fewer than there can be, so each
limit bites; one fault is an error or the end of the process, or a commit whose
answer is lost.  `Sessions` has two tabs and two users, so that accounts can
mix, two requests under way, which is what an overlap needs, three token pairs
(a login and two exchanges of its token, or three logins), one fault, and one
pair that grows old; a tab has at most one login under way.  Each of its
properties excepts a case that does occur: without the exception the run finds
a violation.  `Passages` checks all files of up
to three lines of twelve shapes, all of up to six lines of the shapes that make
sections, files of two pages whose texts run on or repeat, and of three pages
with margins; the target of 40 tokens and the overlap of 12 are such that one
line fits, two may, and a sentence may not.  Batches of two texts or 60 tokens
meet each limit first, and one retry is a first and a last attempt.  `Evidence`
has four corpora, four questions and three answers of a model, which is few but
made by hand: a document under two names, a neighbour that nearly repeats
another and one that adds a title, documents that answer a part each,
sections that differ by a word, and a match at the end of a long sentence; every
distance and rank of two, near and far from the thresholds; limits of two
citations and three passages, which both bite.  `Views` has two knowledge bases and
three conversations (an answer of one that was left may make it the
conversation of the page while another is under way), two requests under way per
page and one upload, so that any two answers may pass each other.  The clock of `EvalRuns` and `ChatAsk` is that of one
API process and does not run backwards.  The constants `ApiEmbeds`, `WorkerEmbeds` and
`HonoursUnrecoverable` take different values in different runs: embedding
services on or off, and a `bullmq` with and without `UnrecoverableError`.

**Faults.** `add_rejected`, `add_ambiguous`, `api_crash`, `mark_lost`,
`worker_crash`, `lock_lost`, `db_write`, `db_ack`: explained at `AllFaultKinds`.
`ingest_serial` leaves out the three under which a job may have two owners
(`lock_lost`, `add_ambiguous`, `db_ack`); its properties do fail with them,
because a slot that no longer holds the lock, or that retries what had
committed, may write over the outcome another has recorded.
`ingest_progress` leaves out the faults after which nobody holds a job
(`api_crash`, `mark_lost`): the code has no reconciliation of rows and queue, so
such rows stay WAITING until an operator acts.  It also leaves out failed and
lost database answers.  Those are limits of the code, not of the model.

**Fairness.** Weak fairness of the steps of a handler and of a slot that have
started (Node's and asyncio's event loops run what is ready), of claiming
(BullMQ's worker keeps fetching while a slot is free), and of the end of a
backoff and of the stalled check (timers).  Requests and faults have none.
For `PendingIsFollowed`: weak fairness of the interval that polls (a timer), weak
fairness of ingestion, which settles (`JobsSettle`), and strong fairness of a
request for the list being served and its answer shown while the page is
mounted: requests may fail any number of times, but not every one of them.

**Deadlock** is not reported: a system that has settled, with its bounds on jobs,
requests or token pairs used up, stops.

### Disagreements

One has a run: `flow.md:55` says that a job whose retry limit is exceeded becomes
`DEAD_LETTER`.  When the worker dies in the last attempt, every later activation
meets the CHECK constraint outside the failure handling, and the queue gives the
job up while the row says `ACTIVE` (`ingest_exhausted`).

The others are exceptions that a property names, or facts of a definition:

*Ingestion.*  `reindexDocument` and `retryIngestJob` check for a live job outside the
transaction that creates the next (documents.service.ts:160, ops.service.ts:124);
two overlapping requests create two, so `OneLiveJob` is checked with one handler.
`flow.md:154` says that reprocessing "deletes and recreates" the chunks; the code
marks them superseded and inserts new ones, which is what is modelled.

*Text.*  `flow.md:106` guarantees that heading text is preserved as source evidence: a
heading that another heading or the end follows is lost (`BareHeading`).  When
levels are skipped, a heading nests under its sibling (`NoLevelSkipped`).  A chunk
begins with at least one unit of the one before even where the overlap is 0, a
sentence or word over the limit stays whole, and text before the first heading
that is merged with a section is cited under that section's title.

*Knowledge bases.*  `schema.md:98` makes "at least one owner" an invariant of the
application.  Two owners who demote or remove each other at the same time leave the
knowledge base without one (`LastOwnerLostOnlyToRace` says when).

*Evidence.*  `retrieval-scoring.md:129` and `flow.md` give the weights .58 and .22
and `websearch_to_tsquery`, and ask that semantic stay dominant
(`retrieval-scoring.md:235`); the code has .4 and .4 and a `to_tsquery` of prefixes.
A quoted phrase with a stop word does not match its own text.  Excerpts are
extended to whole words and may be longer than `MAX_CITATION_SNIPPET_LENGTH`
(`citations.md:94`), as `SnippetShowsTheMatch` allows.  Of two near-duplicates one is
suppressed even where `citations.md:71` would keep both for their pages, and the
first of the two exceptions in `dedupReason` never decides, since the second has
the weaker condition.  `citations.md:139` says that citations go with deleted chunks;
the schema refuses to delete a chunk that is cited, and the code deletes none.
When the last chunk is superseded between the count and the search, the user
reads that nothing relevant was found where nothing is indexed.

*Evaluations.*  `evals.md:230` flags a drop of `0.20` or more, but in doubles 1 - 0.8 is
below 0.2 while 0.9 - 0.7 is not; `DropsByFifth` has the comparison as the code
makes it.  `evals.md:243` treats one case less as meaningful in a small set; rates and
threshold are rounded apart, so with six cases it stays below the threshold.
`interview-design-rationale.md:38` and `portfolio-summary.md:24` say that evaluations
exercise the path of live traffic; they keep the threshold .1 where chat without
embeddings has .02, have no local substitute, and recognise refusals in English
only, while those of chat are Vietnamese.  A case without failure reasons has
at least 32 of 40 points, so the pass mark of .7 never decides.  And
`getEvalRun` attaches a comparison to runs that are RUNNING or FAILED, whose
summary has no figures to compare.

*Web client.*  In the development build the second answer of the list of knowledge
bases may undo a choice; lists that answer out of order, or the refresh after an
upload to the knowledge base left, show another's documents; an answer that
arrives after a new conversation was started is appended there, and one that
fails there lets the page ask twice at once.  Each is the
exception of one property of `views`.  A file that is chosen within two seconds
after an upload is taken out of the form by its timer.

*Sessions.*  `access-control.md:145` says that logout revokes all refresh sessions of the user.
It does not when a refresh is between its check and its transaction, which then
inserts a session that stays valid (`LogoutEndsLogins` excepts exactly this), nor
when the access token has expired, for then the guard refuses the request while
the browser forgets its tokens all the same.  And a tab that a 401 reaches after
another tab has emptied the store goes on showing its user.

## 4. What is proved

`IngestionProofs` proves, for every number of documents, jobs, attempts, handlers,
slots and faults, and both values of every switch: `TypeOK`,
`StatusExplained`, `IndexedIsSearchable`, `AttemptNumbersUnique` and
`TerminalReasons` are invariants, and `FinishedNeverRestarts` holds of every
step.  The assumptions are `DbAssumption` and `QueueAssumption`: the bounds are
naturals, at least one attempt, and the null values are no members.  The
bounds `MaxJobs` and `MaxFaults` are arbitrary.

None of these invariants is inductive.  That a document marked INDEXED has
chunks depends on what a slot did before it marks success, and a slot may hold
a job that others have changed since.  `IInv` therefore adds:

- `SlotOK`: a slot's job exists; from `running` on its attempt is at least 1 and
  at most what the row has counted; from `persisted` on its document has
  chunks;
- `CallOK`, `NewJobsDistinct`: a handler's new job exists, is not yet in the
  queue, and is nobody else's;
- `EntryOK`: only existing jobs are queued, with attempts below their limit as
  long as the entry is open.

The proof has two layers.  `...Db` lemmas show that a transaction keeps the rows
consistent (`DbOK`) and only adds to them (`DbGrows`: jobs stay, attempts do not
fall, a version that has chunks keeps some).  Everything a slot or a handler
remembers survives whatever the others do because it is monotone in the
database (`SlotKept`, `CallsKept`, `QueueKept`).  One lemma per group of actions
then shows what the acting handler or slot itself writes.  `InitIInv` and
`NextKeepsIInv` give `Inductive`, and each property follows from `IInv`.

`RequestProofs` proves `TypeOK` and the four properties of `eval_runs` for every number of
requests, cases, cards, milliseconds and faults, from `EvalAssumption` (finitely
many cases; the null values are no members).  A request writes its own run
only, so one lemma (`OwnRunOnly`) shows once for all actions after `Start` that
the others keep theirs, and each action owes what it does to its own run.  Three
strengthenings carry the argument.  `SnapshotOK`: the copy of the baseline still
equals its items, because a run that was COMPLETED once has every item and never
gets another, even if the catch block makes it FAILED afterwards.  `BaselineOK`:
every candidate that the query would find now was found, starts no later than
the baseline, or overlaps.  `StartsOrdered`: a run with an earlier `startedAt`
that was not under way when this one read its clock is over, so it cannot
become COMPLETED later; without it `BaselineOK` would be lost when another
request completes.  `StatusMatches` ties the row to the request's place.

`ChatProofs` proves `TypeOK` and the six properties of `chat_ask` for every corpus, every
number of requests, conversations, milliseconds and faults, and every positive
limit (`CorpusAssumption`, `AskAssumption`).  A step of a request changes its own
memory and its own two messages (`Local`), stored messages never change and
chunks are never deleted, so `OthersKept` keeps what every other request holds.
The strengthenings: `Sound` says of a reply already in memory what the
properties say of a stored answer; `Searched` that what is readable now is among
what was readable during a search that is under way, which makes every
candidate a witness; `Rows` which of its messages a request has stored at which
place; `RaceOK` that a conversation without overlap has one open transaction,
whose message is not older than those stored, without which the commit could
set `lastActivityAt` back.

`SessionProofs` proves `TypeOK` and the five properties of `sessions` for every number of users,
tabs, requests, pairs and faults, from `AuthAssumption` and `SessionsAssumption`
(bounds are naturals; the null value is no user and no tab).  The strengthenings:
`ChecksOK` follows a refresh from its check to its transaction, where the code
does not look again: meanwhile its token may be checked by another request,
exchanged, or revoked by a logout, and each of these is remembered.  `AnswersOK`
says that a pair in an answer is in no store and no request, so storing it never
stores a spent token.  `LineageOK` gives every session the user of its login,
which is why revoking by user ends logins.  `TabsOK` says that a tab that was
left with no refresh under way has neither a timer nor a refresh that could
bring its user back.

The first part of `RequestProofs` proves `KbTypeOK` and the three properties of `kb_members` for every number of
users, handlers, names and requests, from `KbAssumption` (finitely many users, none of
them called like the name or the status).  Four strengthenings carry them.
`Creating`: a creation that found its candidate free has since been told of every
slug that was taken, and brings its first owner along.  `Single`: any other
request has one subject, and one that is about to take the role of an owner has
counted more than one; the theorem about owners then needs only that the count
is still what it was.  `Written`: between its two writes a request has made the
first, and it is alone there with its subject, or the subject is marked; so the
second write makes log and row agree.  `Unborn`: before the first slug is taken
nobody has a change under way, so the creation itself meets no one.  Each step is one of
four kinds (it writes nothing, creates, makes the first write, or ends between the two),
with one lemma per kind: `OwnCallOnly`, `InsertKeeps`, `FirstWrite`, `HalfEnds`.

The second part of `IngestionProofs` proves `OneLiveJob`, `CountsWhatIsSearched` and the refinement
`FollowsLifecycle` of `ingest_serial`, for every number of documents, jobs,
attempts, slots and faults, under two hypotheses that each theorem states.
`OneHandler`: handlers do not overlap; with two, `reindexDocument` and
`retryIngestJob` may both create a job (see above).  `OwnershipKept`: none of the
faults `lock_lost`, `db_ack` and `add_ambiguous`, after which a job has two owners
or a caller knows less than what happened.  All other faults may happen: crashes
of worker and API, rejected adds, lost marks and failed transactions.  The code
guarantees neither hypothesis, and the three properties do fail without them; the
theorems say how far they carry.  The strengthening is `Serial`:

- `OwnerOK`: a busy slot holds the lock of its job, which is ACTIVE with the
  slot's attempt, and from `persisted` on its chunks are those of this attempt;
- `RequestOK`: a handler past its check still finds no live job of its document,
  and one that has inserted a job has it to itself;
- `RowsOK`: a live job is the latest of its document, and the latest job explains
  the document's status (`LatestExplains`), from which the phase of the life cycle
  follows.

The refinement is proved step by step, one lemma per transaction: a step maps to
the action of `IngestLifecycle` for the document of its job, and leaves the phases of
all others (`OtherDocument`).

The third part of `IngestionProofs` proves that `ChunkStore` implements `ChunkReplace`, and that retrieval
never finds a mixture, for every number of writers, runs and chunks, from
`GenerationAssumption` and the assumptions of the module.  What is active is nothing
or one whole generation; that a COMMIT keeps this is `Inserts`: from the first
inserted row on, everything active is marked by this transaction and no other has
inserted, which the partial unique index on the first row enforces.  `Visits` says
of the UPDATE, which reads its rows before it waits for their locks, that it has
seen all of the active generation or none of it.  `Fresh` makes the generation of an
open transaction a new one, so that a replacement never brings an old one back.

`ViewProofs` proves the three safety properties of `views` for every number of knowledge
bases, conversations, requests and uploads and both builds, from
`SelectionAssumption`.  `SelectionInv` counts the answers that can still come to the
provider.  For the list, `Followed` and `LateFirst` order the requests under way: one for
another knowledge base is followed by one for the selection, and `Awaited`
says that a list of another is shown only while a request is under way or for
a named cause.  `ChatInv` says that calls not left are about the conversation of the
page.  The proof found a state that two conversations do not reach: after a failed
request that was left, two questions of a new conversation may be under way, and
the transcript gets the answers of both.  The history variable `crossed` therefore
counts every request that ends after it was left, failures included, and the run
has three conversations.

`EvidenceProofs` proves the five properties of `evidence` for every corpus, question,
distance, rank, answer, case and limit, from `EvidenceAssumption` (finite corpora of
non-empty texts with lengths; a chunk has its id and its place to itself) and the
positive limits of `RelevanceAssumption` and `CitingAssumption`.  `LocalIsCited` has a
hypothesis besides, `ShortAndWorded`: three chunks are quoted at most, as in the
code (`MAX_LOCAL_GROUNDED_CHUNKS`), so that one of them covers a third of the answer,
and no excerpt has stop words alone, for such an answer has no terms to be
supported by.  `MCEvidence` has TLC evaluate it (`Quotable`).

The state of `Evidence` takes a few steps; what is hard is what its operators compute.
They are folds over sequences and sets, sorted sets and best windows, and of each the
proof needs first that it has a value.  The induction theorems of the library take an
operator as a parameter, which the provers cannot instantiate, so `Induct` is derived
from `NatLessThanWellFounded` and `WFMin`: a set of naturals that leaves out no least
number leaves out none.  With it `FoldSolved` shows that the recursive function behind
a fold exists, and `FoldRuns` that a fold has a run, one value after every element, on
which an ordinary invariant can be carried:

- `SuppressSteps`, `KeptBest`: of the first n candidates those are kept that repeat
  nothing better, and no more than there is room for; with `KeysOrdered` and
  `SortedCandidates` (the comparison is a strict total order on keys, ids being last)
  this gives `GroundingIsBest`;
- `ConsiderSteps`, `AccountSteps`: after every round of `assemble` the ids considered so
  far are cited or rejected, once, with a reason that stays true when citations are added;
- `LengthSteps`, `WordFound`, `BestWindowOf`, `CutAround`: positions fall into words, the
  best window scores no less than the sentence of any match, and a cut begins no
  later than its anchor and ends behind it;
- `TakenSteps`, `OneCovers`: of the chunks of a local answer one covers its share.

`Searched` says that the rows are of the corpus and the grounding set is what rows and
question make of it; `Replied` that an answer was asked for with enough evidence only,
and has the citations that `Assemble` gives its ids.

The proof corrected the model twice.  With the score of a window rounded like the
others, a window with one term of many scored zero and its excerpt fell back to the
beginning of the text, without the term; the code does not round there.  And the
model looked for the places of terms alone, where the code takes those of phrases too:
a phrase may begin with a stop word, and the excerpt may then show the phrase and end
before a term.  `SnippetShowsTheMatch` allows that, as the code does.

The `TypeOK` of the modules with proofs, `AttemptNumbersUnique` and `NeverMixed` are
proved and no part of a run; they were model-checked before they were proved, and so
were `Searched` and `Replied`.

`PassagesProofs`, which extends `ChunkingProofs`, proves `NothingLost`, `ChunksFit`, `CitedWhereItStands` and
`EmbeddedOnce` for every file, target, overlap, batch limit and number of retries, from `SettingsAssumption` (the target is
at least 20 and the overlap smaller, as the settings are validated),
`PassagesAssumption` and `FilesAssumption` (a line that is not blank has words, and
headings have six levels, which is what the parsers produce).  The pipeline
is a sequence of stages, each a fold over the result of the one before; the recursive
definitions of the folds have runs, as in `EvidenceProofs`, and each stage an
invariant of its run.  The notion they share is `Cuts(c, parts, whole)`: the places
`c` cut `whole` into `parts`, so that nothing is between them and nothing twice.

- `Arranged`, `BlocksOK`: lines become blocks whose words keep the order of the file,
  and what a line says is in one block or is a rule or in a margin;
- `Sectioned`, `GroupsOf`: sections are stretches of blocks without headings, and
  groups cut the sections, several into one only when they fit together;
- `TextsAt`, `PackedTo`, `UnitsOf`: texts cut the blocks of a section, parts cut a text, and
  a part over the target is one that no way of splitting divides;
- `WindowsTo`, `Overlaps`: the chunks of a group are windows over its units that leave no
  unit out, move on, fit, and share less than the overlap; that units of a document
  are distinct, having words at different places, makes what two neighbours have in
  common exactly what their windows share;
- `UnitSpan`, `BlocksApart`: a unit is from blocks that follow each other, questions and
  answers when they are several, and no place is in two blocks, so a block that
  shares a place with a unit is one the unit names;
- `Owners`: every unit of a chunk belongs to a section, the sections go on with the
  units, each has text in the chunk, and the last heading before a text is its section's
  (`Under`); a text without heading comes before all headings of its group, for a
  section without title can only be the first of the document;
- `LevelsCount`, `PathsAt`: without a skipped level the headings over a block stand each
  at its level, so that the path the chunker truncates and extends is theirs.

`IInv` says that the blocks and the chunks are those of the file until the chunks
stand, and from then on, for every text, how often it was sent and whether it has its
vector (`Sent`), according to whether its batch comes before, is or comes after the current one.

The proof corrected the property and found what the code does at its limits: `ChunksFit` counts the
units after the first that two chunks share, since the first is taken whatever its size
(chunker.py:365-385).

Only model-checked, with the reason:

- `JobsSettle`, `PendingIsFollowed`: liveness is out of the prover's reach.

## 5. What is not modelled

- Contents: the spelling of text, vectors, prices, file names, metric rows, the
  wording of prompts and refusals, dehyphenation, Vietnamese normalization of
  queries, the LOW_QUALITY verdict of the normalizer, the parsing of bytes.
- A worker without embeddings in `Passages` (ingestion has that switch); that the
  service returns vectors in the order of the texts is assumed, as the code does.
- Reads that nothing depends on: lists of documents, members, conversations and
  messages at the API, ops views, health, metrics.
- Retrieval filters by document and language: they restrict the corpus, which is
  any of several anyway.  Latency and usage figures of evaluations.
- Routes of the client without state of their own (settings; login is in
  `Sessions`), jumps over several entries of the browser's history, rendering.
- A document has one version because nothing in the API creates a second.
- `register` and `getUserById`: one insert, one read.

In `Ingestion` the stages between activation and persisting are one choice between
new chunks, a retryable and a permanent error; `Passages` is what is behind it.
Components with status `not_modelled` are in `PROJECT.json` with the reason.

## 6. Plan

The model covers the parts of the system that keep state or decide something; every
safety and action property of a passing run is proved for all values of the constants.
What is left to TLC is liveness.
