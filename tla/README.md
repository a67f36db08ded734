# Verification of the interview backend

TLA+ models of the interview backend (`src/src/interview`), the TLC runs that
check small instances of them and the theorems TLAPS proves about them. Paths
below are relative to `src/src/interview` unless they start with `src/`.

## The system

A candidate holds a mock interview by text or by voice. Each part keeps its own
state:

| Component | State | Operations | Hard behaviour |
|---|---|---|---|
| `interviewer/turn_completion/buffer.py` | `VoiceTurnBuffer`: the spoken answer to one question, its revision, state, latest judgement, confirmation and completion reason | 17 methods, each with guards, run under the lock of the registry entry | coupled fields kept consistent by hand (pydantic does not validate assignments) |
| `turn_completion/worker.py` | the snapshot waiting, the one being judged, the last one accepted | `submit`, `_run`, `_apply_latest_result`, `cancel` | latest wins; a judgement may come seconds after what it is about |
| `turn_completion/coordinator.py` | five timer tasks (confirmation delay, ready and response timeouts, stall watch, commit), `_closed`, `_accept_equal_reconnect_snapshot` | five message handlers, the judgement callback, the timers, `prepare_connection`, `aclose` | each handler reads the session in a thread before it takes the lock; tasks are started and cancelled after it is released |
| `turn_completion/registry.py` | one entry per interview: buffer, lock, attached worker | open, replace, attach, detach, remove | two connections at once; HTTP threads beside the event loop; the entry outlives connections and questions |
| `turn_completion/judge.py`, `confirmation.py` | none | one call to a language model, with a timeout and a fallback | any answer, at any time |
| `api/voice/websocket.py` | the connection and its current coordinator | connect, receive loop, callbacks, close | reconnection during anything, also during a submission |
| `interviewer/facade.py`, `session.py` | the graph's checkpoint, the client events processed | `start_session`, `submit_event`, `get_state`, `release`, under one thread lock | idempotent retries; `graph.invoke` failing midway |
| `interviewer/workflow/` | `SessionState`: question, transcript, counters of the question set | one node per step | limits on derived questions, off-topic answers, silence, report |
| `api/sessions/router.py` | the runtime sessions | start, post event, state, report | typed and spoken answers race over one question |
| `api/interviews/` | interview and result rows | start, save result, lists | concurrent transactions that start, save and cancel; a save that fails |
| `api/auth/`, `api/users/` | users, refresh tokens | login, refresh, logout, delete | rotation of tokens |
| `strategy/` | what was asked, the judgements, the prefetched question and its difficulty | `next_*`, the question generation graph, `close` | a question made in a background thread from a copy of the state, for a guessed difficulty |
| `assessment/` | signals and scores per topic | evaluate, complete set, report | arithmetic of scores |
| `api/evidence/` | registered links, the status of the user's indexing (in memory) | register, delete, start an indexing, status | a background task behind each accepted request; the status is checked and set in different steps; restarts |
| `evidence/` | chunks and their vectors in the database; pages visited, directories and commits seen while collecting | clear, fetch from Notion and GitHub, extract, chunk, store, search | old evidence is deleted before new is fetched; pages that refer to each other; limits met in the middle of a batch; calls that fail one by one and sessions that are retried |

How they interact: the WebSocket endpoint opens the registry entry of the
current question, builds a coordinator with a worker and attaches the worker
(closing the one attached before). Messages go to the coordinator's handlers,
which read the session, change the buffer under the entry's lock and hand the
worker a snapshot. The worker asks the judge; a judgement that is still about
the current revision is recorded and the coordinator turns it into an offer
(`complete_candidate`), a confirmation question or nothing. Timers move the
buffer on when nothing is heard. After a grace period the offered answer is
submitted to `InterviewSession`, and the entry is replaced by one for the next
question. The REST events API submits typed answers and other events to the
same session and replaces the same registry entry. Before the interview the user
registers links and has them indexed: a request clears what is stale and leaves a
task behind, which collects pages, files and commits, cuts them into chunks and
stores them; the strategy's search reads the chunks.

What makes each part correct: the buffer's fields agree and the answer cannot
change once it is handed over; the worker judges the latest snapshot and its
judgements count only for what they were made about; every state a turn waits
in has the task that ends it and no task outlives its state; one connection at
a time owns the entry; an answer marked committed is the one the session took;
a silent candidate always reaches the end of the turn. For the session: an
event is applied once, a question set ends, a finished interview has a report.
For the records: an interview is completed exactly if its result is saved, a
session leaves the memory only then, and starting an interview ends the others of
the user. For the strategy: a prefetched question is as good as one made on
demand (as hard as required, about a new topic, still good by what was asked since),
and it comes. For the registry: one worker listens to a candidate at a time, no
question is passed over because of an answer to another one, and a connection is
served the question that is asked. For the evidence: an indexing leaves all it
collected or nothing, forgets what was deleted, reports what is so, and within its
limits overlooks nothing.
`PROJECT.json` lists under `hazards` where each of these is at risk.

## Modules

| Module | What it is |
|---|---|
| `VoiceTurnBufferOps` | the methods of `VoiceTurnBuffer` as operators on a record: `CanOp` is what a method demands, `Op` what it leaves; `Sound`, the consistency of the fields |
| `AnswerSubmission` | abstract: what a spoken answer promises the interview |
| `VoiceTurnBuffer` | one buffer under every sequence of calls; implements `AnswerSubmission`; the worker and the coordinator extend it and share its variable and the mapping |
| `TurnCompletionWorkerOps` | the methods of `LatestWinsTurnCompletionWorker` as operators on a record |
| `TurnCompletionWorker` | one worker and the buffer it watches |
| `VoiceTurnCoordinator` | composition: connections, coordinators with their timers, worker, judge, classifier, submission, registry entry, REST events |
| `InterviewOutline` | abstract: what an interview promises, sets of questions one after the other, each scored, and an end |
| `InterviewSession` | one interview: facade, workflow graph, the attempts and evaluations of `AssessmentAgent`, the questions asked; implements `InterviewOutline` |
| `InterviewRecords` | the interviews of one user: rows, results, sessions in memory, and the calls and transactions that start, finish, save and release them |
| `StrategyAgent` | one interview's strategy: difficulty, the graph that makes a main question, the prefetch and its executor |
| `VoiceTurnRegistry` | composition: the voice turns of an interview one after the other, the registry entry, connections and manual submissions around one session |
| `EvidenceIndex` | one user's links, requests for an indexing, their tasks, the status table and the chunks in the store |
| `NotionSource`, `GitHubSource` | collecting one registered link: pages depth first; directories, commits and files |
| `EvidenceFetch` | composition of the two with `build_index`: the links, the documents, the pool of extraction workers, the chunks; the detail of `EvidenceIndex`'s step `Collect` |
| `VoiceTurnBufferProofs` | what each operator of `VoiceTurnBufferOps` preserves; the theorems about the buffer |
| `TurnCompletionWorkerProofs`, `VoiceTurnCoordinatorProofs`, `VoiceTurnRegistryProofs`, `InterviewSessionProofs`, `InterviewRecordsProofs`, `StrategyAgentProofs`, `EvidenceProofs` | the theorems about the other components and their proofs; the last covers `EvidenceIndex`, `NotionSource`, `GitHubSource` and `EvidenceFetch` |
| `MC*` | constants of the TLC instances |

### How state and actions correspond to the code

**Buffer.** One record field per attribute. `answer_text` is the set of words
heard, blank text is `{}` and joining two transcripts is union: the code only
compares, tests for blank, measures and concatenates. A judgement is its
recommended action and whether the other fields meet the policy's thresholds
(`qualified`, `explicit`). Calls about another question always raise, so the
question id is not a field. A method that raises or returns `False` leaves the
buffer alone and is a disabled action.

**Worker.** The runner task is alive exactly while a snapshot waits or is being
judged: it is created when one is accepted and ends with no await after it finds
none. The rate limit only delays `Take`. An exception of the judge is a
judgement not made; the judge's own failures come back as the fallback
judgement `keep_listening`.

**Coordinator.** All of it runs on one event loop and the body of every
`async with entry.lock` is synchronous, so a step of the model is the code
between two awaits that really suspend: reading the session in a thread,
sleeping, the judge, the classifier, the submission. Sending to the client is
part of the step that sends. A client message takes two steps, `Receive` (the
availability check and the session read begin) and the handler proper, so that
anything may happen in between; a reply to a confirmation takes three, with the
classifier between the last two. A timer's session read is merged with its use,
and the second session read of the response handler with the classifier it
follows. `timers` holds what each of the five tasks of the *serving* coordinator
is armed for; the tasks of a replaced coordinator find their worker closed
when they wake up and return, so they are not represented. `commit` is the
commit task once it has called the session; `aclose` waits for it (`closing`).
Confirmation ids are numbered in the order they are asked. The list of the last
twenty invalid ids is left out: the checks under the lock refuse what it
refuses. The session is seen only through whether it still asks this question;
`SubmitSucceeds` also covers the session refusing the answer, because
`submit_event` does not raise then.

`taken` and `handedBack` are history variables. `taken` is the revision the
session accepted. `handedBack` is true after a failure path that by design
leaves the turn to the client with no timer armed: a confirmation that could not
be sent or was never read out, and a failed submission.

**Session.** A call of `submit_event` holds the session's lock until it returns, so
calls do not interleave; but each node of the graph is a step, because a node
that raises (`Raise`: the judge, a question or a hint that cannot be made, an
evidence search that fails) ends the call with the graph's checkpoint just before
it, while what earlier nodes did stays. The next call resumes there: `Submit` then
leaves `at` alone, the new event is not read and yet its id is remembered when the
call returns. This is how LangGraph treats `Command(resume=...)` when no
`interrupt` is pending and is modelled as external. Every node has its action
of the same name, the five nodes that ask a derived question one together.
`wait_event` is the place between two calls. Questions are numbered in the order
they are made, and `main` is the question their parents lead to. A client may
answer any question asked so far (a WebSocket keeps the question it was opened
for; a REST call reads it before it takes the lock) and may send an event again.
Left out: blank answers and events of other sessions, which the callers refuse; the
branch for a derived question with a wrong parent, which `question_gen` never
makes; the interviewer's turns in the transcript; what is said. `SilencePolicy` has
its defaults (hint first, then the question again); the count of silences stops
at the limit, beyond which it makes no difference. The field `error`, which no node
reads, is left out. `offTopic` is a history variable.

**Records.** A call is a REST request or a voice connection, with a transaction of
its own; a step ends where another call may come in between. Transactions run at
PostgreSQL's default level, READ COMMITTED: the `UPDATE` of a start sees the rows
committed when it begins (`Snapshot`), takes them one by one, waits for those
another transaction has changed and looks at them again (`CancelOld`); `INSERT ...
ON CONFLICT DO NOTHING` waits for an uncommitted insert of the same key (`Insert`).
The new status of a saved interview reaches its row at the commit, because
sessions are made with `autoflush=False` (`api/database.py:17-21`), and does not if the row
was loaded as completed, because SQLAlchemy writes only what changed
(`StatusAfterSave`); what a call has loaded is never refreshed (`seen`). The rows of
an `UPDATE` are taken in one order, the order of a scan; PostgreSQL does not
promise it, and `WaitingEnds` rests on it. `overlapped` is a history variable: the
interviews whose starts were between their `UPDATE` and their commit at one time.

**Strategy.** One step per node of the graph, wherever it runs: in the caller's
thread (`main.at = "making"`) or in the one worker thread of the executor once the
jobs before are done (`future.at = "pending"` and `behind = 0`). A job whose result
was thrown away is not cancelled (`behind`) and ends at some time
(`DiscardedEnds`); what it does in between changes nothing. Topics are numbered by
confidence, those with most evidence first; the topics `weak_topics` names are any
set of them. Texts are members of a set with a similarity: the code compares the
sets of characters of two texts. The polished text is any text, since the style is
put on after the validation; `restyled` (history) says that this changed it.
`last_signal` is any judgement; a call that raised is repeated with the same one,
because the interview's graph resumes at `ask_main`. Only the first question may be
made without one.

**Registry.** Calls of the registry hold its lock and calls of the session hold
the session's, so each is a step; the voice submission runs in a thread and goes on
when its connection is lost, and HTTP requests run in threads of their own. What
runs on the event loop does not suspend between its awaits, which only shows where
the next worker is attached (`LoopFree`): only threads come between
`replace_question` and `attach_worker`. A turn is `held` if its buffer is that of
the entry; the rest of a turn is `VoiceTurnCoordinator`'s. The session is the question
it asks, the events it has processed and what its graph was in the middle of when a
call raised (`halfRun`). An answer is judged, after which the graph repeats the question
or goes on (`Judges`); one to a question that has passed is refused as in
`validate_event`, and a spoken command to repeat the question or to end is obeyed
whatever the question (`RefusesOrObeys`). A call that raises may leave its answer
recorded and its id unknown (`SubmitEventRaises`): the next event, from whatever side,
then runs the graph to its end (`Resumes`) and is not read itself, and the repeated
event is judged as a new one. The turn of a spoken answer whose call raised is opened
again (`SubmitRaises`, `Abort`); a request whose call raised leaves the registry alone
(`SubmitManualRaises`). A manual submission is three steps: the question is read, the
answer submitted, the registry synchronised. The ids of spoken answers are made of
question and revision. `accounted`, `moved` and `advanced` are history: `moved` says that
the interview has gone on since the connection read its question or had the
result of its own answer, so somebody else moved it.

**Evidence index.** A request's checks read the status and the credentials; passing
them, clearing for a request of all links, and setting the status are three steps,
and so are clearing, collecting, storing, building the coverage map and writing the
end of the task behind it. Each call of the database commits or rolls back by
itself. A page stands for its chunks. `last` and `passed` are history variables:
of an indexing that overlapped another nothing is recorded, because nothing is
promised of it (below).

**Evidence fetch.** `todo` is the stack of the recursion of `_fetch_notion_entity`
and of its two queries, the depth with each place. A call that fails is not among the
failures: the code drops it. Only an answer that cannot be taken apart makes a link of
Notion fail, with all that was read for it (`NotionRaises`). The calls of a batch of
directories, of the commits' details and of the files are made together and any of
them may fail, so the answers are any subset. `list_commits` is the external service:
its page `n` of size `s` holds the commits after the first `(n - 1) * s`. A session
that breaks is opened again (rate of calls) or raises; the code retries only errors of
the session, since a call inside it that is refused comes back as an answer with
`isError`. A worker of the pool takes the documents in order and ends at any time,
with chunks, none, or an exception.

## Runs

Each takes about a minute at most. `w1`, `w2` are words, `c1`, `c2` connections.

| Run | Bounds | Shows |
|---|---|---|
| `buffer` | 2 words, revisions 0..3, 2 confirmations | Under every sequence of calls the fields agree (`StateConsistency`); a judgement never outlives its revision and backs what is done because of it (`JudgementBacksState`) |
| `worker` | 2 words, revisions 0..3, minimum length 2 | `LatestWins`, `DecisionAboutThisAnswer`, `AcceptedIsJudged` (no accepted snapshot is lost in coalescing) |
| `turn` | 1 word, 2 connections one after the other, 2 confirmations, revisions 0..3, REST events | `NoOrphanState`, `NoStrayTask`, `SilentTurnEnds` |
| `turn_overlap` | as above with both connections at once, 1 confirmation, revisions 0..2 | `SubmitterServes`, `SubmissionSpec` (that the buffer stays sound under both is proved: `BufferSoundHolds`) |
| `records` | 2 calls at a time, 3 interviews | `CompletedHasResult`, `ReleasedIsSaved`, `StartEndsTheOthers`, `WaitingEnds` (no call waits for ever) |
| `strategy` | 3 topics (one weak, one weak in earlier interviews), 2 texts, 3 judgements, 3 main questions, 4 questions in all | `NoTopicTriedTwice`, `DifficultyIsRequired`, `FreshTopicsFirst`, `GoodWhenAsked`, `QuestionComes` |
| `session` | chat and voice, 2 sets, 1 derived question each, limit of 3 silences, timeout ends, 1 event id, 3 answers; a client whose call failed repeats it first | `SetLimits`, `EveryAnswerJudgedOnce`, `SetsDoNotMix`, `MainAnsweredByText`, `AnswerRecordedOnce`, `OutlineSpec`, `EndIsHonoured` |
| `registry` | 2 questions, 2 connections, 1 request at a time, 1 id of manual submissions, 1 revision | `OneListener`, `NoQuestionSkipped`, `ServedIsCurrent`, `CommitEnds` |
| `index` | 1 Notion link of a page, 1 GitHub link of two, 2 requests at a time, 3 in all | `AllOrNothing`, `DeletedIsForgotten`, `ResultIsTrue`, `RefusalEnds` |
| `fetch` | 7 pages, a data source and a view, depth 2, 5 pages; 7 directories, depth 2, 5 of them, 2 at once; 5 commits of 2 names, pages of 3; 2 attempts; 2 workers | `NotionComplete`, `TreeComplete`, `CommitsComplete`, `ChunksInOrder`, `CollectingAdvances` (each step leaves less to do), `FetchEnds` |

Why the bounds are enough: two sets show a question, an answer or a counter
carried from one into the next and the end after the last one. Three answers are
the main question, a derived one and one more (off topic, repeated or in the
next set). Three silences are hint, repetition and timeout; `end` is the timeout
policy no caller changes. For the voice turn, revisions only matter as older,
equal or newer than the current one, and the longest stale chain in the code is
a judgement about one revision arriving after a newer one was offered and
replaced again, which three revisions show. Two words give the four relations of two texts that
`_is_meaningful_update` tells apart. Two confirmations reach the limit through
every path and leave one in the past. Two connections give the
replaced and the replacing one; a third would only replace again. Two calls
are the two sides of each race over a row (three were explored with two interviews,
with the same outcome); three interviews let a start meet two rows in progress. The
strategy meets a raise and a fall of difficulty, a topic that comes back and a
prefetch behind another one within three main questions; a fourth topic
would only reach the cut to the three best. The rule that forces a hard question
after four is not reached in this run: it is an operator of the state like the
others, and `DifficultyIsRequiredHolds` covers it.

The registry's races are between what began under one question and what is done
under the next, which two questions and the end show; the request and the id come
again as often as they like, so an answer repeated after any change is met with one of
each; one revision is met again when a submission failed, and a graph left half-run is
resumed by each kind of event. A connection that is
closed comes again, too. A second source gives an indexing something to leave alone,
a link of two pages something to leave half stored, and the third request meets what
two that overlapped have left. In `fetch` a page is
first reached too deep and then less deep, pages name each other in a circle, the
limit of pages is reached and not, the tree has more directories than are asked for
and one below the depth limit, a batch would cross the limit, a full page of commits
brings nothing new and the size of a page shrinks. Code, README and patches of a
repository are found in all combinations, but two repositories are not: nothing of
the first is left when the second begins.

### Fairness

`session` assumes that a node that runs returns or raises (models and stores
are called with timeouts) and that a client repeats a call that failed before
it sends another event; nothing makes it call at all. Without that, an end
request could be swallowed by the resumption of a failed call (below).

`strategy` assumes that calls of the language model and of the search return or
raise and that the caller's thread and the worker thread go on; nothing is
assumed of when questions are asked for. `QuestionComes` holds for the caller who
waits behind discarded jobs, too, because these end.

`registry` assumes that what has begun goes on: the threads of submissions and
requests, and the tasks of the event loop; sending ends or fails. Clients need not
do anything. `index` assumes that the threads of requests and tasks go on, since
every call of a service or of the database returns or raises; that the process
restarts is allowed and not required. `fetch` assumes that calls end, for which
those of the services have a timeout.

`worker` and `turn` assume weak fairness of the event loop's tasks
(handlers, timers, worker), of the judge and the classifier, whose calls have a
timeout (`judge.py:71-150`, `confirmation.py:99-147`), and of the submission,
which returns or raises. Nothing is assumed of the client or of the REST API.
`SilentTurnEnds` is conditioned on the client falling silent, since a client
that keeps repeating that it is silent re-arms the stall watch every time; it
exempts the states in which the code leaves the turn to the client: after a
failure (`handedBack`), after a reconnection until the client has sent its
snapshot again, while the candidate is speaking the answer to a confirmation
(this state has no timeout, so a lost "stopped speaking" event holds it), and
with a blank or interim transcript.

### What the code does differently from what it says

Two runs expect a violation; `PROJECT.json` quotes the lines.

| Run | What TLC shows |
|---|---|
| `answer_lost` | A REST event between `begin_commit` and the submission: the session refuses the answer, the buffer is marked committed and the client told so |
| `late_manual` | A manual submission reads question 1, another event moves the interview on, a connection opens the turn of question 2; the submission is refused and the turn of question 2 is discarded, though the comment says that only a submission that moved the interview on does this |

Met while modelling, described by the models and without a run of their own:

- The connection is lost during a submission after which the question is asked
  again (an answer off topic): only the connection that owns the worker replaces the
  entry (`websocket.py:404`), so the next one is served the committed entry and every
  transcript is refused, though `websocket.py:499` tells the client to come again.
- A silence hint takes the question's place (`nodes.py:666`), so the answer after it
  answers the hint: the set has no attempt at its main question, which
  `assessment/agent.py:294` calls impossible, and is scored and reported with the text
  of the hint. `MainAnsweredByText` says when it cannot happen.
- An event is remembered only when its call returns (`facade.py:192-199`): if the judge
  or the next question fails, the answer is in the transcript already, the next event
  completes it unread, and the repeated event is recorded again for the question that
  came since, though `api/sessions/schema.py:259-260` promises the first result.
  `AnswerRecordedOnce` is checked for a client that repeats a failed call first.
- A prefetch of the right difficulty may stand in the executor's line behind one that
  was thrown away (`strategy/agent.py:77,172-173`), so waiting for it can be slower
  than making the question anew, which `strategy/agent.py:175-176` denies.
- A late or repeated manual submission that shows another question than the one it
  read replaces the registry entry by one for the question its result names, also by
  an older one (a repetition returns the first result); the next connection opens the
  right turn, but what was said is lost.
- While a committed answer is reported to the client (`websocket.py:406`), another
  connection may open and attach to the entry; the entry is then replaced without
  another look at its owner (`websocket.py:425`), and the newcomer keeps a worker
  that is closed.
- A typed answer is given to the question the server reads when the request arrives
  (`sessions/router.py:191-195`), not to the one the user saw.
- Two requests can both find no indexing running (`api/evidence/router.py:309-343`),
  in spite of the 409: the check and the new status are not one step. Their deletions
  and insertions then interleave, which is why `EvidenceIndex` speaks of indexings
  that no other overlaps.
- Deleting a link leaves its chunks until the next indexing, as its docstring says
  (`api/evidence/router.py:271`), but a request that finds no link any more is refused
  (302-307), so the chunks of the last deleted links stay; and a request for some
  links of a source drops the chunks of all its links (`store.py:158-177`), those not
  indexed again included.
- A failed coverage map reports an indexing as failed whose chunks are stored
  (`indexing.py:111-112`).
- Two links of which one reaches the other give its page twice; two equal keys in one
  batch are a statement PostgreSQL refuses (`store.py:91-92`): the indexing
  fails after the old evidence is deleted.
- A page first reached at the depth limit is marked as visited and not opened again
  when it is reached less deep (`sources.py:927-934`); `NotionComplete` therefore
  speaks of the depth at which a page was opened.
- `sources.py:6` says that collecting never runs once an interview has begun;
  nothing prevents an indexing during one.
- The end of a replaced connection cancels the confirmation its successor is
  having: `aclose` (`coordinator.py:1080`) does not check who owns the entry.
  `NoOrphanState` and `NoStrayTask` therefore hold only without overlap.
- An interim transcript too short for a judgement is not watched by the stall
  timer, though `coordinator.py:679-680` says it is.
- An answer to a question that has passed is refused with an error that
  `handle_replay` clears (`nodes.py:581`) before the call returns, though
  `nodes.py:75-76` says it is kept for the user.
- Two interviews of a user may be in progress at once if their starts overlap
  (`StartEndsTheOthers` says exactly when).
- A finished interview whose save failed is kept for a repetition, but if a new
  interview is started first the events API answers 409 (`sessions/router.py:165`)
  and the result is lost; the memory of a cancelled interview is never released.
- Two sufficient answers in a row raise the difficulty (`difficulty.py:47`) one
  question late: the last judgement is appended after the decision
  (`strategy/agent.py:105,121`). The guess for a prefetch, which
  `strategy/agent.py:131-133` calls exact for the rules on the state, is
  overtaken by follow-ups asked since.
- A question is restyled after its validation (`strategy/graph.py:351-357`), and a
  second draft that fails is used.

## Proofs

`tlapm` checks every theorem for every value of the constants.

*Buffer.* `Invariance`: `BufferSpec => []BufferInv` with `BufferInv` the conjunction
`Sound(buffer)` and the bound on revisions. None of the run's invariants is inductive
alone: consistency of a confirmation needs the judgement behind it, an offer is
nonblank because `mark_complete_candidate` and `mark_cutoff_complete` test it and
`listening` states do not, and that nobody is heard in a confirmation is needed
to cut it off. `Sound` is their conjunction and is preserved by each operator on
its own; the module proves that operator by operator, and the proofs about the
coordinator cite the same lemmas. `StateConsistencyHolds`,
`JudgementBacksStateHolds` and `NeverSubmitBlankHolds` follow.
`Refinement` proves that the initial state and every step map to
`AnswerSubmission`.

*Coordinator.* `BufferSoundHolds`: `Spec => []Sound(buffer)` for any set of
connections, overlapping or not. Handlers, judgements and timers compose several
methods in a step (a stall clears a stuck speech flag, records a judgement
and applies the policy), so the lemmas `ApplyPolicySound`, `PreparedSound`,
`TranscriptSound` and `StallSound` cover the compositions and `NextSound` has a
step per action. `SubmitterServesHolds` and `TurnRefinement` (the voice turn implements
`AnswerSubmission`) rest on one case split: a step is `CommitFires`, the end of a
submission, or one that leaves an answer being submitted alone (`Collects`).
Preservation by the third kind follows from `Sound`, because no guard of an operator
holds in `committing` or `committed`, and from the attachment check of `Open`.
`TypeCorrect` needs two facts besides the types: confirmation ids are counted as they
are asked (`Placed`), and the connection that closes with an answer under way is the one
that submits it (`Linked`).

*Tasks.* `NoOrphanStateHolds` and `NoStrayTaskHolds` say of a connection that serves
that a state which must end has a task to end it and that no task outlives its state.
They follow from the exact `TasksFit`: while somebody is attached, the armed tasks are
those `Armed` gives for the buffer and for what the owner's handler is doing, and no
others (only the stall watch of a listening turn may or may not be armed). That is
inductive together with `Ready`, that a confirmation prepared can still be started (its
text is not blank and a number is left), since otherwise the end of the pause before it
would change nothing, and `Solo`, that one connection is live. The theorems have the
hypothesis `~Overlap`, under which a connection opens only once the one before has
ended. It cannot be dropped: the end of a replaced connection cancels the confirmation
its successor is having (see above), and the successor's response timeout stays armed.

*Worker.* `WorkerInvariance` strengthens the run's invariants by three facts: every
snapshot in flight or judged is an earlier answer or this very one (`AllKnown`);
what was judged is no newer than what was accepted last and older than what still
waits (`Forward`); the judge was asked about what it is judging (`Asked`).
`LatestWinsHolds`, `JudgesForwardHolds` and `DecisionAboutThisAnswerHolds` follow.

*Registry.* `OneListenerHolds` and `ServedIsCurrentHolds` share `ServedInv`: a
connection whose worker listens is the one the entry names and its turn is the
entry's (`Listens`), which is why attaching must close the one before; and one that
was not overtaken by somebody else knows the session's question (`KnowsCurrent`), so
what it is served after its answer is what is asked. `NoQuestionSkippedHolds` needs of a
graph that was left half-run over an answer that this answer was given to the question
still asked (`AccountedInv`): whichever event resumes it, and repeats or drops the
question, the question left is one that was answered. Since an answer may be recorded in
one step and move the interview on in another, after any number of others, the guard of
the recording step alone would not give it. That ids of typed answers are none of the
spoken ones is an assumption.

*Session.* `TypeCorrect`; `InterviewRefinement`, that every interview implements
`InterviewOutline`; `SetsDoNotMixHolds`; `SetLimitsHold`. The inductive invariant
grows in layers, each preserved with the help of the ones before.
`OutlineInv` (with `TypeInv`, that an event is pending where a node reads it) says
which nodes run with an open set and which with a scored one, that
`complete_set` has an attempt to score, and that a derived question is only asked
below its limit: without it a step such as `CompleteSet` would map to no step of
the outline. `SetsInv` says that the question on the table and every attempt
belong to the set the session is in, and that this set is none of the scored
ones. `LimitsInv` counts the questions asked in each set, which no field of the
session does: never more than `derived + 1` in the open set, and no challenge
before `challengeUsed`; cardinalities are finite because the questions asked are
a sequence (`OneMoreAsked`).
`JudgedInv`, for `AnswersJudgedOnce`, says that an answer on its way to being recorded
and judged is one to the current question (`Standing`) and that an attempt is known by
the place it has in its set, so that the same answer is not judged in two places.
`TextInv`, for `MainAnsweredHolds`, says of an interview by text that silence is never
reported and that the open set's main question is answered before any other.
`RecordedInv`, for `AnswerRecordedOnceHolds`, says that the event a node is about to
read has not been recorded. That theorem has the hypothesis `RetryFirst`, that a client
whose call failed repeats it before it sends another, without which the code records an
answer twice (see above). The other theorems hold for both timeout policies and
whether or not a retry of the failed call comes first.

*Records.* `CompletedHasResultHolds`, `ReleasedIsSavedHolds` and
`StartEndsTheOthersHolds` share one invariant. `CallSound` says what each call may
rely on: what it has locked is still in progress, so an `UPDATE` that commits
never overwrites a completed row; a call that saves claims the result or knows that
it exists; a status it has seen as completed still is. `EndsTheRest` says of a start
between its `UPDATE` and its commit that every row in progress is one it has still
to take, has taken, or belongs to a start it overlaps. `Apart` says of two calls that
they lock no row in common and start different interviews. Each action is
shown to keep the facts of its own call, those of the others and the pairs.
`WaitingEndsHolds`, that no calls wait for each other in a circle, adds `InOrder`: what
a start has locked lies before all it has still to look at. In a circle, the row
wanted that comes last would be locked by a call that wants a later one (`NoCircle`).

*Strategy.* `DifficultyIsRequiredHolds`, `FreshTopicsFirstHolds`, `GoodWhenAskedHolds`
and `NoTopicTriedTwiceHolds`. The invariant says that what the question under way is
made from still agrees with the state as far as topics go (`MadeFromNow`: follow-ups
repeat the topic asked last, so a copy is never stale in this), that the topic in
hand is one that could be chosen (`GenerationSound`, with the counters that end the
loops), that what is made for a caller has the difficulty he needs
(`DifficultySound`), and that a topic was asked before anything waits (`Begun`).
`GoodWhenAskedHolds` joins the two ways a question comes: one made on demand passed by
the texts it was made from, which are the state's as long as the caller waits for it
(`CheckedSound`, `EndSound`); one made ahead passed by older ones and is compared with
all when it is taken. A draft that failed twice, or was restyled after it passed, is
exempt, since the code asks it as it is (see above).

*Evidence.* `AllOrNothingHolds`, `DeletedIsForgottenHolds` and `ResultIsTrueHolds` speak
of the last indexing that none overlapped, in any number of threads. The run's
invariants only look at the end; `IndexInv` follows such an indexing through all of
its steps: `OnTheWay` says at each of them what is stored of its sources and what of
the others, and that no other request is past its checks; `Left` says what remains
true once it has ended.
`NotionCompleteHolds`: below its limits the collection of a link of Notion overlooks
no page, for every graph of pages, also with circles; it fetches no more pages than
allowed and takes no document twice. The invariant `NothingForgotten` says that each
place named by a page that was opened has been asked for or still waits, unless the
limit of pages is reached or the page was too deep; only finitely many pages were
visited, so that the limit can be counted.

*Repositories and documents.* `TreeCompleteHolds`, `CommitsCompleteHolds` and
`ChunksInOrderHolds` are about what loops over lists compute, for lists of any length.
The model writes those loops as functions defined by recursion; that such a function
exists (`Recursion`) and what it computes is proved by induction on the naturals. The
library's induction theorems take an operator and cannot be used; `Induction` speaks of
a set instead and follows from the order of the naturals being well-founded.
`TreeCompleteHolds` rests on `BatchFits` (a batch is no larger than the room left, since
it is filled one directory at a time) and `RequeuedSet` (what the batch named, and was
not known, is queued), so that `NamedAreKnown` is inductive: what was named was asked
for, waits, or lies too deep.
`CommitsCompleteHolds` is the one a reviewer would doubt: the size of a page shrinks
while its number goes on. `Paged` says that of the current name at least
`(page - 1) * PerPage` commits are known already, in pages as large as the next one;
since pages only shrink, the next page begins no later than at the first commit that is
not known (`PageMerges`), and what it repeats is dropped. A shorter page than asked for
is the last, and then all of this name's commits are known (`NextName`).
`ChunksInOrderHolds` needs from the pool only that each document has its number of
chunks; the order is that of putting them together (`ChunksOfAll`).

*Collecting comes to an end.* Liveness itself is out of reach, but what it rests on is
proved. `WorkLeft` is six numbers: the links left, whether one is under way, and what is
left of that one. In a link of Notion these are the pages that may still be fetched, the
lists waiting and the places waiting; in a repository the sessions that may still be
opened, the stage, and the directories, names and pages of commits left in it; at the
end the documents not done with and not taken. `CollectingAdvancesHolds` says that each
step, whatever it answers and whether or not it fails, makes them less at the first
place where they differ. A page is fetched once, so circles of pages shorten what is
left; a list names pages only; a batch that asks for nothing has emptied the queue
(`BatchGoesOn`); a page of commits that is not the last ends before the end
(`PageEnds`); a session that breaks is one less to open. `NoEndlessWork` says that this
cannot go on for ever. That a step is possible until all is done, TLC checks
(`FetchEnds`).

*What links lead to.* `NothingUnlinkedCollected` joins the two models: `EvidenceIndex`'s
step `Collect` takes any pages reached from the links, and the detailed collecting gives
no others. Reachability is stated without recursion: every set that holds the pages
asked for and all that is named in it holds what was collected.

Assumptions: for the session, the limits are naturals (at least one question and
one silence), the modes are among `chat` and `voice`, and `NoEventId` (no client
event id) is no id. For the records, the number of interviews is a natural. For the
strategy, there is a topic and a text, weak topics are topics, and `"none"` is no
judgement. For the voice turn, `MaxConfirmations` is a positive natural, the bound on revisions a
natural, `NoConfirmation` and `NoConn` (Python's `None`) are no id and no
connection, judgements are judgements, confirmation ids are `1..MaxConfirmations`
(in the coordinator). For the registry, `NoConn` is no connection, the number of
questions is a natural, and no id of a typed answer is one the commit makes of a
question and a revision. For the index, a link is of one source and no page is reached
from links of both, and the bound is a natural. For collecting, what a page names is a
sequence of places, queries list pages, no page is also a list or a view (one that is
counts as two places), the answers about a repository are sequences without
repetitions, the source files have an order of importance, and the limits are naturals;
those of directories, commits, calls at once and attempts are at least one, as they are
configured (`config.py:88-98`) and as the code takes them (`max(1, ...)`). TLC evaluates them in the runs of their modules.

Only model-checked: liveness, which is out of the prover's reach (`AcceptedIsJudged`,
`SilentTurnEnds`, `EndIsHonoured`, `QuestionComes`, `RefusalEnds`,
`FetchEnds`, `CommitEnds`). Every invariant and every action property the passing runs
check is also a theorem.

## Not modelled, and the plan

Not modelled: text, prompts, logging, authentication of the socket, validation of
message shapes, text to speech, the rules by which a text is found of value, cut and
ranked, everything else whose only state is a row or a remote service. In order of
importance, what is to come:

1. `AssessmentScoring`: scores and the report as operators against a reference
   definition.
2. Refresh tokens and credentials; the rules of extraction.
