# A TLA+ verification project for edgemodelr

edgemodelr is an R package that runs language models locally. Its own code is
`src/src/bindings.cpp` (the C++ side) and `src/R/*.R` (the user's functions); under
them lies a vendored llama.cpp with ggml (`src/src/llama`, `src/src/ggml`). Paths
below are relative to the repository's root directory `src/`, so `R/api.R` is
listed in PROJECT.json as `src/R/api.R`; `ggml-cpu.c` is `src/ggml/ggml-cpu/ggml-cpu.c`
and the files named `llama-*.cpp` are in `src/llama`.

What makes this code hard:

* **re-entrance**: R is single threaded, but a streaming completion hands control
  back to R in the middle of its C++ loop, and that R code may use, or free, the
  same model;
* **threads**: ggml computes every graph on a pool of threads that it makes, wakes,
  synchronises with spinning barriers and throws away for each call;
* **state that outlives a call**: the KV cache of a context and the graph it reuses,
  the registry of backends, partial files in the model cache, trusted hashes,
  the history of a chat, the links an earlier scan made;
* **other processes**: the model cache is a directory every R session shares,
  with neither locks nor temporary names;
* **partial failure**: a decode that fails in mid-text or between two of its pieces,
  an assertion of ggml that becomes a C++ exception, a download that breaks off, one
  text of a batch that gives no object.

## 1. Inventory

| component | code | state | operations | correct when |
|---|---|---|---|---|
| model handles, text generation | bindings.cpp 155-738, api.R 37-232, 1291-1340, 2448-2468 | context pointers, KV cache, sampler chains, loop position, response | load, free, complete, stream, grammar completion, embed | a call sees only its own tokens; text, callbacks and context agree; a deadline is kept to within one token; every call returns |
| loading, backends | bindings.cpp 106-143, 197-298, 436-461 | `ggml_initialized`, CUDA path, backend registry, heap objects, handles | initialise, name a CUDA library, load, free, drop, collect | every live object is owned by a handle, nothing is freed twice; a library named in time is given to every model |
| thread pool | ggml-cpu.c 560-620, 1330-1470, 2960-3310 | mutex, condition, graph, barrier and chunk counters, work buffer | make, publish, wake, compute, synchronise, stop, join | nodes in order, each chunk once, the buffer whole, no missed wakeup, calls end |
| context and KV cache | llama-context.cpp, llama-kv-cache.cpp, llama-kv-cells.h, llama-batch.cpp | cells, search head, keys and values, graph, logits | clear, decode: split, place on trial, undo, apply, compute, remove | the cells stand for one sequence of tokens, each computed from exactly its past, whatever failed before |
| embeddings, index, search | bindings.cpp 741-877, api.R 2813-3448 | three parallel lists and a matrix | split, index, search, ask | rows, chunks and sources stay aligned; splitting loses nothing and ends |
| chat | api.R 1366-1527, bindings.cpp 880-931 | conversation history | turn, trim, quit | history bounded, gapless, begins with a question |
| download | api.R 261-787, 1058-1144 | files in the cache, known_hashes.csv | check, fetch with 4 methods, resume, validate, verify checksum | no file is a mixture; what is returned is whole and verified |
| cache cleaning | api.R 1552-1661, zzz.R | files, sizes, times | list, size, evict, report | oldest first, under the limit when it says so |
| model discovery | api.R 1834-2089, ollama.R | links to found models, test models | scan, test, link or copy | nothing that was there is overwritten, what is reported leads to its source, what failed its test is left out |
| structured output | api.R 2502-2764, 2949-3092, bindings.cpp 643-738 | generated text, rows | extract, classify, batch, map | a filled row is the whole object; an answer is a category or one cut off |
| HTTP server | api.R 3493-3670 | listening socket, model handle | filter, route, complete | one answer a request |
| CUDA installation | api.R 2096-2397 | shared libraries on disk | install, activate, reload | success means it takes effect |
| device configuration, benchmark | api.R 1181-1256, 1706-1743 | none | pure functions | smaller devices get smaller settings |

Interactions: the R functions validate and call the C++ functions through Rcpp;
the C++ loops call `llama_decode` (the context), which computes graphs on the pool;
they call back into R through the stream's callback and `checkUserInterrupt`;
assertions of ggml come back through `r_abort_callback` as C++ exceptions when they
fail on R's thread; index, chat, classification, discovery's test and the server are
loops over completions or embeddings; download, cleaning, discovery and attach share
directories with every other R session.

The hazards of this code, each at its line, are in PROJECT.json under "hazards",
with the properties that watch it or the reason why none does.

## 2. Modules

| module | models | kind |
|---|---|---|
| Completion | handles, caches as bindings.cpp sees them, the three generation loops, embeddings on a handle, R wrappers and callbacks | detailed state machine |
| CompletionService | what completions promise, with no loop and no cache | abstract specification |
| CompletionRefines | Completion implements CompletionService | refinement mapping |
| KvCache | `llama_decode` and `llama_memory_clear` on the unified cache | detailed state machine, with its mapping |
| ContextService | what a caller of `llama_decode` is promised | abstract specification |
| Threadpool | one call of `ggml_graph_compute` on a disposable pool | detailed state machine of threads, with its mapping |
| GraphService | what a graph computation promises, without threads to wake | abstract specification |
| ModelLoading | backends, heap objects and the handles that own them | actions |
| FindModels | `edge_find_gguf_models`, over ModelLoading | state machine that composes the two |
| ChunkText | `.chunk_text`, one action per pass of its loop | state machine of an algorithm |
| DocumentIndex | `edge_index_documents` with `edge_embeddings_internal` | state machine |
| Extraction | `edge_extract_batch`, `edge_extract`, `edge_classify` over a grammar | state machine |
| ModelDownload | `edge_download_model`, `edge_download_url`, the four tools, checksums, `known_hashes.csv` | state machine of concurrent sessions |
| ChatHistory | the history of `edge_chat_stream` and its trimming | state machine |
| CacheClean | `edge_clean_cache` and the check at attach | state machine of concurrent sessions |
| Completion_proofs, KvCache_proofs, Threadpool_proofs, ModelDownload_proofs, CacheClean_proofs | theorems about the module named | TLAPS |
| FindModels_proofs | theorems about ModelLoading and FindModels | TLAPS |
| DocumentIndex_proofs | theorems about ChunkText and DocumentIndex | TLAPS |
| Answers_proofs | theorems about Extraction and ChatHistory | TLAPS |
| `MC*` | instances for TLC | model checking |

The three layers of a completion are Completion, KvCache and Threadpool, each with an
abstract specification it is proved to implement. What Completion assumes of
`llama_decode` (`Outcomes`, `Decode`: a batch over `n_batch` hits an assertion, one over
the free cells is refused and changes nothing, another code leaves less than the whole
batch in the cache, an exception any part of it) allows everything ContextService
promises. ContextService has one state more, "not sound until cleared" after an
exception; bindings.cpp never decodes in it, because an exception ends the call and
every call that decodes begins with `clear_kv_cache`. What KvCache assumes of a
computation (that it succeeds as a whole, fails, or throws, with any of the slot's
cells half written) is what GraphService promises. The layers are connected by these
contracts, not by one run.

### Completion

Calls nest instead of running side by side, so the state is a sequence of call
frames, oldest first; only the innermost running frame may step. A frame holds
the locals of the C++ function: prompt length, `n_predict` after clamping, tokens
fed, loop position, tokens in the response, what the user's callback was told.
A token is `<<call, k>>`: the cache of a handle is the sequence of tokens llama.cpp
was fed since it was cleared, so a token of one call in the context of another
shows. Text, probabilities and grammars are abstracted to the choice of what a
sampled token turns out to be: end of generation, a piece of text, an empty
piece, a token that has no text, an abort.

Each part of the loop at which something else may happen is an action:
`Begin` (validation, clamping, `clear_kv_cache`), `FeedPrompt` (one batch of
`decode_prompt`), `RejectGrammar`, `Interrupt`, `TimeOut` and `GoOn` (the clock is read
at the head of an iteration), the `Sample*` actions, `CheckClock` and `CallUser`
(`safe_callback` reads the clock, and then calls the user's function), `Callback*`
(what that answers), `DecodeToken`, `ExhaustBudget`, `FinalReturns`, and `Crash` (the
context was freed under the loop: a NULL dereference). `Load`, `Free` and `Embed` are
R's own actions; they happen whenever R code runs (`RTurn`), that is at the prompt or
inside a callback. `Embed` cuts a text to the context, and what it decoded of its last
text stays in the cache. `DeadlinePasses` is the clock; it may pass in any phase,
also between the look at it and the token or the call that was let through, and the
history variable `due` remembers what had been given by then. The sampler chain is not
part of the state: a guard object of C++ owns it, which every way out of a call
destroys, and a long jump past it, which R's options could cause, is not modelled.

`PoliteCallbacks` is an assumption about the *user's* code: a callback leaves alone
the models whose calls are still generating. It is not something the package
enforces. The properties that need it are checked and proved with it, the others
without it.

### KvCache

The state is that of `llama_kv_cells` for one sequence (a position or nothing per
cell), the search head, and the last graph. The keys and values of a cell are
abstracted to the set of `<<position, token>>` pairs they were computed from: that is
what a wrong mask row, a wrong slot or a stale graph would change, and nothing else
is needed to tell. `Decode` starts a call with the positions after the last one;
`Place` is one round of `prepare` (find_slot, remember what is replaced, apply on
trial), `NoPlace` its failure, `Restore` one step of the undoing in reverse order,
`Refuse` and `Reserve` what follows. `Compute` is `process_ubatch`: apply for good,
reuse the graph if its shape is the same, set the inputs, compute; its failures
are `AllocFails` and `ComputeFails` (a status: the positions of this ubatch leave
again) and `BuildThrows`, `InputsThrow` and `ComputeThrows` (an exception: nothing is
removed). `Row` is the mask as `set_input_kq_mask` fills it: the first row cell by
cell, the others copied from it and amended only near the ubatch's positions.
`get_n_kv` with its padding, the wrap-around of the slot search and the reset of
the head are as in the code. `context`, `sound` and `before` are history variables.

### Threadpool

The package builds ggml without OpenMP and attaches no pool, so each call creates its
workers, publishes the graph under the mutex, wakes them, takes part as thread 0 and
in the end stops and joins them. One action is one access to shared memory, or
several that only threads in the next segment can tell apart; the relaxed accesses are
ordered by the sequentially consistent read-modify-writes of the barrier, so that
interleaving is the right semantics. A worker looks (`Top`), polls (`Poll`), locks
(`Lock`), looks again (`Check`) and sleeps (`Sleep`), with spurious wakeups. The
barrier is `Arrive` (read `n_barrier_passed`), `Enter` (fetch-add), `Reset` and
`Advance` of the last one, `Spin` of the others. A graph is a sequence of nodes, split
by rows or, for a matrix product, computed in chunks that are drawn from the shared
counter after all threads converted the operand into the shared buffer. `Abort` is an
assertion: on R's thread an exception that leaves `ggml_graph_compute`, on a worker
the end of the process.

### ModelLoading and FindModels

ModelLoading keeps the C++ heap (`model`, `context`, with "freed twice" as a fate) apart
from the external pointers that own it, so that a leak and a double free are states.
`Initialise` is the first load that gets through `ensure_llama_initialized`,
`LoadInitThrows` an exception between its steps, `LoadRefused` every other load that
fails: what it had made is gone by then, as each of its exits frees it. An exception
between the two allocations of the handle itself, which would leave a model without
owner, is listed as a hazard and not modelled.
`Free` may be repeated, `Drop` loses the last reference, `Collect` is R's finalizer at
any later time. `NameLibrary` is `edge_reload_cuda`, which only stores a path.

FindModels extends it with the scan: `Begin` (list.files, dangling links become NA),
`TakeFile`, the optional test (`TestLoads`, `TestRefused`, `TestAnswers`, `TestFails`),
placing, and `Return`. Placing takes two steps, since the code looks for a free name
(`ChooseName`) and then uses it (`PlaceLink`, `LinkNotMade`, `PlaceCopy`, `CopyFails`,
`CopyStops`): whatever others do in between is no longer seen. A copy writes through a
link at its target and leaves a partial file when it fails midway. A path is a name
with the counters appended to it, a disk maps paths to contents or links, and
links are followed: `Hop` goes over one link, and `Follow` hops as often as the disk has
paths, which is enough to leave any chain without a cycle. `Put` adds an entry to a disk or
a list. `Vanish` and `Replace` are other processes, which remove any path, and put files or links
anywhere, the chosen target included; the history variable `intruded` has what they
wrote or linked to since the name was chosen. The target directory may be among those
scanned, as it is by default.

### ChunkText

A text is a sequence of kinds of characters (white space, sentence end, other). A
chunk is the *set of positions* it holds, so that trimming, dropping empty chunks
and overlap are set operations. `Whole`, `CutAtSentence` and `CutHard` are the
early return and the two ways a window can end; `NextPos` is the step of line
3444. The helper is modelled for every overlap, because
`edge_index_documents` compares the arguments before it truncates them
(`chunk_size = 1.5, chunk_overlap = 1.2` pass the check and arrive as 1 and 1).
That `\s` and `trimws` differ on exotic white space is not modelled.

### DocumentIndex

Documents become chunks, with one source entry each, and batches of chunks become
matrices that are bound by rows. A row records which chunk it embeds. A file may
be skipped (unreadable or empty), a document may have no chunk (all white space),
a text may be skipped (its row stays zero) or end the whole batch (abort). ChunkText
says how many chunks a document has; here any number is possible.

### Extraction

A grammar is the finite set of texts it derives, generation appends what some text of
the grammar allows (`Generate`), ends where the grammar is complete
(`EndOfGeneration`) or is cut off anywhere (`CutOff`: `n_predict`, a full context, a
failed decode). Of an object those characters are kept that its extraction looks at:
braces, quotes, commas, raw control characters, numbers with a leading zero (`Zero`),
anything else. The last two are what the grammar's rules for strings and numbers allow
and JSON does not (`Readable`). A field is a string, a number or something else. Names of fields and the values of an enumeration
are taken to have no braces (an enumerated value with one is a string with one). `Matched` is the loop that counts braces,
`IsObject` what jsonlite accepts (external), `Row` the row that results.
`FallBack` is the classification by free text after an error.

### ModelDownload

Sessions share a directory of files. A model is `Pieces` pieces, and a file the
sequence of what was written to it: piece `k` of model `m` is `<<m, k>>`, an error
page of its server `<<m, 0>>`, and `Hole` stands for bytes never written, which an
overwriting tool leaves when somebody else truncated its file. A missing file and
an empty one are both `<<>>`: no code path tells them apart. `MinPieces` is the 1 MB
of `.is_valid_gguf_file`, and a SHA-256 is the content itself (no collisions).

Every point at which another session may come in between is an action: `Look`
(exists, valid), `Discard`, `Open` (one attempt of one tool: curl and wget append to
what is there, httr and `download.file` start over), `Receive`, `ReceivePage`,
`Finish`, the three ways a transfer breaks, `CleanUp`, `CheckFetched`, `Verify`,
`Truncate` and `Save` (`write.csv` opens, then writes) and `Crash`. A page that httr
gets with status 200 counts as fetched, and `CheckFetched` removes it. `download.file`
is always the last tool (`ToolAssumption`), and `BreakWithWarning` is its short transfer
that only warns. The history variable `cutShort` has the names whose last transfer ended
so, or in a crash. A writer whose file is removed goes on writing to an unlinked file
(`lost`). The size and the
magic of one check are read in one step. `NextTry` is the loop over tools and
attempts; a failed attempt leaves the file for the next one to resume, as the
code does. What `.download_with_r` does first when a token is given and the R package
curl is installed (728-736) is not modelled.

### ChatHistory

`conversation_history` is the system message, if any, followed by turns; a turn is
its role and the number of its exchange, so that what is kept can be compared with
everything that was said. `window` is `max_history * 2`. `Ask` appends the
question and builds the prompt, `Answer` appends the answer and trims, with R's
`tail` for any sign of its argument (`RTail`); `Fail` is an error out of the stream,
which leaves the function and drops the history.

### CacheClean

A cleaner goes through the phases of the function: `Begin` (list.files), `Stat` for
one file after the other, `Decide`, `Consent` or `Refuse`, `Delete`, `Return`. All of
them interleave with other cleaners and with `Write`, another session's download. A
file that disappears before its `Stat` gives the row of NA that R gives, with its
consequences for `cumsum` and `order`. Files are numbered in the order `list.files`
sorts them, `Before` is the order of eviction. `Attach` starts a clean when the sum
over *all* files passes the limit, as `edge_cache_info` counts them. A session that
dies is one that takes no further step.

## 3. What is checked

| run | question | bounds |
|---|---|---|
| completion_polite | own context, prompt fits, and Completion implements CompletionService, if callbacks leave the generating models alone | 2 models, 2 calls, n_ctx 4, n_batch 1, prompts of 2, n_predict 0 (clamped or refused) and 2 |
| completion_reentrant | text and context, callback protocol, deadlines, and every call returns, with callbacks that do anything | 1 model, 2 calls, n_ctx 3, n_batch 1, prompts of 2 and 3 (one too long), n_predict 2, with timeout; fair |
| kv_cache | cells, keys and values, reused graphs and logits are those of one sequence of tokens; KvCache implements ContextService | 4 cells, n_batch 3, n_ubatch 2, padding 3, batches up to 3 over 2 tokens and one too long |
| threadpool | the shared buffer whole, chunks once, Threadpool implements GraphService, every call ends | 3 threads; a product with a chunk for each, a node split by rows, two products of 12 chunks, a last node that is not computed; aborts; fair |
| find_models | every object has its handle, a library named in time is given to every model, scans that nobody interferes with report what leads to its source, and no scan overwrites anything but what others put in its way after it chose a name | 2 handles, 2 source files of one cleaned name, 2 scans, 1 named library, 2 initialisations, 1 model opened by the user; first use and a settled session, both alone; 1 scan over files, there or not, and a link that may dangle, with 2 mishaps: removals, files and links of others, links not made; symmetric in the sources |
| find_models_tested | *fails*: "tests each GGUF file for compatibility ... before including it" (api.R 1785) | as find_models, alone |
| indexing | of a text: nothing lost, sizes, overlaps, end; of an index: chunks, sources and rows aligned | all texts to 5 characters and chosen ones of 11, sizes 1, 2, 4, 7, overlaps 0, 1, 3, 7; 3 documents of up to 2 chunks, batches of 2 |
| answers | filled rows are whole objects, balanced objects that JSON allows are found, answers are categories or cut off; of a chat: a gapless end of it is kept, as long as allowed, beginning with a question | 2 texts, a schema of a string of up to 3 characters and a number, 3 categories of which one begins another; 10 exchanges, `max_history * 2` from -2 to 7, with and without system prompt |
| extraction_json | *fails*: "constrains model output to valid JSON" (api.R 2472) | as answers, strings of up to 1 character |
| download_single | resuming never mixes a file up, failure leaves nothing, hashes are honoured, what is returned is whole unless its last transfer crashed or was a short one of `download.file` | 1 session, 2 models with own names, 3 pieces (2 make 1 MB), all four tools, 2 tries, 3 calls, 1 crash |
| download_shared | every download ends | 2 sessions on one file, curl and download.file, 2 calls, 1 crash; fair |
| cache_clean | a clean gets under the limit; while nothing is downloaded, cleaners together delete no more than needed | 2 cleaners, 3 models in any order of age and a protected file, 1 download, with and without `use_lru` |

A behaviour of `indexing` is about one text or about one index, one of `answers` about
extractions or about a chat: these modules run apart, with the variables of the other
at rest. DocumentIndex lets a document split into any number of chunks, so that running
ChunkText inside of it would only take behaviours away.

Why these bounds show the interesting cases.

* Completion: two calls are enough for a call nested in a callback and for a call after
  another one of each kind; a third would nest the same way. `n_ctx = 3` lets a cache
  fill up while text is generated, and cuts the embedded text of 4, 4 holds a whole answer; `n_batch = 1` makes a
  two-token prompt take two batches; prompt 3 is the first that is refused.
* KvCache: a batch of 3 is split into a whole ubatch and a shorter one, so that one can
  fail after another was computed; four cells make a batch be refused at
  either ubatch (as bindings.cpp drives the cache, the search never wraps); with
  padding 3 a graph is reused while the cache grows and rebuilt once; margin 1 stands
  for the positions (`n_swa + 32`) near which a copied row of the mask is amended, and
  positions up to 3 lie within and outside it.
* Threadpool: with three threads one can be late in a barrier while the other two go on
  to the next, which two cannot show; 12 chunks are the least that are drawn from the
  counter and not dealt out, a chunk a thread; two products in a row share the buffer
  and the counter; a last node that is skipped moves the end of the graph.
* FindModels: two files of the same name after cleaning collide; two scans find the
  links and copies of the first; the target is one of the scanned directories. What can
  come between the search for a name and its use takes two mishaps: a link put at the
  name, and the file behind it put there, or removed, as well.
* Text and documents: size 7 with overlap 3 or 7 is the smallest window in which a
  sentence break ends a window *before* the end of the previous one (`max(breaks)`
  may be just over the middle while the window moved on by less than half), and texts
  of 11 characters have such windows. Batches of two over documents of two chunks
  cut documents in two and leave a short last batch.
* Extraction: strings of three characters move the depth up and down in every way, closing
  below where they began and coming back, and mix braces with control characters; the
  number has a leading zero or not; a category that begins another is the case in
  which a cut-off answer looks complete.
* Downloads: three pieces with a minimum of two are the least that tell an invalid, an
  incomplete and a complete file apart; two tries show a resumed attempt, four tools
  every change of tool; three calls let one leave, one resume and one verify.
* Chat and cleaning: ten exchanges trim the widest window several times. Three models of
  two sizes and three ages give every order of eviction and every tie; of two cleaners
  one can delete between any two steps of the other.

**Fairness.** `completion_reentrant` assumes weak fairness of the steps of each call:
the C++ code of the innermost call runs until it leaves, and a callback answers.
That is what single-threaded execution gives, except for a callback that does
not return, which is the user's. Nothing is assumed about the clock,
interrupts, or what is sampled. `threadpool` assumes weak fairness of R's thread and
of each worker, and strong fairness of getting the mutex, since a lock is only free
now and then; both are assumptions about the operating system's scheduler, nothing
in ggml provides them. The splitting of a text in `indexing` is a
sequential loop: weak fairness of its next step. `download_shared` assumes that each
session's R process and the tool it started go on: curl, wget and
`download.file` are given timeouts (api.R 645, 692, 756), so a stalled transfer
breaks. `httr::GET` is given none: a transfer that stalls there may wait for ever,
and the run leaves httr out.

### Met while modelling

Behaviour of the code that differs from what its documentation or comments say, or that
the next change should keep in mind. The models contain it. Two runs are expected to
fail, each with a property that says what the documentation says: `find_models_tested`
and `extraction_json`.

Completions

* The comment on `clear_kv_cache` (bindings.cpp 87-90) says each completion starts from
  an empty cache so that answers do not depend on other calls. That holds between calls,
  not for a call made inside a stream's callback on the same model (581): the inner
  call clears the cache, and the outer loop goes on from what it left (606). This is why
  `OwnContext` needs polite callbacks.
* The comment on `decode_prompt` (bindings.cpp 72-77) explains why a prompt must be fed
  in pieces of `n_batch`; embeddings cut a text to `n_ctx` only (787, 806), so that a
  longer text raises an error that loses every text of the call. For models without
  causal attention the assertion is on `n_ubatch`, 512, and fails earlier.
* The token at which a stream's deadline is noticed is in the response and in the
  count, and is reported to nobody (api.R 1311-1319), though the callback is
  documented as called for each generated token (api.R 1262).
* A clock that is read before the work lets one piece of it through: a completion may
  gain one token after its deadline, and a stream make one callback (`DeadlineHolds`).
* The stream is the only loop that does not clamp `n_predict`.
* An assertion on R's thread becomes an R error "and the session keeps working" (NEWS.md
  43-49, bindings.cpp 58-65). When it leaves `ggml_graph_compute` as an exception, the
  disposable pool is not stopped (ggml-cpu.c 3297, 3304): its workers stay behind,
  spinning at a barrier that nobody will complete.
* A graph whose building or allocation failed stays the one to be reused
  (llama-graph.cpp 886), so that later ubatches of the same shape abort. An exception in
  a computation leaves its positions in the cache until it is cleared.

Backends and discovery

* After an exception between the backend steps the next load repeats them: the CPU
  backend is registered twice. llama.cpp (925-979) drops duplicate GPUs, not integrated
  ones. An activation after the first load returns TRUE and has no effect until R is
  restarted, and `edge_cuda_info` may name a library that is not the loaded one.
* `optimal_batch` is not monotone: a context of 512 gets 512, one of 513 gets 256.
* `is_compatible <- FALSE` is assigned inside the error handler (api.R 2011-2013), to a
  variable local to it: a model that fails the test is linked and reported all the
  same, against the documentation (1785-1786): run `find_models_tested`. The model of a failed test stays loaded
  until its handle is collected.
* A link that cannot be made is only warned of, and a link to a relative directory
  dangles; both are reported as found (2035-2036). A dangling link in a scanned
  directory gives a file "model_NA...". Equal names overwrite each other's entry in the
  report (2049). The default target directory is scanned as well, so that links
  multiply; a copy onto a dangling link writes through it, and if the file behind it came
  back since the name was looked for (2022-2027), `overwrite = TRUE` (2044) replaces it; if the target of a link was
  removed, a link to itself may result.

Structured output

* A valid object whose strings hold more closing than opening braces is not found and
  gives a row of NA (api.R 2650); without jsonlite every row is NA.
* The grammar "constrains model output to valid JSON" (api.R 2472-2473), but its strings
  may hold raw control characters and its numbers begin with zeros (2508-2510): such an
  object is a row of NA. Run `extraction_json`.
* "guaranteed to be one of the specified categories" (NEWS.md 171) fails for a
  generation that is cut off, which is answered as it is (2735); `AnswerIsCategoryOrCutOff` says
  that nothing else breaks the guarantee.

Downloads and the cache

* "Existing file is incomplete or invalid, re-downloading..." (api.R 346) is not said of
  a partial file of 1 MB or more: `.is_valid_gguf_file` looks at the size and the magic
  (334), and by default no hash is known. A session killed in mid-download leaves such a
  file, and every later call returns it. A transfer by `download.file` that ends short is
  a warning, which counts as success from 1 MB on (771-773), so that the call itself
  returns the partial file. `ReturnedIsWhole` excepts files that were cut short in
  these two ways, and no others.
* `force_download` is documented as "Force re-download even if file exists" (api.R 239).
  Only the check of the old file is skipped; `curl -C -` (644) and `wget -c` then resume
  it, so that a file of another version keeps its beginning, and a complete one is not
  fetched at all.
* `known_hashes.csv` is read, extended and written back without a lock (api.R
  518-542): of two sessions that trust a first use together one loses its row.
* Concurrent downloads *to one file* may mix it, as both append.
* "Least-recently-used" (api.R 1541) goes by the time of modification (1589), which
  `edge_load_model` sets to now (116), as far as it may: `try` hides a failure.
* The check at attach counts CUDA and the checksum store (zzz.R 30), which no clean
  removes: if they alone pass the limit, every attach cleans again.
* A file that is downloaded while a cleaner asks its question is deleted all the same.

Chat, search and server

* With a system prompt the trim of a chat keeps an odd number of turns, so that the
  history begins with an answer whose question is gone; the comment (api.R 1435)
  speaks of the most recent exchanges. With `max_history = 0` and a system prompt
  `tail(x, -1)` lets the history grow without bound.
* `edge_search` documents its score as cosine similarity (api.R 3252) and computes a dot
  product, which is the same only for an index built with `normalize = TRUE` (3142).
* `edge_small_model_config` means to give small models a larger context (api.R 1225), but
  bounds it by 2048, so that on a server a small model gets 2048 instead of 4096.
* `edge_serve` checks the key before it answers a CORS preflight, does not bound
  `max_tokens` on /v1/completions, and registers the `on.exit` that frees the model
  late (3664).

## 4. What is proved

All theorems hold for every value of the constants, under the ASSUMEs of the
modules (positive sizes, finite bounds as naturals, sequences of the stated kind), which
TLC evaluates for each instance. Each module also proves its type invariant; the type
invariants are not listed among the runs' properties.

**Completion_proofs.** Three invariants.
`OwnInv` describes each frame by itself (`fed` against `plen`, `made` against `i` and
`npred`, which handle was open when the call began) and the innermost call's context.
The hard part is that a decode by one call must not disturb another generating call's
cache: with polite callbacks two generating calls never share a handle, which the
invariant states as a condition on pairs of frames. It gives `CompletionOwnsContext`
and `PromptFits`, both under PoliteCallbacks, which is a hypothesis about the user's code
that the theorems name.
`FrameInv` needs no politeness. It says of every frame how far it is (`Progress`),
what its callback was told (`Telling`), and what it has given since its deadline (`Timely`). Most
actions move one frame and leave the others alone: `StepMoves` sorts the actions into
a few kinds of moves once, and the three properties are then proved over moves:
`TextFollows`, `Protocol`, and `DeadlineKept` (at most one token or callback more than
there was when time ran out, and whether that one is still to come).
`ServiceInv` is both, with which call was the last one its model was given, and that a
refused call is over. Under it every step maps to a step or a stutter of
CompletionService: `LoopsImplementService`, again under PoliteCallbacks.

**KvCache_proofs.** The argument rests on one observation: as bindings.cpp drives the
cache, the cells in use are always the first ones, cell `c` holds position `c`, and the
search head stands right behind them (`InvLayout`). It survives refusals and failures,
and makes the general search, its wrap-around and the amended rows of the mask
predictable. `InvPlaced` says where the ubatches on trial stand, `InvPhase` what each phase
knows of the call and that the state from before it can be restored, `InvContent` what
each used cell was computed from, while no exception made the cache unsound. Theorems:
`TrialIsUndone`, `ContentCorrect`, `LogitsCorrect` and `CacheImplementsContext`.

**Threadpool_proofs.** `PhaseInv` says where each thread may be before and after the graph
is published and the pool stopped. `BarrierInv` counts a thread that waits in a barrier
already opened as being in the next segment: so counted all threads are always in the
same one, and the counter of the barrier is the number of those that wait. From it
follows `PassTogether`: the step that opens a barrier moves all threads at once, which is
the step the abstract computation takes. `ScratchInv` (whose operand the shared buffer
holds), `CountInv` (chunks drawn, in hand and computed) and `OutcomeInv` build on it.
Theorems: `BufferWhole`, `EachChunkOnce` and `PoolImplementsGraph`.

**DocumentIndex_proofs: chunks.** `ChunksTypeCorrect` and `TextCovered`, `ChunksFit`, `OverlapBounded`, and `ChunkCount`, the
bound on the number of chunks that drives the end of the splitting. The overlap is not
inductive: it compares kept chunks while empty ones are dropped, and a window may end
before the one before it did. `ChunkInv` adds where the last kept chunk lies relative to
the next window's start, and that a start grows by at least one with each window.

**DocumentIndex_proofs: the index.** `RowsAligned` speaks of the finished index; the invariant
`IndexInv` adds the state of the batch under way (where it starts, that all before
it are bound, that it is not overfull).

**ModelDownload_proofs.** Types for any number of sessions; the rest for a session alone in
its cache (`Alone`), as the code does not keep others out. `NoMixture`, for models whose
file names differ (`DistinctNames`), speaks of files only; `ResumeInv` adds `TransferOK`,
that a transfer under way writes right behind the pieces that are there, or appends to
an error page, whose first bytes make it invalid whatever follows.
`ReturnInv` gives `FailureIsClean` and `HashIsHonoured`; it says what is about to be
written to the emptied `known_hashes.csv`, that none of its rows matched before, and uses
the well-foundedness of the naturals for "no first match, so no match".
`WholeInv` gives `ReturnsCompleteModels` for every list of tools, `download.file` at its
end: a file is complete or absent unless a call is busy with it or its last transfer was
cut short in one of the two ways nobody is told of (`cutShort`).

**Answers_proofs: chats.** All properties, for chats of any length and any
`max_history`. `ChatInv` adds to `KeepsMostRecent` that without a system prompt the
number of turns kept is even after each answer; from both it follows that the first
turn is a question. `HistoryBounded` is inductive by itself; it is stated with
room for the system prompt. `RTailIsEnd` says what `tail` keeps, for either sign.

**Answers_proofs: extraction.** `RowsAreWhole`, `BalancedObjectsFound` (of objects
that are `Readable`, which the grammar does not promise) and
`AnswersAreCategories`, for every schema, strings of any length, any categories and any
number of texts. Counting braces wherever they are, as `edge_extract` does, says little
about an object, whose strings may hold any; what saves the rows is the parser. The
fields of an object are `Plain` (braces only inside of strings, no string left open), by
`PlainString` for one value and `PlainConcat` for what is put together, and by unfolding
the recursive function `Fields` field by field. So an object is `Enclosed` by the only two
braces that a parser sees, and `OnlyWholeIsObject`: none of its proper beginnings is
accepted, wherever the loop over the braces stopped. `ExtractInv` adds to the properties
that the output is always the beginning of something the grammar derives (`Begun`). The
assumptions are that a schema is a sequence of types, and that there are categories.

**CacheClean_proofs.** `ProtectedNeverRemoved`, for any number of cleaners, files and
downloads. A deletion looks at no name again, so the invariant `CleanInv` carries from
the listing to the deletion that nothing protected is listed and nothing but what is
listed is to be deleted. `CleanGetsUnderLimit` (`UnderLimitAfterClean`) and
`CleanersShareTheExcess` (`EvictsOnlyExcess`) are about sums: `SizeSum` unfolds the
recursive function `SizeOf` once, and sums are then monotone and additive (`UpTheFiles`
is the induction over the files both need). `KeptFits` says that the rows `cumsum` leaves
add up to at most the limit. `KeptInv` carries what a cleaner has read against the
directory as it is now: files that came since the listing are exempt, deletions by others
do no harm. For `EvictsOnlyExcess`, `SteadyInv` says that as long as nothing is written
every cleaner reads the sizes of the start, and that whatever is gone did not fit then.

**FindModels_proofs.** `ModelsOwned` (`OwnedByHandle`) and `EarlyActivationWorks` are
about ModelLoading: `LoadingInv` adds to them which backends are registered by when
(`BackendsReady`), and a step of the scan either leaves all of it alone or is a step of
ModelLoading. `ScansOverwriteNothing` (`NothingOverwritten`) and `ReportsLeadToSources`
(`ReportLeadsToSource`) are about links. The first holds whatever others do. Between the
search for a name and its use, `Unclaimed` is invariant: where the target leads is
free, or in `intruded`. A removal or an entry of others anywhere on the chain of links
either leaves its end alone (`Elsewhere`) or makes it one they wrote or linked to; that
needs every chain to end within as many hops as there are paths (`LastHop`, by the
pigeonhole principle). `FollowChain` unfolds `Follow` into the chain of
paths it goes through, `GrownFollow` and `GrownLink` say what a new file or a new link
does to a chain, and `TargetFree` that some counter is free, by counting paths. The
invariant `ReportInv` adds the types of the disk and of the scan (`FindInv`) and that,
undisturbed, what was listed and placed leads where it did (`Undisturbed`). Assumed is
that the sources are finitely many, that a cleaned name has no counters in it yet, and
that what stands for no file, for nowhere and for no path is none (`PathsAssumption`,
`LoadableAssumption`).

Only model-checked: liveness (`EveryCallReturns`, `ChunkingEnds`,
`DownloadsEnd`, `CallEnds`), which the prover cannot do. Every invariant and every action
property of the runs that pass has a theorem, and so has each of the three refinements.

## 5. Not modelled

* **Values**: probabilities, vectors, logits, the wording of prompts. Tokens are names, the
  keys and values of a cell are what they were computed from, a hash is a content.
* **R itself**: argument type errors, `options(warn = 2)`, which turns a C++ warning into a
  long jump, and the glue that Rcpp generates.
* **The server**: it keeps no state between requests but the model's handle, and its
  handlers run one after the other on R's thread, so that a request is a completion
  of the module Completion; what is left is routing, headers and JSON.
* **Ranking and asking**: `edge_search` sorts one vector, `edge_ask` is a search and a
  completion. `edge_map` is a loop of independent completions.
* **Grammars**: the strings in which schemas are written as GBNF, and llama.cpp's parser of
  it. Extraction takes a grammar as the set of texts it derives.
* **Devices and benchmark**: constants chosen by three thresholds, and timing.
* **CUDA files**: downloading and unpacking the library is straight-line I/O; what its
  name does to the initialisation is modelled.
* **Ollama**: `edge_find_ollama_models` reads manifests and keeps nothing. Also what a scan
  reads of a file's header, friendly model names, and the consent to create the cache.
* **llama.cpp and ggml beyond the paths the package takes**: sliding windows, recurrent and
  multi-sequence memories, copying and shifting of cells, saved states, persistent thread
  pools; model architectures, tokenizers, samplers, quantisation, operators and their
  SIMD kernels, which are most of the source lines. Of the operators that synchronise the
  threads inside of a node (the barriers and chunk counters of flash attention and some
  others) only the matrix product is modelled.
* **One run over all layers**: Completion, KvCache and Threadpool are connected by
  contracts, as section 2 says; CacheClean and ModelDownload share the directory in the
  code and each sees the other as an arbitrary writer or remover in its model.
