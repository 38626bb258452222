# A TLA+ development for ZInferLM

ZInferLM is a C++ inference engine for GGUF language models on top of ggml, with
an HTTP server that streams completions as server-sent events. These modules
model its control: the threads and queues, the event path from a run to a
connection, the generation loop, the ownership of the memory-mapped model, what
the loaded model answers and the graph it builds, and the tokenizer. TLC checks
small instances; TLAPS proves every safety property of the passing runs for every
value of the constants. Paths below are relative to the repository.

## The system

| Component | State it keeps | Operations | Who calls it |
|---|---|---|---|
| Worker (`src/worker/worker.hpp`) | `running_`, `tasks_`, mutex, condition variable, one promise per task, its thread | `add_task`, `stop`, destructor, `run` (the thread) | `Chat::invoke` adds tasks; a static destructor stops it |
| EventDispatcher (`src/events/events.cpp`) | group → vector of listeners (a callback and its set of events), `callbacks_count_`, `mutex_` | `listen`, `unlisten`, `dispatch` | handlers listen, the worker thread dispatches, callbacks unlisten |
| Inference (`src/inference/`) | `past_tokens`, the cached graph, `total_tokens` | `invoke`, `predict`, `prepare`, `compute`; `InferenceWorker::execute_task_` | the worker thread |
| HTTP session (`tools/serve/server.cpp`) | `req_`, `streaming_queue_`, `is_writing_`, `header_sent_`, socket | read, route, respond, stream, flush, close | strand handlers; `stream_json_message` from the worker thread |
| Chat path (`tools/serve/handlers.cpp`, `src/chat/chat.cpp`) | `chat_id`, the registered callback | `chat_completion`, `Chat::invoke`, the callback | session handlers |
| Listener, server and main (`tools/serve/server.cpp`, `main.cpp`) | the acceptor, the `io_context`, its threads, signals | `do_accept`, `run`, `stop`, `Model::unload` | the `io_context`, the main thread |
| GGUF loader (`src/model_loader/gguf/`) | the mapping, parsed metadata, tensor entries, tensor base | `load_gguf_file` and its readers; `info`, `model_config`, `tokenizer_info` | `Model::load`, the facade |
| Model facade (`src/models/`) | the singleton `instance_` | `load`, `unload`, `instance`, the accessors | main, inference |
| Layers and graph (`src/layers/`, `src/models/qwen/model.cpp`) | the input tensors | `build_graph`, `set_inputs` | `Inference::predict` |
| Tokenizer (`src/tokenizer/`) | vocabulary, merge ranks, trie of special tokens, byte map | `tokenize`, `decode` | inference |
| Sampler (`src/sampling/samplers.cpp`) | `temp_`, `top_k_` | `sample` | the generation loop |
| Metrics collector (`src/metrics/metrics.cpp`) | times and counts of a run | `collect` (a callback), `get_metrics`, `reset` | the dispatcher, the CLI |
| KV cache, debugging output, CLI tools | see "What is not modelled" | | |

A request goes: session handler → `chat_completion` (initiate the stream, listen
to the group `chat_id`, `Chat::invoke`) → `add_task` → worker thread →
`Inference::invoke` → `dispatch(chat_id, ...)` → callback → `stream_json_message`
(push under `queue_mutex_`, post a flush to the strand) → strand → socket. Three
kinds of threads meet on this path: the threads of the `io_context`, the worker
thread, and main, which tears everything down.

What is hard to test here, and the property that watches it, is listed line by
line under `hazards` in `PROJECT.json`. The main groups: lost wakeups and lost
tasks around `stop()`; callbacks that change the listeners during a dispatch;
flushes that come while a write is under way or after their stream has ended; a
graph reused for another batch; positions and mask that must agree with what was
computed; teardown under a running task; the ownership of the mapping across
failing loads; byte accounting that must agree in five places; metadata and
tensors a file may lack.

## Modules

`TaskService`, `ListenerMap` and `RunProtocol` say what a component promises;
the others are translations of the code.

| Module | Models | Correspondence |
|---|---|---|
| `TaskService` | what callers of the worker see | first in, first out; one active; refuse and cancel once closed |
| `Worker` | `worker.hpp` | one action per critical section of `add_task`, `stop`, `~Worker` and per step of `run`; `runPc` is the place of the thread; the actions named `NotifyOne`/`NotifyAll` are apart from the push because the code notifies after the unlock; `SpuriousWakeup` is the one the standard allows |
| `WorkerProofs` | | the theorems about `Worker` |
| `ListenerMap` | the map of the dispatcher | operators shared by `EventDispatcher` and `ChatServer` |
| `EventDispatcher` | `events.cpp` | the mutex is a variable; `dispatch` is lock, snapshot, one step per callback, return; a callback may call `unlisten`, and may throw out of `dispatch` |
| `RunProtocol` | what a listener relies on | tokenized, then prefill, numbered tokens, one completion, last |
| `Inference` | `inference.cpp`, `inference/worker.cpp` | a run from `execute_task_` to its promise, with the failures of the template, reserve, compute, tokenizer and callbacks; positions and mask of `set_inputs`; `Dispatch` also calls the collector |
| `Metrics` | `metrics.cpp` | operators on the state of a collector; a time is the number of the event it was taken from |
| `Sampler` | `samplers.cpp` | the tokens `sample` may answer for a row of logits; a row is known by its order |
| `Session` | `Session` in `server.cpp` | the strand is a queue of handlers; reads and writes are initiated by a handler and completed by the network; `PushToken`, `PushEnd` and `PostFlush` are the worker thread |
| `ChatServer` | `handlers.cpp`, `chat.cpp`, `main.cpp`, `Server` | composes the acceptor of `Listener`, the handler, the worker (as `TaskService`), the dispatcher and the shutdown order of main |
| `Tokenizer` | `tokenizer_impl.cpp`, `special_token_vocab.cpp` | the three nested loops of `tokenize`, and `decode`; texts are sequences of bytes, tokens sequences of the code points of `build_byte_to_unicode_map_` |
| `GGUF` | the readers of `metadata.cpp` and `tensors.cpp`, the accessors of `gguf.cpp` | the file as a tape of fields with their offsets, and the readers that add up sizes; reading where no field begins is "garbage"; a typed read answers, throws or is undefined |
| `Layers` | `layers/`, `build_graph` of `qwen/model.cpp` | tensors are their shapes; the assertions of ggml decide whether an operation has a result |
| `ModelLoader` | `gguf.cpp`, `models.cpp`, `model_impl.cpp` | `load` from open to install, `unload`, the accessors and the building of a graph; `maps` is what is mapped, `instance` the model with the mapping it owns |
| `EventDispatcherProofs`, `InferenceProofs`, `SessionProofs`, `ChatServerProofs`, `ModelLoaderProofs`, `TokenizerProofs` | | the theorems about the module of the name |
| `DataLemmas` | | induction over the naturals and recursive functions in a form the provers can use; lemmas about the maps of the dispatcher |
| `MC*` | | instances for TLC |

Actions keep the names of the functions they stand for. An action covers the
whole critical section or handler; where the code gives up a lock, or another
thread may run in between in a way that matters, the handler is split there.

## Runs

Passing runs:

* **worker** (`MCWorker`): three tasks, two callers of `stop()` and one destructor.
  Three tasks are the least for one in hand, one queued and one arriving; the
  second caller of `stop()` may find the flag cleared while the first joins. The
  destructor begins only when no call is under way, since the owner may not destroy
  the object before, but with tasks queued or in hand.
  `TaskAccounting` (queued, in hand or answered, exactly one), `PromiseSetOnce`,
  `JoinedMeansAnswered`, `EveryTaskAnswered` (no lost wakeup), `StopReturns`, and
  the refinement `ImplementsTaskService`.
* **dispatcher** (`MCEventDispatcher`): two threads, groups, callbacks and events,
  up to two dispatches and two `unlisten` calls. `SnapshotDelivered` (each dispatch
  invokes exactly what was registered when it looked, whatever is removed
  meanwhile, and the first of it when a callback throws), `CountMatches`, `CallsReturn` (no thread waits for its own mutex).
* **inference** (`MCInference`): prompts of 0, 1 and 3 tokens. Zero, what a
  template that fails to render gives, shows the wrap of `tokens.size() - 1`; one
  makes the prefill as large as a decoding step so that the graph is reused; three
  makes it differ. The context has 5 positions, so that runs end inside of it and
  go beyond it. Rows of logits are all those of three tokens
  and three values, so that every pattern of ties occurs, with `top_k` zero, one,
  two and larger than the vocabulary; the stop token is the first one, which
  `sample` answers for empty logits, or the last one. `GraphFitsBatch`,
  `AttentionSeesPast` (the mask of a token is exactly what was computed before it
  and itself, and no position is computed twice), `OutcomeMatchesEvents`,
  `FiguresOfThisRun` (no figure of a run that produced a token mixes in a time or a
  count that `reset` left behind), `ImplementsRunProtocol`, `TopKHonoured` (the
  threshold of the partial sort against a count of the better tokens), `RunEnds`.
* **session**: three requests on a connection (plain, chat, unrouted or of a
  shape that throws; keep-alive or not), up to two tokens a run, a peer that may
  vanish. Three requests are needed for a late flush of the first stream to meet
  the third. `AtMostOneWrite`, `WireInOrder`, `ReadsOnlyWhenQuiet`, `StreamEnds`.
  The first three are stated for behaviours in which every stream began with its
  header, because the race of *session_header* breaks what follows it;
  everything short of that race is covered.
* **chat** (`MCChatServer`): three connections with a chat each, one token a run, a
  signal at any moment, a socket that does not open, an accept that fails.
  `OwnEventsInOrder`, `CompleteDelivery`, `NothingLeftListening` (the map of the
  dispatcher does not grow with the chats), `EveryConnectionAccepted`,
  `EveryChatAnswered`, `ShutdownEnds`. A crash in the teardown, or when `stop()`
  closes the acceptor under a `do_accept()`, is an outcome of the model, and the
  liveness properties allow it.
* **tokenizer** (`MCTokenizer`): every text of up to four bytes over five bytes
  (two not printable, one letter, the two that begin special tokens), three
  vocabularies (special tokens that are prefixes of each other; competing merges;
  a merged token that is missing), every way the regex can cut the text, and the
  empty regex. `RoundTrip`, `MergesLikeGPT2`, `SpecialsWin`, `TokenizeEnds`.
* **loader** (`MCModelLoader`): up to three calls of `load` with `unload` between
  them, seventeen files (every size of value, arrays, empty arrays; alignment absent,
  8, 16, 64, stored as a string, stored as uint32, given twice; a small model with
  the tensors of two blocks, some biases and norms among them, and the same without
  an output tensor; a whole tokenizer; numbers in another type, and a string or an
  array in their place; a tensor without dimensions; a string, an array, a number of
  entries and a number of tensors that an int cannot count; no GGUF file; too short),
  every failure of open, fstat, magic number and mmap; between the calls
  the accessors, and graphs for batches of one and three tokens. `InStep`,
  `TensorsInPlace`, `NoDanglingTensors`, `CleanupOnReturn`, `FailedLoadKeepsModel`,
  `AnswersFromFile` (each accessor tells the first entry of every key; with a number
  missing or of another scalar type it does not answer; a string or an array in the
  place of a number is not refused and reads as 0), `GraphFitsModel` (with heads that
  divide the embedding and the tensors the configuration implies, the shapes of every
  operation agree and the logits have a row for every token). What these say of the
  parse and its results they say of files whose entries an int can count
  (`FilesWithinInt`); the others are loaded in the same run, lose their place or come
  out short, and are held to the properties about resources.

Runs that show a disagreement between the code and what the repository says of it
(the quotations are under `findings` in `PROJECT.json`):

* **worker_destroy**: the virtual call in `run()` races the destructor. A task is
  queued when `~Worker()` begins; before the destructor gets the lock in `stop()`,
  `run()` pops it and calls the pure virtual `execute_task_`, which ends the process.
  The task, queued at shutdown, is neither cancelled nor answered.
* **session_header**: a flush that the previous run posted late runs before the
  handler that resets `header_sent_`; a chunk of the new stream is written without
  a header.
* **chat_unlisten**: the callback captures `chat_id` by reference and reads it
  after `chat_completion` has returned, and may remove another chat's callbacks.
* **chat_shutdown**: the `io_context` is destroyed and the model unloaded while
  the worker still runs a task that uses both.
* **loader_cleanup**: an exception between `mmap` and `set_mapped_memory` leaves
  the mapping without an owner; `general.alignment` stored as uint32 is enough.

Seen while modelling and without a run of its own: `send_json_response` ignores
its status (server.cpp:181); a write uses the buffer of a local string
(server.cpp:309); nothing compares `past_tokens` with the context length
(inference.cpp:157); an unknown `tokenizer.ggml.pre` gives an empty regex
(tokenizer_impl.cpp:31); a failed `mmap` and a failed `load` are dereferenced
(gguf.cpp:63, main.cpp:20); `get_eos` looks up the id of bos
(tokenizer_impl.cpp:290); a run that throws sends no completion, so its stream
stays open (inference/worker.cpp:25); the tokenizer's completion overwrites
`tokenizer_start_time_` of the metrics (metrics.cpp:28); every `size()` of the
parser narrows 64-bit lengths to int (metadata.cpp:105, 129-136, 169, tensors.cpp:35),
as does the parameter `kv_count` (gguf.cpp:27), and the loop over the tensors counts
up to a uint64 with an int (gguf.cpp:41), so that an array of small elements of
2^31 bytes is read to its end and then skipped by another distance; a string or an array where the
configuration has a number reads as 0 (metadata.h:159-164); `ggml_new_tensor` aborts
for a tensor of no or more than four dimensions (engine/tensors.cpp:14). Those that only several
actors or a rare failure bring about are among the hazards.

`TypeOK` is among the properties of *worker*, *dispatcher* and *inference*; in
`Session`, `ChatServer`, `Tokenizer` and `ModelLoader` it records the state and is
where an inductive invariant begins, and no run depends on it.

Deadlock is checked in no run: every one of these components may legally come to
rest (a worker that has been joined, a connection that is closed, a finished call);
that nothing rests too early is what the liveness properties say.

### Fairness

Weak fairness only. *Worker*: the operating system runs every thread that can run,
as long as the process has not been ended by the pure virtual call; nobody has to call `add_task` or `stop`, and spurious wakeups need not come.
*EventDispatcher*: a thread inside a call goes on; calls are bounded. *Inference*
and *Tokenizer*: the calling thread runs. *Session*: the threads of the `io_context`
run the strand, the worker thread runs, and reads and writes complete because
`expires_after` ends them if the peer does not. *ChatServer*: a handler that has
begun, the handler of `async_accept`, the worker thread and main go on; no client
need connect, no request arrive and no signal come.

### Bounds and abstractions

* Payloads are identities: a chunk is its request and its number. Partial sends
  are not modelled.
* `Sampler` knows the order of the logits: the division by a temperature keeps it
  (its overflow for a very small temperature is left out), and every token with a
  probability above zero may be drawn. That the rounded probabilities of several
  tokens add up to less than the draw is an outcome; `TopKHonoured` excepts it.
* `Unknown` in `ChatServer` stands for whatever the dead stack frame holds that is
  no live `chat_id`.
* `MergesLikeGPT2` is stated for merge tables in which every merge makes a token that
  none before it makes, as when training chooses one pair a round. Published tables,
  those of llama-bpe for one, list several merges for the same token and are outside of
  it: where a token is the result of two merges (with (a,b), (b,c), (a,bc), (abc,ab),
  (ab,c) the text "abcabc"), merging one occurrence per round and merging all of them
  differ.
* Special tokens are ASCII. Alignments divide the page size, so aligning an
  address and aligning an offset agree. Arrays of arrays are left out.
* `ToInt` is the conversion of a 64-bit number to int. `IntLimit`, the first number
  an int cannot hold, is 2^31 in the code and 64 in the runs, so that strings, arrays
  and counts on either side of it occur; the proofs hold for any. The sum in
  `MetadataArrayValue::size` overflows an int, which is undefined: the model takes the
  low bits, what a build that wraps and one that keeps a wider register return. What a
  loop over more tensors than an int can count does is a choice: end or go on.
* A time in `Metrics` is the number of its event, so that an earlier run's time (0)
  and the order of events show, and durations do not. What the arithmetic makes of
  a duration of zero milliseconds is left out.
* `Layers` knows shapes and no numbers, and takes the KV cache as the attention
  layer uses it: one tensor for all positions of the context.
* A reader that lost its place reads "garbage"; that no run reaches it is `InStep`.

## Proofs

TLAPS checks the theorems below for every value of the constants; together they
state every invariant, every action property and both refinements that a passing
run checks. Each rests on an inductive invariant, proved from `Init` and kept by
every action (`IInv`; in `TokenizerProofs` and the second half of
`ModelLoaderProofs` one for each theorem). No theorem assumes fairness.

| Module | Assumes | Theorem: what it shows |
|---|---|---|
| `WorkerProofs` | `NoTaskIsNone` | `TypeCorrect`: `TypeOK`; `AccountingCorrect`: `TaskAccounting`; `JoinedCorrect`: `JoinedMeansAnswered`; `PromiseOnceCorrect`: `PromiseSetOnce`; `Refinement`: `ImplementsTaskService` |
| `EventDispatcherProofs` | `BoundsAssumption` | `TypeCorrect`: `TypeOK`; `CountCorrect`: `CountMatches`; `DeliveryCorrect`: `SnapshotDelivered` |
| `InferenceProofs` | `InferenceAssumption` | `TypeCorrect`: `TypeOK`; `GraphCorrect`: `GraphFitsBatch`; `AttentionCorrect`: `AttentionSeesPast`; `OutcomeCorrect`: `OutcomeMatchesEvents`; `FiguresCorrect`: `FiguresOfThisRun`; `TopKCorrect`: `TopKHonoured`; `ProtocolKept`: `ImplementsRunProtocol` |
| `SessionProofs` | `SessionAssumption` | `OneWrite`: `AtMostOneWrite`; `OrderOnWire`: `WireInOrder`; `QuietReads`: `ReadsOnlyWhenQuiet` |
| `ChatServerProofs` | nothing | `EventsInOrder`: `OwnEventsInOrder`; `DeliveryComplete`: `CompleteDelivery`; `DispatcherClean`: `NothingLeftListening` |
| `ModelLoaderProofs` | nothing | `TensorsMapped`: `NoDanglingTensors`; `CleanupCorrect`: `CleanupOnReturn`; `FailureKeepsModel`: `FailedLoadKeepsModel` |
| `ModelLoaderProofs` | `LoaderAssumption` | `ParserInStep`: `InStep`; `TensorsCorrect`: `TensorsInPlace`; `AnswersCorrect`: `AnswersFromFile`; `GraphCorrect`: `GraphFitsModel` |
| `TokenizerProofs` | `TokenizerAssumption` | `SpecialsCorrect`: `SpecialsWin`; `RoundTripCorrect`: `RoundTrip`; `MergesCorrect`: `MergesLikeGPT2` |

The assumptions used give the constants their kinds (bounds are natural numbers,
rows of logits are not empty) and say that the marker "none" is no task.
`LoaderAssumption` says besides that the files are well-formed (`IsFile`: every
entry holds a value of its type, no two tensors have the same name), that an
alignment divides the page and that `mmap` answers whole pages.
`TokenizerAssumption` says that special tokens are ASCII and the merge tables those
in which every merge makes a new token (`WellFormedMerges`: both parts of a merge are
known before it, its result is not), which published tables with several merges for
one token do not satisfy.

**Worker.** `IInv == TypeOK /\ ControlInv /\ TaskAccounting`.
`TaskAccounting` alone is not inductive: `RunTake` takes the head of the queue, so
it needs a queue that is not empty at that place; which places of `run` hold a
task decides what is in hand; and `JoinedMeansAnswered` needs that a joined
stopper implies an exited thread, and an exited thread an empty queue that
`add_task` no longer fills. `ControlInv` states these relations between `runPc`,
`running`, `tasks`, `current`, `stopPc` and `callPc`. The refinement needs only
`IInv` and one case per action, each a step of `TaskService` or a stutter.

**EventDispatcher.** `SnapshotDelivered` speaks of the end of a dispatch. The
invariant adds who holds the mutex at each point (`ControlInv`) and that, after the
copy, the calls made followed by the calls left are what was due (`DeliveryInv`),
which gives both the end by a return and the end by an exception.
`CountMatches` rests on lemmas of `DataLemmas`: what `operator[]`, `listen` and `erase`
do to the set of places of the map and to its cardinality. That `Wanting`, the loop
over the callbacks of a group, answers a sequence of callbacks is an induction over
the vector: the library's induction theorems cannot be instantiated by these
provers, so `DataLemmas` proves induction for a set of naturals, with the
statement as a set, and the unfolding of a recursive function from the
well-foundedness of the order. The proofs about the tokenizer and the parser rest
on the same two facts.

**Inference.** The invariant says at each point of `invoke` what the batch is
(`BatchInv`), which event was the last and how many tokens went out (`LogInv`),
whether a completion was dispatched (`OutcomeInv`), for which batch the graph was
built (`GraphInv`), which positions are computed (`FilledInv`) and what the
collector has (`MetricsInv`). `past_tokens` stays at 0 for one iteration more when
the prompt is empty, which is why a prefill may come back after token 0 in
`RunProtocol`. The refinement maps every `Dispatch` to `Emit` of its event.
`TopKCorrect` takes from `partial_sort` only what the standard promises: a token
better than the last of the k in front can only be at one of the k - 1 places before
it, so there are fewer than k.

**Session.** A session is at one of fourteen stages (`Calm`, `Streaming`), each
with what is in the strand besides flushes, which may be anywhere, and with what is
on the socket (`StrandIs`, `SocketIs`). While it streams, the queue holds the items
from `Popped + 1` to `Pushed` of the stream (`StreamInv`), and the item on the
socket or last on the wire is item `Popped`; between two streams no run can push
and a late flush finds nothing to do (`CalmInv`). `HeaderInv` says when
`header_sent_` tells the truth: not before the handler of `initiate_streaming` has
run, which is the race of *session_header*. The invariant is therefore a
disjunction: a chunk without its header is on the wire (`Spoilt`, which stays), or
the session is `Orderly`. `HeaderFirst` excludes the first.

**ChatServer.** The invariant follows each chat's callback through the map of the
dispatcher (`MapInv`), says that a dispatch under way calls at most the callback of
the active chat (`DispatchInv`), and counts the events delivered against the
events emitted (`DeliveryInv`). The callback reads `chat_id` from a dead frame, so
another chat may be cut off; the invariant holds of every chat with its
exceptions, the sets `cut` and `strayed`.

**ModelLoader.** Mappings are numbered by their calls; `IInv` says whose each
mapping is at each point of `load`. The three theorems about resources use nothing
of what the parser reads: they hold for any content of the files.

The other four follow the parser. A sequence of fields is `Laid` on a tape from one
offset to another when each begins where the one before it ends; a whole file is
laid on its own tape (`TapeLaid`: no two fields of one kind begin at the same
offset, though fields of width zero exist), and what is laid can be cut where its
parts meet. From that, each `from_ptr` reads its string, element, array, entry
or tensor entry, and `size()` answers its width (`StringRead` to `TensorRead`;
arrays by induction over the elements), because in a file of `FilesWithinInt` the
width of an entry and of each of its parts is its extent on the tape (`LaidExtent`),
which the conversion to int leaves as it is (`ToIntIs`). `Cut` are the offsets of the entries;
`FileInv` says that `cur` is the cut of the number of entries read, that the maps
hold the first entries of their keys so far, and, of the installed model, that it is
that of its file. `ParserInStep` is then immediate; `TensorsCorrect` needs that the
formula of `align_address` gives the only aligned address in reach, and the same
from an address as from an offset because pages are aligned; `AnswersCorrect` adds
that the last answer is a call on the installed model (`AnswerInv`) and, for each
outcome of a reading, which types of the entry lead to it (`NumbersRead`, `OutcomeIs`).
`FileInv` says where the parser is (`ParserInv`) only of a file whose entries an int
can count.
`GraphCorrect` follows the shapes through a block (`BlockFits`) and, by induction,
through all blocks (`GraphFits`). It holds for configurations whose number of heads
divides the embedding and whose key heads divide the heads (`QwenConfig`); without
that, the reshape in `GroupedAttentionHead::forward` does not fit.

**Tokenizer.** `Scanned` says that `pretext` is the text just before `start`, that
the trie finds no special token at any of its offsets, and that a token found is the
longest at `start`; that the trie finds the longest special token is an induction
over the nodes on its path. `Covered` tiles the text: the tokens pushed, what is left
of the merges in hand, the chunks and `pretext` are consecutive parts of the text, each
token the image of its part under the byte map, whose inverse `decode` uses.
`Merging` says that GPT-2 makes of the piece in hand what it makes of the whole chunk.
It is kept because merging the leftmost pair of least rank leaves no pair of a lesser
rank (the result of a merge is new, so pairs with it come later in the table), and
so the rounds of the code that merge this pair add up to one round of GPT-2.

Only model-checked: liveness (`EveryTaskAnswered`, `StopReturns`, `CallsReturn`,
`RunEnds`, `StreamEnds`, `EveryChatAnswered`, `EveryConnectionAccepted`,
`ShutdownEnds`, `TokenizeEnds`), which needs fairness and is out of reach of the
prover. The five runs that show a violation are counterexamples and need no proof.

## What is not modelled

* `top_p_sample_` of the sampler, which nothing calls.
* **KV cache** (`src/kv_cache/`): under construction (README.md:204 lists it as open).
  Its callers do not compile against it: the constructor is private while
  `Inference` uses `make_unique`, `write_kv` has no argument for the positions,
  `get_slice` is declared with another result and returns nothing, and `max_len`
  is missing. Taken alone it does nothing that could be checked: `instance_` is not
  static, and the tables are reserved but never resized, so that `alloc_block`
  never finds a block. There is no behaviour to compare a model with.
* **Numbers in tensors**: norms, activations, rotary embedding and quantisation are
  computed by ggml; `Block` (`layers/block.cpp`) is used nowhere.
* **Debugging output** (`src/engine/debug.cpp`): prints tensors, changes no state.
* **Command-line and debugging tools**: input and output; the CLI is written
  against an older interface of the dispatcher. Only how it reads and resets the
  metrics after an answer is modelled (`Report` in `Inference`).
* ggml, Boost.Asio/Beast, the regex library and the operating system are external:
  their outcomes are choices of the models.

## Plan

1. Core (done): `Worker` with its service, proofs, `EventDispatcher`, `Inference`,
   `Sampler`, `Session`, `ChatServer`, `Tokenizer`, `ModelLoader`.
2. Extend (done): `Metrics`, positions and mask in `Inference`, the acceptor in
   `ChatServer`, the accessors in `GGUF` and the compute graph in `Layers`.
3. Prove (done): the invariants, action properties and refinements of every module,
   the parser, the graph and the tokenizer included.
4. Open: what the code leaves open. Once the KV cache compiles with its callers, it
   gets a module of its own, and `Layers` and `Inference` take its blocks instead of
   one tensor for the context.
