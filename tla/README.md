# A TLA+ development of the GPU service

The repository is a set of Python inference services behind one NGINX gateway:
object detection over gRPC (YOLO), two speech synthesisers over WebSocket (a
streaming CosyVoice3 and a segment-based CosyVoice 300M), speech recognition,
a VLM, a reranker/embedder, a monitor and a process manager.  Most of the
inference is vendor code.  What the repository itself adds, and what this
directory specifies, is the concurrency around it: queues, batches, sessions,
deadlines, cancellation, shutdown and the single GPU slot.

Paths below are relative to the repository.  `PROJECT.json` is the index: the
components, the runs, the source lines behind every definition, the
hazards and the theorems.

| module | what it is |
| --- | --- |
| `InferenceScheduler` | the micro-batching scheduler of the detector |
| `InferenceScheduler_proofs` | its type invariant, six safety invariants, one action property, proved |
| `SegmentFifo` | abstract: what a 300M session promises its client |
| `SegmentPipeline` | the 300M session: receiver, worker, supervisor; implements `SegmentFifo` |
| `SegmentPipeline_proofs` | all its invariants and the refinement of `SegmentFifo`, proved |
| `SegmentSession` | the 300M client composed with `SegmentPipeline` over a connection |
| `SegmentSession_proofs` | both its invariants, and the refinement of `SegmentFifo` with this client, proved |
| `BistreamSession` | the CosyVoice3 session: coroutine, text bridge, vendor generator, slot |
| `BistreamClient` | its client (reader, sender, canceller), composed with the session |
| `BistreamClient_proofs` | all invariants of session and client, proved |
| `SnapshotStore` | the monitor's snapshot store: sampler and forced refreshes |
| `SnapshotStore_proofs` | its type invariant and the ownership of `refreshing`, proved |
| `HistogramWindow` | the monitor's rolling latency window over cumulative counters |
| `DetectorService` | the detector's process: start, stop, health, `Detect` streams on a pool |
| `PacedFrames` | the pacing generator of the continuous detector client |
| `GatewayManager` | the process manager: overlapping invocations, kills, reused pids, reboots |
| `GatewayRoutes` | the NGINX configuration `render()` writes, and what NGINX makes of requests |
| `Gateway_proofs` | their type invariants, three safety invariants, two action properties, proved |
| `Provisioning` | the key file and the fixed voice that several programs create and read |
| `TextSubdivision` | how the 300M engine cuts a text part for the speech model |
| `Speech_proofs` | the agreement of everybody who holds key or voice; the pieces of a text, proved |
| `MCServices` | the seven modules above side by side, see section 8 |
| `Services_proofs` | the detector's graceful shutdown and its threads, the pace of `PacedFrames`, the telemetry window, the types of all seven machines, proved |
| `MC*` | finite instances and configurations for TLC |

In each module an operator that begins with the comment "A slip" is a
plausible mistake in the code, put beside the definition it would replace.
The specifications never use them; they show that a property would notice.


## 1. Inventory

### YOLO scheduler: `yolov5v70-service/src/gpu_detector/scheduler.py`

State: `_accepting` and the lock that guards it, a bounded `queue.Queue`, one
`Future` and one deadline per frame, the worker thread with its batch.
Operations: `start`, `submit` (from many gRPC threads), `close` (from any
thread), and in the worker `_run`, `_process_batch`, `_reject_remaining`.
Interaction: `submit` puts a frame in the queue and waits on its future; the
worker claims futures, calls `detector.detect_batch` once per batch and settles
them; `close` sends `_STOP` through the same queue and joins the thread.
Hard: a submit racing a close; a caller's `cancel()` racing the claim; a
deadline expiring at any moment; `_STOP` met in the middle of a batch; a full
queue in front of `_STOP`; one exception for a whole batch.
Correct when: every admitted frame is answered exactly once and truthfully,
the worker thread cannot be killed by a future's state, shutdown drains.

### YOLO service and lifecycle: `application.py`, `grpc_server.py`, `health.py`

State: `_started`, readiness and liveness, the gRPC server's pool of
`grpc_workers` threads.  Operations: `start`, `stop`, the `Detect` stream
handler (validate, submit, map the outcome to a `ResultCode`).  Hard: a stream
holds its pool thread while it is idle; `stop` has several steps, and a
timeout in one skips the rest; streams in flight during the grace period.
Correct when: each frame of a stream gets one result in order, stop is
complete or repeatable, readiness is false when admission is closed.

### YOLO clients: `continuous_client.py`, `cpu_client/detector_client.py`

State: frame counters, the next send time.  Hard: pacing when the transport
blocks.  Correct when: frame IDs are matched, no burst follows a stall.

### 300M session: `tts_300m_sft_service/scripts/cosyvoice300m_session.py`, `protocol.py`

State: `active`, `pending`, `pending_characters`, `accepted_ids`, the flags
`started`, `cancelled`, `stopping`, the event `ready`, one `asyncio.Lock`.
Operations: `receive` and `handle` (segment, cancel, close), `work` and
`synthesize`, `stop`, `serve_session`.  Interaction: three tasks over shared
state, the lock kept over socket writes; `next()` on the vendor generator runs
in a thread.  Hard: any two tasks meet at any await; writes time out; a
generator cannot be interrupted, only drained; a client leaves at any moment.
Correct when: the client sees the event order of `contracts/tts-websocket.md`,
limits hold, accepted segments are not forgotten, and the slot is given back
once, after the synthesis.  `tts_300m_service` contains the same session code.

### 300M server and engine: `server.py`, `cosyvoice300m_engine.py`

State: the slot semaphore, the model.  Operations: admission, `synthesize`,
`subdivide`.  Correct when: at most one session holds the slot; subdivision
keeps the text and obeys its limits.

### 300M client: `tts_300m_sft_service/cpu_client/tts_client.py`

State: which segments were sent, accepted, started, ended; a cancellation in
flight.  Hard: a cancellation that crosses `audio.done`.  Correct when it
accepts every event order the server can produce and refuses others.

### CosyVoice3 bistream: `tts_service/scripts/server.py`, `engine.py`

State: the slot, the `TextStream` between event loop and vendor thread, the
utterance's phase.  Operations: start, chunk, end, cancel, disconnect.  Hard:
blocking `append` in a thread while audio and a disconnect are waiting; the
slot acquired before a handshake that may fail.  Correct when: text arrives
once and in order, a cancelled utterance sends nothing more, the slot returns.

### Monitor: `monitor_service/scripts/server.py`, `telemetry.py`

State: the snapshot, its publication time, `refreshing`, a generation, two
locks; per service a window of histogram deltas.  Operations: scheduled
collection, `refresh`, `latest`, `stop`; `update`, `statistics_ms`.  Hard:
collections finish in one order and publish in another; joiners of a refresh
that fails; counters of a restarted service.  Correct when: a forced refresh
answers with a new sample, always returns, and averages never mix processes.

### Gateway: `gateway/service.py`, `configuration.py`

State: one state file per service (`pid`, `start_ticks`), a control lock,
processes and their groups, `nginx.conf` and the candidate it is checked as.  Operations: `start`, `stop`, `status`, `run`,
`reload`.  Hard: a crash between starting a process and recording it; PID
reuse; children that outlive the leader; `run`, which gives up the lock.
Correct when: no service runs twice and no foreign process is signalled.

### Provisioning: `init_key`, `secret`, `prepare_voice`

State: a key file and a voice file shared by installer, service, gateway and
monitor.  Hard: created by one program while another reads; verified long
before it is used.  Correct when: everybody holds the same credential and the
voice that speaks is the pinned one.

### The rest

`asr_service`, `vlm_service` and `rag_service` are launchers and patches of
vendor servers plus one-request clients; the rest of the `service.py` files
verifies packages; `config.py` and `logging_utils.py` validate or format text;
`src/models` and `src/utils`
of the detector are vendored YOLOv5.  They keep no concurrent state of their
own and are not modelled.


## 2. Plan

Done, in this order: the scheduler (the core of the busiest service), the 300M
session with its contract, the snapshot store; then the two clients composed
with their servers (`SegmentSession`, `BistreamClient`), and the machines around
them (`DetectorService`, `GatewayManager`, `GatewayRoutes`, `Provisioning`,
`HistogramWindow`, `TextSubdivision`, `PacedFrames`).

Proved so far, in this order: the scheduler, the snapshot store, the shutdown of
the detector, provisioning; the 300M session with its refinement; the gateway's
manager; the CosyVoice3 session with its client; the gateway's routes; the paced
frames; the 300M session with its client; the pieces of a text; the telemetry
window; the types of all machines of `MCServices`; the 300M contract towards its
client.  Every safety property a run checks is now a theorem; what is left to
TLC is liveness.  What can follow is more of the system rather than more about
it: the vendor's ASR loop, once it is part of the repository, and the
configuration readers.


## 3. InferenceScheduler

**State.** A frame stands for one call of `submit()`: its `future`, whether
its monotonic deadline has passed (`overdue`), and where the call is
(`caller`).  `queue`, `accepting`, `batch`, `active` and `stopAfterBatch` are
the code's.  `closer` is where each `close()` is.  `admitted` and `ran` are
histories that no guard reads.

**Grain.** A step is what no other thread can observe half done.
`submit()` tests `_accepting` and calls `put_nowait` under `_state_lock`, so
`SubmitAccepted` is one step; `close()` clears `_accepting` under the same
lock (`BeginClose`) but puts `_STOP` outside it (`PutStop`), so these are two.
The worker claims one future per step (`Claim`) and tests its deadline in
another (`CheckDeadline`), since a caller may cancel in between.
`Deliver` settles one future per step.  The caller's timeout, its `cancel()`
and its second wait are `WaitTimesOut`, `CancelWins` and `CancelLoses`.

**Detector.** `detect_batch` decodes every frame before the network runs and
raises on the first that fails: `DetectRejects`.  Otherwise the network runs
(`DetectRuns`), with results or an exception; `DetectFailsEarly` is an
exception before it.  Pixels, boxes and the numbers are left out.

**Time.** No clock: `DeadlinePasses(f)` may happen at any moment after
admission, which covers every relation between clock, batch window
(`StopFilling`) and close timeout (`CloseTimesOut`).

**Properties.**

- `NoAbandonedFrame`: an unsettled future always belongs to a frame that a
  running worker holds.  Without a deadline `submit()` waits without a
  timeout, so one lost frame would hang a gRPC thread for good.
- `NoFrameBehindStop`: nothing is queued behind `_STOP`.
- `ClaimedFramesStayClaimed`: the worker settles only running futures, hence
  never dies of `InvalidStateError`.
- `RefusedFramesNeverRun`: a frame answered late, refused or invalid was not
  and will not be computed.
- `RunsFollowAdmission`: frames are computed in admission order, once each.
- `CloseReturnsDrained`: when `close()` returns normally the worker is gone,
  everything is answered and admission stays closed.
- `FuturesAreFinal` (action property): a settled future does not change.
- `EveryCallReturns`, `StopEndsWorker` (liveness).

**Runs.** `scheduler_safety`: three frames, one undecodable, one close, a queue
of two, batches of two, window and deadline on.  Three frames is the least
that leaves one queued behind a running batch and finds the queue full for
another call or for `_STOP`.  `f1` and `f2` are interchangeable good frames,
so symmetry over them is sound for these properties.  `scheduler_live`: two
frames, two closes (a second `_STOP` reaches `_reject_remaining`), a queue of
one, no symmetry.  `scheduler_invalid` checks `InvalidMeansThisFrame` and
finds it violated, see section 9.

**Fairness.** Weak fairness of the worker and of each admitted caller: both
are runnable threads, and `detect_batch` is assumed to return.  Nothing
forces a submit, a deadline, a close or its timeout; `StopEndsWorker`
therefore starts from a `_STOP` that is in the queue.

**Deadlock check** is off: a drained, closed scheduler rightly stops.


## 4. SegmentFifo and SegmentPipeline

`SegmentFifo` states the contract without tasks, locks or limits: `waiting`,
`speaking`, `cancelling`, and which event may go out when.  Both modules
describe output as `wire`, the latest event on the socket and a bit that flips
at each write.  A refinement compares the writes step by step, so the whole
event order is compared although no log is kept.

**State and steps.** An action of `SegmentPipeline` is the code between two
awaits that can suspend.  `lock` names the task that keeps the pipeline lock
over a write; a task that takes and leaves it between awaits needs no state.
Receiver: `Receive`, `HandleSegment` then `AckWritten` (the admission takes
effect after the acknowledgement), `HandleCancel`, `HandleClose`,
`HandleError` then `ErrorWritten`, and its ends.  Worker: `BeginSegment`,
`StartWritten`, `NextChunk`/`NextDone`/`NextFails` (a thread returns),
`ChunkWritten`, `Drained`, `BeginEnd`, `EndWritten`.  While a failure unwinds
(`Unwound`) `close_iterator` is awaited before `stop()` runs, and the receiver
goes on accepting meanwhile; the model keeps that interval.  Supervisor:
`Supervise` (first task ended: stop, cancel the receiver, whose write may or
may not have gone out) and `Release` (worker ended too: report, close, free).
The peer sends anything at any time and leaves when it likes; a write fails by
timeout, or because the peer left.  Two simplifications: a write that timed out
counts as not sent, although the transport may have taken it; and an error of its
own that the receiver meets just as `Supervise` cancels it, which `stop_task`
raises again (`protocol.py:99-106`), is left out - the worker has ended by then.

`BeginSegment` follows the code in handling `ready` with no active segment;
TLC shows that branch is never taken, the code's test is a safeguard.

**Refinement.** A segment promoted to `active` but not yet started counts as
`waiting`; `speaking` is the active segment once `audio.start` was written;
`open` is `~stopping`.

**Properties.** `KeepsContract` (the refinement); `QueueWithinLimits`
(`pending_characters`, updated by hand in five places, is the sum of what
waits, and neither limit is exceeded); `SlotOutlivesSynthesis`;
`SessionEndsWithCause` (the client left or closed, or a task failed; and the idle
timeout ends only a session with nothing active or waiting); liveness
`EveryAcceptedSegmentEnds` and `DisconnectFreesSlot`.

**Runs.** `segment_pipeline`: four IDs, one as long as the character limit,
at most two waiting, one chunk each, four messages: two segments can wait
behind an active one, each limit refuses a segment the other would admit, and
a message after them can cancel, close or repeat an ID.  `a`, `b` and `d` have
the same size and are interchangeable.  `segment_live`: two IDs, three messages, a
queue of one.  `MaxMessages` and `MaxChunks` bound the peer's messages and a
segment's chunks; every position of a cancellation relative to start, chunk
and end occurs with one chunk.

**Fairness.** Weak fairness of the receiver, the worker and the supervisor:
the event loop runs every ready task, a write is bounded by the output
timeout, and `next()` is assumed to return.  The idle timeout is outside the
fair steps, so no liveness result leans on it.


## 5. SnapshotStore

**State and steps.** A sample is the number of the `collect()` call that took
it.  `_scheduled_collect()` is four steps: enter `collect_lock` and begin,
leave it with a result or an exception, publish under the condition's lock.
`refresh()` is its critical sections: `Refresh` (set `refreshing` or join),
`Settle` (the finally block), `ReadLatest` (a section of its own).  A joiner
wakes when the generation moved on, or times out.  `recent` says whether
`published_at` is within `stale_after`; `GoesStale` may happen at any moment.

**Properties.** `TypeOK` includes that no thread holds a sample not yet begun
and no joiner waits for a generation ahead of the store's.
`RefreshingIsOwned`: `refreshing` is set exactly while one
call owns it.  `EveryRefreshReturns` (liveness).  `RefreshSeesNewSample`: a
refresh that collected for itself answers with a sample begun after it was
called; violated, see section 9.

**Runs.** `snapshot_store`: two refreshes, three scheduled collections, any
collection may fail; one refresh can join the other or follow it, with the
sampler before, between and after.  `snapshot_fresh`: two scheduled
collections suffice for the counterexample.  `MaxRounds` bounds the sampler.

**Fairness.** Weak fairness of each thread (the server's HTTP handler threads
and the sampler; `collect()` returns because every upstream request has a
timeout), strong fairness of taking `collect_lock`: a `threading.Lock` makes no
promise, but the sampler leaves it free for most of each interval.


## 6. The sessions with their clients

**SegmentSession** composes `SegmentPipeline` with
`tts_300m_sft_service/cpu_client/tts_client.py`.  `inbox` is the server's end of
one direction; `outbox` is the other, fed with every write of the server
(`Serves`).  `view` is what the client believes: `_segments` in order,
`_accepted_ids`, `_audio_segment`, `_segment_cancel`.  `Reads` is
`_segment_frame()`, one definition per event, each of which raises ("misled")
where the code does.  A sending thread registers a message under the state lock
and sends it in another step (`holding`); a receiving thread reads one event.

- `OnlyOversizedMisleads`: the client's order checks never refuse what a server
  that did not fail writes, also when a cancellation crosses the end, but for
  one answer: a segment whose message exceeds `max_message_bytes` (`Oversized`;
  the client asks only that a text is not empty) is refused without its ID, the
  client cannot place that and gives up (`link` is `"uncorrelated"`).  That
  segment is then still among the unfinished ones it reports.  Section 9 says
  what the contract promises instead.
- `ViewsAgree`: with the events in flight applied, the client's view is the
  server's queue, unless an uncorrelated refusal is among them.  This is what
  makes `unfinished_segment_ids` right.
- `CancelIsAnswered` (liveness): confirmed, or refused for being late.

`segment_session` has two segments of which the longer is refused while the
other one is active, a third too large for a message, a queue of one and four
messages: enough to send, cancel, send a rejected ID again and close, in every
order against the server.  Texts are assumed to be encodable: `send()` of a lone
surrogate raises after the segment was registered (`tts_client.py:156`).  Fair
are the three server tasks, the client's reader and a message already
registered; nothing obliges the caller to send or cancel.

**BistreamSession** is `tts_service/scripts/server.py` with the `TextStream` and
`synthesize` of `engine.py`.  The coroutine is one process whose `phase` says
which await it is in; `append` runs in a thread, so the coroutine waits for it
(`AppendText`) while the vendor reads.  `TakeMessage` and `TakeOutput` are the
two outcomes of `asyncio.wait`, the message first, as in the code.  Every write
is a phase of its own and may fail (`WriteFails`).  `CleanUp` is the finally
block: the running `next()` and the generator are waited for before anything
is sent.  The vendor ends with its text, raises on cancelled text, and may stop
or raise at any moment (`VendorBreaks`).

**BistreamClient** adds `synthesize()` with its sender thread, `cancel_active()`
from a third thread, `close()` and `connect()`.  `heard` is the utterance ID the
caller can cancel, known only after `audio.start`.

- `NoUnexpectedSequence`: the reader never meets an event out of place.
- `GeneratorsNeverOverlap`: no second utterance, and no other session, before
  the last generator is drained.
- `DoneMeansSpoken`: `audio.done` is written only after all text of the call
  was sent, received and read.
- `CancelledCallEnds`, `AcceptedSessionFreesSlot` (liveness).
- `ReusableAfterCancel`: violated, see section 9.

`bistream`: two calls of up to two texts, two connections, a bridge of one
text, so `append` blocks, one chunk per utterance, texts the server refuses.
Two calls are the least in which something of the first can reach the second.
`bistream_reuse`: one connection, one text per call.

Fair are the coroutine, the vendor's threads, the reader, a cancellation once
requested, and a text once taken.  The source of the text need not supply any:
only a sender that a cancellation wakes must move.  Write timeouts and the
`VendorBreaks` are never forced.  The input timeout is the code's own
`wait_for`, so a client that says nothing for ever does not stop an utterance.


## 7. What each machine in MCServices is

**GatewayManager** (`gateway/service.py`).  A manager is one invocation.  Its
steps are the code between two effects others can see: read the configuration,
take the lock, look, render and check, publish, `Popen`, truncate the record,
write it, poll, signal, wait.  It may be killed before any of them (`Dies`;
the kernel frees the lock).  Processes end, wait as zombies, are reaped, and
their pids go to strangers or to workers that inherited the mark (`Other`).
`Reboot` keeps files and restarts pids and start times.  The
kernel may hand out a pid again between a look and the signal that follows it.
`OneKnownLeader`, `StoppedMeansGone` and `SignalsOnlyOwn` are about all of that
together.  The last excepts the one case `stop()` cannot see: the process ended
since the look and one that started later got its pid, which is then signalled
if it leads a group; TLC reaches that state.  A process that bears the service's
mark counts as the service's own, also an unrecorded foreground run whose pid
and start time agree with a stale record.  `ConfChecked` says the configuration
NGINX finds passed `nginx -t`.
The first two speak of processes whose record was written: the orphan of a
manager killed after `Popen` is known to nobody, in the model as in the code.

**GatewayRoutes** (`gateway/configuration.py`).  The locations as records: path,
method, service, whose credential is set, whether connections are counted.
NGINX is external: the server's test, the location, `limit_conn`,
`limit_except`, the proxy, in that order; headers are inherited only by a
location that sets none.  (A gRPC call over the limit gets status 8 by
`@grpc_limited`, counted as 429 here.)  `EachServiceItsKey`: a service gets its
own credential and never the public one, and never more requests than slots.

**Provisioning** (`init_key` of every `service.py`, `secret`, `prepare_voice`,
`config`, the server's start).  Programs of five roles over one key file and one
voice file, each of which may die and be run again; `exists`, `create`, `write` and
`read` are separate steps, and so are opening, writing, comparing and publishing
the voice.  Nothing keeps `prepare-voice` from being run twice at once, and both
runs write the same temporary name: `pFile` says where a run's open file has got
to, the draft, the voice another run published of it, or a file without a name.
`HoldersAgree` therefore has two halves.  The credentials agree however the
programs overlap.  The voice a server registers is the pinned one as long as no
two preparations had the draft at once (`pOverlapped`); without that condition
TLC shows a server that loads another.  Two remarks: a program killed
between create and write leaves an empty key that every later check refuses,
and a monitor that starts in that moment keeps an empty credential.

**DetectorService** (`application.py`, `main.py`, `grpc_server.py`, `health.py`).
`main()` walks through `start()`, its except clause, `stop()`; calls wait for
one of `Workers` threads and hold it until their requests end.  The scheduler is
reduced to what `InferenceScheduler` establishes: it answers what it admitted
and refuses once closed.  `ShutdownIsGraceful`: "detector is shutting down" is
answered only to a call that was cancelled, by its client or by the end of the
grace period (gRPC waits no longer for either), and readiness implies a serving gRPC server and an open scheduler.

**HistogramWindow** (`telemetry.py`).  `hLog` is everything the service observed,
with the time and the life of the process; `ParseHistogram` is what its
counters show of it.  The collector fetches, waits for the slowest service, and
updates the window with the later time.  `Infinity` stands for the bound `+Inf`
of the last bucket, above every latency.  An interval of the window carries, as
history, which part of the log its two samples enclose (`from`, `to`); the code
keeps no such thing and no action reads it.  `WindowTellsTruth` compares count,
average and the 95th percentile with the log.  The lower bounds hold of services
that publish their start time; without it a restart whose counters have
outgrown the old ones is taken for progress, and only the upper bound remains.

**TextSubdivision** (`cosyvoice300m_engine.py`).  Every part of up to five
characters of five classes: Chinese, letter, a character of several tokens, comma
or space, full stop.  The vendor's tokenizer is idealised: a run of letters is one
token, and a longer text never has fewer tokens than its beginning.  `PartsFit`: nothing is
lost or moved, pieces fit the limit, and no piece is shorter than limit or comma
made it.

**PacedFrames** (`continuous_client.py`).  The generator, a clock, and a stream
that may hold it at `yield` for any time.  `FramesArePaced`: never three frames
within one interval, none early, streams take turns without gaps.


## 8. The run `services`

These machines share no state with each other, so a product of them would show
nothing the parts do not.  `MCServices` chooses one at the start (`machine`)
and leaves the others where they began; one run explores the sum of the seven
state spaces and checks every property in all of it.  `MachinesTypeOK` is the
type invariant of the chosen machine.

Bounds: two managers, two pids, NGINX and one algorithm (only NGINX is started
by `start`; the algorithm comes by `run` and goes by `stop`, whose code is the
same), one edit to a configuration NGINX refuses, two start times per boot, one
reboot: a stale record, a reused pid and an equal start time all occur.  Two
requests, a limit of one (YOLO two).  One server, one `init`, one gateway, one
monitor, two runs of `prepare-voice`, each of which may be started again.  Two Detect streams of two frames
over one thread.  Four time units, three observations, a window of two, gaps and
delays of one, one restart.  A limit of three units, a wide character of four
tokens, so that the "oversized character" error happens; the run
`subdivision_punctuation` makes all characters one token.  Seven time units of
frames, two streams.  Managers and pids are interchangeable, hence the symmetry;
no liveness is checked in this run, and none of these machines is given
fairness.  Deadlock checking is off: the machines may rest.


## 9. Where the code and its documents part

- `scheduler_invalid`.  With `DETECTOR_BATCH_SIZE` above 1 (default 1,
  `yolov5v70-service/docs/operations.md:148`) one undecodable frame makes
  `detect_batch` raise, and `scheduler.py:184` hands that exception to the
  whole batch: a good frame of another stream is answered `INVALID_FRAME`,
  which `contracts/yolo-grpc.md:68` reserves for a frame with invalid fields,
  JPEG or size.  The contract (lines 58-59) describes batches of one as the
  present deployment, where this cannot occur.
- `snapshot_fresh`.  `server.py:61` publishes after `collect_lock` was left.
  A sampler that has collected, but is not yet in the condition, overwrites
  the newer sample of a refresh that collected and published meanwhile, and
  that refresh returns the old one.  `contracts/openapi.yaml:494` promises the
  new snapshot.
- `bistream_reuse`.  `cancel_active()` (`tts_client.py:290`) is documented to keep
  the WebSocket reusable.  When its `response.cancel` crosses `audio.done`, the
  idle server answers it with a non-fatal `invalid_state`; the call has ended
  normally by then, and the next `synthesize()` reads that answer first, raises
  and disconnects.
- `subdivision_punctuation`.  `subdivide()` keeps punctuation alone from the
  model (`cosyvoice300m_engine.py:105-107`), but asks per native part, before
  the part is split.  A leading comma, or the full stop of a sentence one unit
  over the limit, becomes a piece of its own and is synthesised.
- A remark without a run of its own: the 300M client asks only that a text is not
  empty (`tts_client.py:301-304`), so the message of a long one can exceed
  `max_message_bytes`.  `receive_message()` refuses it as `message_too_large`, not
  fatal, before it has read a segment ID (`protocol.py:88-89`); the client raises
  "TTS returned an uncorrelated rejection" and disconnects (`tts_client.py:212-213`),
  although `contracts/tts-websocket.md:219,236` gives the code as not fatal and says
  such errors do not close the connection.  `OnlyOversizedMisleads` (section 6)
  says that this is the only such case, and what the client still reports.
- Another: two runs of `prepare-voice` at once write one temporary file
  (`tts_service/scripts/service.py:570-577`) and can publish a voice that was never
  compared, over one a server has verified (`Provisioning`, section 7).
- Another: `stop` signals the pid it looked at without looking again
  (`gateway/service.py:182-188`), so a process that got the pid in between may be
  signalled in its place.
- Another: `realtime()` (`tts_service/scripts/server.py:431`)
  takes the slot, then accepts the handshake outside the `try` that releases
  it; `AcceptFails` is that leak.
- Two more: `reload` sends SIGHUP to a pid it looked at before it rendered and
  checked a configuration (`gateway/service.py:250-254`), and `stop` waits for
  the group's leader only.
- A remark without a run: the comment at `scheduler.py:101` says that when
  `cancel()` fails the worker accepted the frame before its deadline.  The
  worker may also have claimed it just after the deadline and be about to
  answer it expired; the second wait is right in both cases.


## 10. Proofs

All proofs are for arbitrary constants: any set of callers and closers, any
queue and batch size, any set of refreshes, any number of rounds, any calls on
any pool, any programs in any roles, any segments and limits of a session, any
number of calls, texts and connections of a client, any managers, services and
pids, any requests and slots, any rate of frames, texts of any length and any
limit, any latencies, buckets, restarts and delays of a service.  They assume only the named
assumptions of the modules (`FramesAssumption`, `LimitsAssumption`,
`ThreadsAssumption`, `RoundsAssumption`, `DetectorAssumption`,
`ProvisioningAssumption`, `IdsAssumption`, `BoundsAssumption`,
`SessionAssumption`, `ClientAssumption`, `ManagerAssumption`,
`MarkersAssumption`, `RoutesAssumption`, `PacedAssumption`,
`SubdivisionAssumption`, `WindowAssumption`), which TLC evaluates
in the runs.  The constants that bound a model (`MaxRounds`, `MaxCalls`, ...)
are arbitrary too.

**InferenceScheduler_proofs.** Five layers, each inductive relative to the
ones before:

1. `TypeInv`: `TypeOK` and `Phases`, which bounds `batch` and `active` in each
   phase of the worker.  Types alone are not inductive: `Head(batch)` needs a
   non-empty batch, and the batch limit needs to know where frames may be.
   Gives `TypeCorrect`.
2. `Admission`: while `_accepting` is set no `_STOP` is in the queue and the
   worker is not on its way out; a closer past its first section finds
   admission closed.  `NoFrameBehindStop` follows only with these: the
   invariant speaks of the queue, the reason lies in the lock that makes test
   and put one step.  Gives `StopIsLast`.
3. `Places`: every unsettled frame is in exactly one of queue, batch and
   active list, and its future's state fits the place.  Uniqueness is what
   keeps a settled frame from being met again.  Gives `ClaimsHold`,
   `NobodyAbandoned` and `CloseDrains` (the last with layer 2).
4. `Answers`: what ran and what was refused exclude each other, with the
   batch in between.  Gives `RefusalsAreTrue`.
5. `Ordered`: queue, batch, active list and what ran are each in the order of
   admission, and every one of them is before the next; a batch that is being
   delivered is already part of what ran.  `RunsFollowAdmission` speaks of the
   last of these places only.  Gives `RunsInOrder`, with the fact that no frame
   runs twice.

`FuturesFinal` proves the action property from `Places`.

**SnapshotStore_proofs.** `TypeInv` strengthens `TypeOK` with the sampler's
share of `MaxRounds`: a collection is counted when it ends, so while it runs
the bound is not yet reached.  `OneOwner` proves `RefreshingIsOwned`, which is
inductive as it stands, given the types.

**Services_proofs**, of the detector. `ShutdownIsGraceful` speaks of what a client was
told; the reason lies in the order of `start()` and `stop()`.  `GraceInv` adds
it: `Order` says which of server and scheduler is open while `main` is at each
step, `Grace` that a call still open after the wait for the gRPC server is one
the end of the grace cancelled.  `ServesGrace` shows once what a handler may do
to its own call, and every action of a handler is an instance of it.
`DetectorTyped` adds that no more calls are served than there are threads: the
bound is on a cardinality, so `ServedInv` carries the finiteness of `Served` with
it, whatever `Streams` is.

**Services_proofs**, of the telemetry window.  `WindowTellsTruth` speaks of what the
window adds up to; `HistogramInv` says, sample by sample and interval by interval,
why that is so:

- `LogInv`: the log is of its type, and nothing in it is of later than now or of
  a later life;
- `Sampled`, of the answer being waited for (`FetchedInv`) and of the previous
  sample (`PreviousInv`): it shows the counters of one life over a beginning of the
  log, everything behind it is of that life or a later one, and it is taken for
  at most `MaxDelay` younger than it is;
- `Spans`, of every interval: it counts at most what was logged between its
  samples, none of it older than the longest gap and the longest wait, and of a
  service that publishes its start time exactly that, with exactly its latencies;
- `Ordered`: the intervals do not overlap and, of such a service, leave nothing
  out; `CompleteInv`: the last one ends where the previous sample did, and what
  lies before the first is older than the window or than the last reset.

Without start times the counters of two lives can be subtracted from each other.
`CountersGrow` and `DifferenceSpans` show that the difference is still at most the
number of observations in between: the old counters are not negative, and all
that the new ones count was observed since the restart.  That is why the upper
bound survives and the lower ones do not.  `WindowSums` adds the intervals up:
`Telescope` (the lengths of stretches one behind the other add up to at most the
length of it all, and to exactly that without gaps), `SumBetween` (a sum lies
between as many times its least and its greatest term, which puts the average
among the latencies) and `QuantileInBucket` (the rank
lies strictly above the bucket before and not above the chosen one, so the
interpolation stays inside).  What `SumOf` and `Newer` compute is proved by
induction over the length (`SumIs`, `NewerIsSlice`: pruning keeps a tail, because
the times never fall).  Gives `WindowTyped` and `WindowTrue`.

**Services_proofs**, of all machines.  `MachinesInv` says that the machine a behaviour
is about keeps its own inductive invariant; a step of one machine never changes
`machine`, so the seven step lemmas are all there is to cite.  `ProvisioningTypeOK`
is inductive as it stands.  Gives
`ProvisioningTyped` and `MachinesTyped`.

**Speech_proofs**, of provisioning. `ProvisionInv` says why `HoldersAgree` holds:
`KeyOnce` (at most one program is between the creation of the file and the
write, the file never changes after it, and every credential in use is what
the file holds or was read empty), `VoicePinned` (until two preparations overlap,
only one program is past `Derive`, the draft it publishes is the one it compared
and nobody else has open, so a voice once pinned stays so) and `RolesKept`.

**Speech_proofs**, of the pieces of a text.  `TextInv` says that there are places
0 = e[0] < e[1] < ... in the text such that the n-th piece is what lies between
e[n - 1] and e[n] and what remains lies behind the last (`CutAt`); where no
character takes several tokens each piece is also as long as the limit or its
last comma lets it be (`Full`).  Three things carry it.  `LongestPrefixFits`: the
binary search returns the longest prefix within the limit; that the recursive
function exists and what it returns is proved by induction over high - low, as a
fact about the set of the distances for which it is right.  `UnitsGrow`: a longer
prefix has no fewer units, although one Chinese character changes what a unit is;
without it a binary search would mean nothing, and with characters of several
tokens it is false, which is why the second half of `PartsFit` excludes them.
`PiecesFlattened` and `LaterPieces`: the pieces one behind the other are the slice
from the first place to the last.  Gives `PartsTyped` and `PartsAreTheText`.

`Paced`, about `PacedFrames`, needs two facts the property does not state:
`Due` (`next_send` is always an interval past the last frame but one, because it
never falls behind the last one: that is what the reset to `now + interval` is
for) and `InTurn` (whole rounds of the streams were sent and a part of one more).
`OneQuotient` is the uniqueness of quotient and remainder behind `%`.

**SegmentPipeline_proofs.** `Inv` says what each party
relies on: `Locking` (who keeps the lock over a write), `Handled` (what the
receiver knows of its message while it answers it: an admitted one still fits),
`Waiting` (what is in the queue, and when nothing may be), `Working` (what the
worker's place says of the segment it speaks) and `Ending` (who ended first, and
why).  The limits of the queue are not inductive by themselves: the test and the
put are apart by the write of the answer, and only the lock keeps the place
free.  Nor are the other two: that the slot outlives the synthesis, and that a
session ends with a cause, follow from who waits for whom in `Ending`.  Gives `TypeCorrect`,
`Limits`, `SlotSafe` and `CauseKnown`.  `Contract` proves that the session
implements `SegmentFifo`: every step is a step or a stutter of the contract
under the mapping of section 4, given `Inv` before and after it.  The limit on
characters sums over the queue with a recursive function; the lemmas before it
(`LeastElement`, `SetInduction`) prove by induction over the length what that
function is of an appended and a shortened queue.

**BistreamClient_proofs.** The server's coroutine and the client's three threads
see each other only through two FIFO directions, so `Inv` says what may be in
flight:

- `Coroutine`, `Spoken`, `Calls`: what a phase of the coroutine, a state of the
  vendor and a state of the client's threads say of each other;
- `Order`: the events in flight follow on one another and on the last one read,
  up to a failure;
- `Numbered`: utterances are numbered in the order they start, and a number in a
  cancellation has been heard;
- `Asked`, `Heeded`: a cancellation the coroutine acts on is one the client
  asked for, of the utterance it heard, and nothing but PCM precedes the answer;
- `Late`: after a cancellation the sender writes at most once more, before the
  call ends - the one write the server has to swallow;
- `Finishes`: `text.done` is the last message of a call that has not ended.

`Late` is what `NoUnexpectedSequence` rests on: without it a second late write could
meet a server that has swallowed one already.  Gives `TypeCorrect`,
`EventsInOrder`, `OneGenerator` and `DoneIsSpoken`.

**SegmentSession_proofs.** The client's view lags behind the server by the events
in flight, and its own messages are ahead of what the server has read.
`SessionInv` adds to `Inv` that some view `w` exists with

- `Leads(view, outbox, w)`: reading the events in flight one by one, the client
  is never misled and comes to believe `w`;
- `Agrees(w)`: `w` fits the server.  Its first segments are acknowledged
  (`Prefix`) and are those the server works on (`Queue`); the others, and the
  cancellation it waits for, are what the receiver has yet to answer, in this
  order (`Backlog`); it hears what is spoken (`Voice`); and a cancellation is
  carried out only if the client still waits for it and says nothing after it
  (`Mercy`).

Or, once an oversized message was refused, the view is led on only up to that
answer, and its segment will still be waiting then (`Spoilt`); nothing behind it
is read.  A step of the server appends an event that leads `w` on, or nothing.  A step of
the reader takes the first event away.  A message of the sender changes `view`
and `w` alike: `LeadsAdds` and `LeadsCancels` prove that registering commutes with
reading each event - a segment is registered only while nothing is being
cancelled, so no event in flight drops all segments.  Gives `MisledByOversizedOnly`, and with
`FoldedLeads` - the fold over the events is what reading them one by one leads
to - `ViewsMatch`.  This client's close differs from the one of `SegmentPipeline`:
it asks for it and leaves in one step, so what was proved of the pipeline has to
be proved again of the two together: `SlotSafeInSession`, and `ContractInSession`,
the refinement of `SegmentFifo` by client and server.

**Gateway_proofs**, of the manager.  `Recorded` (the record of a service is that of the one
process known to run for it) is what `OneKnownLeader` follows from; it survives
because what a manager knows between its steps is `Sound`: a start that found
nothing running still finds nothing, the process about to be recorded is the one
that was started, the process about to be signalled is the recorded one, is
gone, or started later (`Dated`: start times are in the past).  `Sound` in turn
survives the others because only the manager that holds the lock is past it, also
after a kill.  Gives `TypeCorrect`, `OneLeader`,
`ConfigurationChecked` and the action properties `StoppedIsGone` and
`SignalsOwn`.

**Gateway_proofs**, of the routes.  `RoutesInv`: NGINX runs only with a configuration whose
secrets differ (`Rendered`), what was passed on carries what the location it was
matched with sets (`Admitted`), and the counted zone is finite and within its
limit (`Counted`).  `LocationsSetKeys` is the fact about the text `render()`
writes: the only locations that set no key of their own are the VLM's, which
inherit the server's, and YOLO's health port.  Gives `RequestsKeyed`.

**Only model-checked.** The liveness properties: `EveryCallReturns`,
`StopEndsWorker`, `EveryAcceptedSegmentEnds`, `DisconnectFreesSlot`,
`EveryRefreshReturns`, `CancelledCallEnds`, `AcceptedSessionFreesSlot` and
`CancelIsAnswered`; and the four disagreements with a run in section 9, which are
counterexamples.

**Out of the prover's reach.** Liveness under fairness and `ENABLED`; the
library's induction theorems, which take an operator as a parameter - induction
over numbers is therefore proved here of a set; `RECURSIVE` operators (none are
used).


## 11. Not modelled

- `asr_service`: the session loop is the vendor's and not in the repository.
- `vlm_service`, `rag_service`: launchers of vendor servers and one-request
  clients; the VLM's `start`/`stop` repeat the gateway manager's for one
  service, without a temporary file or a second actor.
- `tts_300m_service`: the same session, server and client code as
  `tts_300m_sft_service`, for the instruct voice; one model stands for both.
- `src/models`, `src/utils` and the training scripts of the detector: vendored
  YOLOv5, numeric, more than half of the lines of the repository.
- Validation, package and source checks, demos, metrics, logging, and
  test-bench programs (`validate_*.py`): no state others could see.
- Monitor: memory by process, the HTTP handler around the store.
- Gateway: timeouts, TLS, body sizes, the development certificate, `status`.

With these left out the map covers about a sixth of all implementation lines
and most of the lines of the services' own concurrent code (scheduler,
sessions, clients, manager, monitor store).

Within the modelled parts: pixel and audio data, texts beyond their length,
log lines and metrics; cancellation of a session's own task from outside (a
server shutdown), which `PROJECT.json` lists as an open hazard.
