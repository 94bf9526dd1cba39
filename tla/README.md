# A TLA+ model of the HECpoc receiver

HECpoc is an HTTP Event Collector receiver in Rust (axum, hyper, tokio): it accepts events on
`/services/collector/event` and `/raw`, authenticates, reads and decodes the body, parses it and hands the
events to a sink (dropped, or appended to a capture file), answers in Splunk's protocol and counts what
happened for `/hec/stats`. This directory models that program in TLA+, checks it with TLC on small instances
and proves theorems about it with TLAPS. Paths below are relative to the root of the repository.

## 1. Inventory

| Component | Source | State it keeps | Operations |
|---|---|---|---|
| capture sink | `src/hec_receiver/sink.rs` | `Mutex<Option<File>>`; inside tokio's `File`, the write in flight | `submit_events`, `write_events` |
| request pipeline | `src/hec_receiver/hec_request.rs` | per request: the future of its handler | `post_event`, `post_raw`, `post_ack`, `health`, `stats` |
| outcome, reason, fact tables | `outcome.rs`, `protocol.rs`, `report.rs` | the configured codes | `HecError::outcome`, `reason`, `reason_from_response` |
| reporter | `report.rs` | which outputs are on | `submit`, `apply_counters` |
| stats | `stats.rs` | nineteen atomics, a map behind a `Mutex` | `add`, `record_latency`, `increment_reason`, `snapshot` |
| body reader, decoder | `body.rs` | per request: bytes collected, two timers | `read_limited_body`, `decode_limited` |
| parsers | `parse_event.rs`, `parse_raw.rs`, `index.rs` | per request: the events so far | `parse_event_body`, `parse_raw_body` |
| health and shutdown | `health.rs`, `main.rs` | `RwLock<Phase>` | `current`, `set_phase`, `shutdown_signal`, `main` |
| authentication | `auth.rs` | the token registry, constant | `authenticate_detailed` |
| configuration | `config.rs` | none after start | `load`, `merge`, validation, `redacted_toml` |
| application state, router | `app.rs`, `mod.rs` | the `Arc<AppState>` shared by all handlers | constructors, `router` |
| raw scanner | `raw_events.rs` | none | `scan_raw_events`, compiled for tests only |
| raw socket verifier | `src/bin/raw_socket_hec.rs` | the run directory; per case a socket and two snapshots | `main`, `run_case`, `read_available`, `stats_delta`, `diagnose` |

**How they interact.** Every connection is a task of tokio's multi-threaded runtime; hyper reads the request head, the
router picks the handler, and hyper polls its future and drops it when the client goes away. A handler calls, in this order: reporter, health,
auth, header checks, `read_limited_body` (await), `decode_limited`, a parser, `Sink::submit_events` (await),
reporter. What handlers share is in `AppState`: the phase, the reporter's `Stats`, and the sink with its file.
tokio's `File` runs each write on a blocking thread. `main` waits in `axum::serve(..).with_graceful_shutdown`. The verifier is a client of all this: a second program that sends prepared
bytes to a running receiver and reads `/hec/stats` before and after.

**What is hard, and what makes each part correct.**

- *Sink.* A `write_all` returns before the bytes are written; its error surfaces in the next write, made perhaps
  by another request. Callers can be dropped at any await, and the process may die and be started again on the same file. Correct means: batches are whole and not
  interleaved, an `Ok` is backed by the file, each failure is reported once, the lock is always handed on.
- *Pipeline.* Many requests, an early return at each check, two awaits at which a request can vanish, a phase read
  once. Correct means: answers, counters, reported facts and the file agree; nothing unauthorized is written;
  whoever was told of the shutdown is not served afterwards; everything ends.
- *Stats.* Relaxed atomics updated one after the other, read one after the other. Correct means: no update
  is lost and a snapshot covers what was finished before it.
- *Body.* Two timers and two limits against a client that controls sizes and arrival. Correct means: bounded
  memory, bounded waiting, and no truncated body taken for a whole one.
- *Parsers.* Several errors compete for one answer. Correct means: the first in stream order wins with its right
  number, and it is all or nothing.
- *Raw scanner.* Meant to take the place of the `split_lines` loop. Correct means: it finds the same lines.
- *Verifier.* Its sleeps and reads race the receiver's idle timeout, and every step of a case can fail. Correct means: a case is charged
  with what its own request did, its verdict follows from that and nothing else, the run always comes to its summary or its error.
- *Configuration and authentication.* Four sources merged field by field and validated as a whole, two ways to name tokens, a
  registry by secret. Correct means: the highest source rules, what is accepted is what the rest of the program
  relies on, every token is reachable and no two are confused, no secret is shown, what is shown is what is in force.

The full list of hazards, each at its line with the properties that cover it, is in `PROJECT.json`.

## 2. Plan

| Step | Modules | State |
|---|---|---|
| 1 | `CaptureLog` (abstract), `CaptureSink` with crash and restart, proofs | done |
| 2 | `HecOutcome`, `Router`, `Receiver` (composes `CaptureSink`), proofs | done |
| 3 | `Stats` with the report's line, proofs | done |
| 4 | `HecParse` with the raw scanner, `BodyReader` with the header checks, proofs | done |
| 5 | `Auth`: registry and header grammar | done |
| 6 | `Config` (over `Auth`): precedence of the four sources, validation, tokens table, `show-config` read back, proofs | done |
| 7 | `RawSocket`: the verifier against the receiver, proofs | done |
| 8 | proofs: `Receiver`'s counters, answers and file; the refinement of `CaptureLog` by `CaptureSink`; `Stats`' snapshot and totals; the lines of `HecParse`; the outcomes of `BodyReader`; the merge and the printing of `Config`; the outcomes and verdicts of `RawSocket` | done |
| 9 | proofs: what the tables of `HecOutcome` and `Router` give for every code and route; a lemma in `Receiver` for each assumption a component makes of another | left |

## 3. The modules

**`CaptureLog`** is what the sink promises, without lock, handle or pending write: a log to which each call
appends the events of its request, in order and without another's in between; `Accept` needs all of them.

**`CaptureSink`** is `FileSink::write_events`. `queue` is the tokio `Mutex` (its head holds it; tokio's is FIFO),
`handle` the `Option<File>`, `op` the `File`'s operation (idle, busy on the blocking pool, done, failed and not
yet reported), `disk` the file. A batch is a sequence of pieces: the buffers each JSON text fills (`Parts`), then
the newline. `WritePiece` is a `write_all` that finds the previous operation well and starts the next;
`WriteFails` is one that finds it failed; `DiskWrites`/`DiskFails` are the blocking thread. `Leave` is hyper
dropping the future, at the lock or between two awaits. `Crash` ends the process with all its calls; the next one (`lives`, at most
`MaxLives`) opens the same file for appending, as the code does, and reads or repairs nothing. Submission and the drop sink are `submit_events`.
The refinement mapping, `LogOf`, reads the log off the file: entry `k` is the text with `k` text ends up to its own, whether or not its newline followed.

**`HecOutcome`** holds the tables: status, code and reason of each `HecError`, the fact that names its cause, the
counter of each fact; and `reason_from_response`, which finds a reason again from a configurable code.

**`Router`** is which handler answers a method on a path, axum's own answers included.

**`Receiver`** runs the pipeline for many requests over `CaptureSink` (by `INSTANCE`). A request is what each check
will find in it (`Input`), chosen on arrival; the handler is cut at each await and after each report that
another thread can see, so actions are `Connect`, `Arrive`, `Elsewhere`, `Ack`, `Admit`, `Authorize`, `CheckHeaders`, `ReadBody`,
`Decode`, `Parse`, `RefuseEvents`, `RefuseRaw`, `SinkReturns`, `SinkErrs`, `Succeed`, `Fail`. `Connect` is a client that has sent a part
of a head; `Arrive` is a complete head the router gives to an endpoint, `Elsewhere` one it gives to health, stats or an error, which report
nothing. `Parse` reports `EVENTS_PARSED` and submits to the sink in the same poll. `Disconnect` happens before there is a handler and at the two
awaits, where the future is suspended, and reports nothing. `Signal` and `Exit` are the shutdown; the server is one process, without `Crash`. `trace` keeps the facts and
reasons reported for each request: the `reasons` map of `/hec/stats` is a count over it. Byte sums count one unit per
body, since only their presence matters here. A sum over requests is the cardinality of a set of pairs (request, number of the event: `EventsOf`), here as in
`BodyReader` (`Sent`) and `Stats` (`NanosOf`): that is a sum the provers can add to. `late` and `told` are history variables.

**`Stats`** refines a report to its atomic steps: `fetch_add` of the counter, `fetch_add` of the latency (with
wrap-around at `Width`), the load and the compare-and-exchange loop of the maximum, the reason, and last the line of the tracing or
console output (`EmitLine`); and a snapshot that loads cells one by one, in any order, since all of it is `Relaxed`. A spurious failure of `compare_exchange_weak`
comes back with the value it already had and is a stutter.

**`BodyReader`** is the checks of Content-Encoding and Content-Length, `read_limited_body` under both timeouts, then `decode_limited`. hyper
hands over no more than an advertised length, and ends a body with an error when it is less. Time is counted in ticks and moves only when
the handler has nothing to do (tokio polls a woken task before the next tick matters). A frame that is ready is taken
before a timer is looked at, as `tokio::time::timeout` polls the inner future first. What a gzip body decodes
to is chosen at the start and unknown to the receiver.

**`HecParse`** steps through a body item by item. An `/event` item is a JSON value, an array's values one by one (a
syntax error inside an array hides all of it, since serde parses the array as one value); a `/raw` item is a piece between
line feeds. `Fault` is the order of checks of `push_envelope`. For `scan_raw_events` an item is a byte (text, blank, carriage return,
line feed) and an event the range of a line.

**`Auth`** has no variables: `FromTokens` is the registry, a map by secret in which the last of two equal secrets stays, and `Authenticate` is
what becomes of a header under it. `Receiver` takes the outcome as an input of a request.

**`Config`** is a run of `main` up to the server: `Load` merges and validates, then `ShowConfig`, `CheckConfig` or `Serve`. A document
is a function from setting names to values, so figment's merge is the overriding of one function by another, and key by key for
the two settings that are tables. `Fault` is the disjunction of everything `to_runtime` refuses; which of several faults is the one reported is left
out. `FromRuntime` is the document that `--show-config` prints.

**`RawSocket`** is the verifier's one thread: per case the request file, a snapshot, the connection, the segments of the case with their
sleeps, the read before and after the write side is shut, a snapshot, the record and its verdict. The receiver is its environment: connections
of earlier cases live on, a handler counts its request when it starts and its outcome before the answer, and waits for a body up to
`Idle`. A tick is 500 ms and passes when all wait. Case 7's delay is an option and takes both sides of `Idle` and
`Idle` itself, where the delay and the receiver's timeout race. Case 8 sends a head with the byte 0xFF in a header value and without a token, and is done. What becomes of it
is not in the code but in hyper: the byte is obs-text, which hyper's parser may take, and a handler then answers 401 and counts; but hyper drops a connection whose client is done before it has
polled a handler (`HECpoc.md:1368` observed no response), and a parser that refuses the byte is answered for by hyper with 400. The model has all three (`HasHead`, `Rejected`). `Observed` has what a
case may show, a status with its counters: one outcome, but two where times are equal and three for case 8; `Judged` has the verdict for it. Apart from the verifier's
own requests the receiver is taken to be idle: the counters of `/hec/stats` are those of everybody, and the program relies on that.

The `MC...` modules give the constants small values. Each property has a variant definition next to the one it would
replace (comment `variant:`), a plausible bug under which the property is violated; `PROJECT.json` lists them.

## 4. What is checked

| Run | Instance | Shows |
|---|---|---|
| `capture_sink` | 3 callers, 1-2 events of 2 buffers, failures, disconnects, a crash and a restart | an `Ok` has its request in the file but for the last newline (`AcceptedOnDisk`); every failed open or write is reported by exactly one call or still pending (`EveryFaultReportedOnce`); undisturbed batches of a process that did not take over a file are on lines of their own (`OwnLinesUndisturbed`) |
| `capture_log` | 2 callers, the same, fair | the sink implements `CaptureLog` (`ImplementsLog`); every call returns (`EveryCallReturns`) |
| `capture_torn` | 2 callers, 1 event, nothing fails | **violated**: see findings |
| `receiver` | 2 requests out of 32 inputs that fail each check or are routed elsewhere, drop sink | the three request counters agree with the requests (`RequestsAccounted`); every failure but a named few has one cause counter (`FailuresByCause`); all reasons reported for a request agree (`ReasonsAgree`); who was told of the shutdown is refused (`LateIsRefused`) |
| `receiver_capture` | 2 requests out of 9 inputs, capture file, failures, fair | event counters (`EventsAccounted`), counters against the file (`WrittenIsOnDisk`), answers against the file (`AnswersMatchFile`), nothing unauthorized in the file (`FileIsAuthorized`); every request that has arrived ends (`EveryRequestEnds`); after ctrl_c the process exits, provided no client leaves a head unfinished (`DrainsToExit`) |
| `stats` | 2 handlers, latencies 1..3, `Width` 5 | `MaxIsMax`, `SnapshotCovers`, `Settled`; every report ends |
| `hec_parse` | bodies of up to 3 items from 9 values, of up to 6 bytes for the scanner, limit 2, 3 tokens | `FirstFaultAnswers`, `AcceptedWhole`, `LinesWhole` |
| `hec_parse_limit` | the same | **violated**: see findings |
| `body_reader` | up to 4 frames of 0, 1 or 4 bytes, a Content-Length of 0, 2, 3, 4, none or unreadable, limit 3; gzip to 0..7 bytes, limit 4; timeouts 2 and 5; fair | `BoundedMemory`, `BoundedTime`, `OutcomeIsTrue`, `EveryBodyEnds` |
| `config` | 9 files and a missing one, 10 command lines, 11 environments, all combinations and all three actions | for each setting, timeout, list, code and level, and for each field of the tokens in force, the highest source rules (`HighestSourceRules`); `MeetsAssumptions`, `IdentifiesItsToken`, `NoSecretShown`, `ShownReloads` |
| `config_shown` | the same | **violated**: see findings |
| `raw_socket` | all 8 cases, `ReadTimeout` 16, `Idle` 10, slow body of 8, 10 or 12 ticks, 2 faults, fair | a case's recorded difference is its own (`DeltaIsOwn`); without an error each case shows its own status and counters, and gets the verdict that goes with them (`CasesDistinguished`); the run ends (`EveryRunEnds`) |

Every module that keeps state has one type invariant, `TypeOK`, checked in its run, but for `Config`: the types of its documents are an assumption
(`ConfigAssumption`), which TLC evaluates, and `MeetsAssumptions` is about what is made of them.

**Why the bounds are enough.** Three callers of the sink are one that leaves or fails, one that meets the consequence, and
one that waits behind both; two events of two buffers have every kind of neighbour (text-text, text-newline,
newline-text), and two processes are one that dies and one that appends to what it left. Two requests are enough for every interleaving of shared counters, phase and sink in which one request's
steps fall between another's; each input fails one check alone, and some fail two, so that the order of checks
shows. Two handlers make every lost update and every retry of the exchange; three latencies are less, equal and more;
`Width` 5 makes the sum wrap (3 + 3). Three items under a limit of two reach the limit and pass it; tokens with no
default, no allow-list and both are all there are. Six bytes hold two lines with a carriage return each, or three lines and what follows. Frames and gzip lengths sit below, at and above both limits, and a
total timeout of 5 against an idle one of 2 lets trickled frames outlive two idle periods. The documents of `Config` set each kind of
setting in each source that can, some are refused alone and accepted together with another, some the reverse; lists, levels and protocol codes are set in several sources at once
with and without common keys, the token under each of its two variables, both, and one of them empty; token tables have one, two and three records, one of three with the secret of the first and not of its neighbour. The verifier runs with its default times, a slow body before, with and after the
idle timeout, and all its cases; two faults are one that
breaks a case and one that meets it again. `MaxFrames`, `MaxItems`, `MaxScanned`, `MaxLives` and `MaxFaults` bound the model alone, everything else the program
bounds. `Quiet` is the end of a bounded behaviour: no run turns the deadlock check off.

**Fairness.** `CaptureSink` and `Receiver` assume weak fairness of each handler's next step (the runtime polls woken
tasks), of the blocking write (the pool runs what it was given, even during the runtime's shutdown: `tokio::fs` spawns its
writes as mandatory) and of `Exit`. A body ends if only by its total timeout, which `BodyReader` shows, so
`ReadBody` is fair: `BodyReader` itself asks only that its handler is polled and that time passes, and nothing of the client. Weak fairness is enough for the lock: a waiter at the head of the queue stays there. Clients and ctrl_c
promise nothing: nothing bounds the time hyper waits for the rest of a head, and that is why `DrainsToExit` has its condition. `Stats` assumes weak fairness of each handler; the exchange loop ends since
the maximum only grows and each failed exchange is another handler's success. `RawSocket` assumes that the verifier's thread runs, that the receiver serves each of its
connections, and that time passes.

## 5. What is proved

Proofs are in the `..._proofs` modules; all hold for every value of the constants that satisfies the named assumptions. Every safety invariant that a passing run
checks, the refinement of `CaptureLog` and every type invariant is proved there. What the assumptions ask is finiteness, the types of limits, and what `Config` accepts
(`AssumptionsMet`); where more is asked, it is said below.

- **`CaptureSink_proofs`** (`SinkAssumption`).
  - `TypeCorrect`, `AcceptedIsOnDisk`. `AcceptedOnDisk` is not inductive: it says nothing of the calls still under way. The
    inductive invariant `IInv` adds to `TypeOK`: `QueueInv` (only pending calls are in the Mutex's queue, each once), `PendingInv` (a call that has handed
    over a piece holds the Mutex, its last piece is the `File`'s operation, all before that one are on disk) and `OpInv` (a done operation is on disk). Since
    a call returns `Ok` only when its last newline has become the operation, everything before that is then on disk. `CrashInv` shows that
    all of it survives a crash: calls that had not returned are gone, and what had been handed over before the piece in flight is on disk.
  - `FaultsReported`: a second induction, which counts failed calls with the library's facts about cardinalities.
  - `Refines`: the sink implements `CaptureLog`. A write that completes a JSON text maps to `AppendEvent`, the return of `Ok` to `Accept`, failing, leaving and
    dying to `GiveUp`, all else stutters. `LoggedInv` ties what the log holds of the present holder to the piece it is at, and that its last event is the log's last;
    `OwnerInv` says whose operation is in flight. The lemmas on `LogOf` (what one more piece does to it) rest on ranks being cardinalities.
  - `LinesUndisturbed`: `LinesInv` says that, while nothing fails, leaves or dies, each piece of the file follows all earlier ones of its request, and these a line end.
- **`Stats_proofs`** (`StatsAssumption`: there are fewer handlers than values of a cell, so that counters, unlike the sum of the latencies, do not wrap). `TypeCorrect`. `MaxCorrect`:
  `LoopInv` says that what the exchange loop has read is never more than what is there now. `SettledCorrect`: `CountInv` makes every counter the number of handlers that
  are past its add, and the sum that of their latencies modulo `Width`. `SnapshotCorrect`: `SnapInv` holds each loaded cell between the handlers that had ended before the snapshot was
  asked for and those that have ended by now.
- **`Receiver_proofs`** (`ReceiverAssumption`), for any number of requests and any inputs.
  - `TypeCorrect`. `LateRefused`: `LateInv` adds that being told implies that the phase is `Stopping` for good. `OnlyAuthorized`: `FileInv` says what a
    handler that got so far has passed (`PassedInv`), and that queue, operation and file are of calls that were made (`OwnersInv`).
  - `AnswersTrue`, `WrittenNeverAhead`: the sink's own `IInv`, proved in `CaptureSink_proofs` and brought here by `INSTANCE`, is an invariant of the pipeline too
    (`NextSink`), `CallInv` says what the pipeline knows of a call to the sink, and `WrittenInv` that `events_written` counts the events of the requests the sink accepted.
    Together they tie an answer and a counter to the bytes in the file.
  - `DrivesSink`: every step of the pipeline is a step of the sink's specification or leaves it alone, so the pipeline uses the sink only as it may. `KeepsLog` draws from this
    and `Refines` that a whole server implements `CaptureLog`.
- **`ReceiverReports_proofs`** (`ReceiverAssumption`).
  - `CountersAddUp`: `AccountInv` ties the three
    counters to the sets of requests that arrived, were accepted and were refused, which needs that no handler fails with "no failure" and that no other
    fact counts in them.
  - `CausesAddUp`: the cause counters together are the number of requests that have a failure with a cause (`ReportInv`); each error path reports one fact that counts as one,
    except a gzip body that is fine. That no request to `/ack` is ever served is an invariant of its own (`ServedInv`).
  - `EventsAddUp`: `EventsInv` says that the observed events are those dropped, written or of a request that is with the sink, was left there or failed there.
  - `ReasonRecovered`: if the codes of the event errors differ (`DistinctCodes`), `reason_from_response` finds the reason again;
    `OneReason` draws from it that all reasons reported for a request agree. The code does not check that the configured codes differ: that is the user's to keep.
- **`HecParse_proofs`** (`ParseAssumption`, `EnvelopeAssumption`). `TypeCorrect`. `FirstFault` and `AllOrNothing`, from `ParseInv`: the events so far are the items
  before `at`, none of which offends. `LinesCorrect`: the events so far are, in order, the text lines before `at`, of the `split_lines` loop (`SplitInv`) and of the scanner
  (`ScanInv`), which is always at the begin of a line. That the next line feed is the least one rests on the well-foundedness of `<`; a body of at most `MaxScanned` bytes has
  finitely many lines.
- **`BodyReader_proofs`** (`BodyAssumption`). `MemoryBounded`, `TimeBounded` and `TypeCorrect`, from `BodyInv` and `KindInv`. `OutcomeTrue`: `HeldInv` says that what is held is the sum of
  the frames taken, and that a body with a length ends only when it is complete, so that an outcome can be held against all that was sent.
- **`Config_proofs`** (`ConfigAssumption`, `AuthAssumption`).
  - `AssumptionsMet` and `TokensIdentified`, from `RunInv`: a configuration that was
    loaded is `Sound`, and a running server has the registry of its tokens. That merging keeps the types of settings, that an unrefused document
    makes sound records, and that the registry of sound records has each under its secret are lemmas. `AssumptionsMet` is what
    `BodyAssumption`, `ParseAssumption` and `ReceiverAssumption` rest on.
  - `PrecedenceCorrect`, `SecretsHidden`, `ShownLoadsAgain`, from `MadeInv`: a configuration is what `ToRuntime` makes of its own sources, and what is printed is made of it. The
    three are then about operators. `PrecedenceCorrect` holds the three merges in a row against a definition that does not merge, the first of four documents to have a key
    (`HighestOfFour`): once for the settings and once for each table (`MergedRules`, `MergedTables`, together `DocumentRules`), with what the variables say (`VariablesGiven`), what a
    text stands for (`SettingsKept`), and the tokens, whose table only the file can have (`TableOfFile`, `RecordRules`). It covers every setting there is, since it also says
    which keys the settings have. The other two rest on what `FromRuntime` prints (`Shows`), and on printing, merging and converting again giving the same record (`ReadsBack`).
- **`RawSocket_proofs`** (`RawSocketAssumption`: no case twice, and a read timeout longer than the receiver's idle timeout), for any selection of cases and any times.
  - `TypeCorrect`, `RecordsOwnDelta`: `IInv` adds that no handler of another case is at work once a case has begun (`OthersSilent`), which
    rests on the reads outwaiting the idle timeout (`Outwaited`), that a socket written to after its close has no handler left (`HurtIsClosed`), and what
    each snapshot has counted (`FreshOK`, `SnapshotsOK`). Without the assumption `DeltaIsOwn` is false: a read timeout below
    the idle timeout leaves a handler behind whose end is charged to the next case.
  - `CasesCorrect`: `TableInv` follows a case from its first segment to its record: what the receiver has got is what was written (`GotInv`), an
    answer and its counters are one of the case's outcomes (`RowInv`), how long the handler has been idle against what the verifier still waits (`IdleInv`), and what the reads have
    seen (`ReadInv`). The verdict then follows from the status (`JudgedByRow`), in cases 2 and 8 with the help of `DeltaOfCase`: a handler of an earlier case that counted during them would turn `Info`
    into `Review`. With one outcome per case the proof failed at equal times, where the delay of case 7, or the pause of case 4, races the idle timeout:
    `Observed` has both there, and the run reaches both.

**Only model-checked.** The liveness properties (`EveryCallReturns`, `EveryRequestEnds`, `DrainsToExit`, `EveryReportEnds`, `EveryBodyEnds`, `EveryRunEnds`) are
out of the prover's reach, which has no rule for fairness and `ENABLED`. The properties of the three runs that expect a violation are false and have no proof.

## 6. Findings

1. **A torn line swallows an accepted event** (`capture_torn`, `sink.rs:86`). When a client disconnects after its JSON text was handed to the file and before its
   newline was, or when a write fails there, the next request, answered 200, is appended to the same line. `HECpoc.md:323` asks
   that "accepted events can be inspected without internal knowledge".
2. **`max_events` is off by one for a body that ends in a line feed** (`hec_parse_limit`, `parse_raw.rs:82`). With exactly
   `max_events` lines and a final line feed, the trailing empty piece meets the limit and the body is refused as `ServerBusy`. `HECpoc.md:1231` describes the
   loop as checking "immediately before `push`", and the scanner meant to be its equivalent, `raw_events.rs:223`, does.
3. **The effective configuration shown is not the one in effect** (`config_shown`, `config.rs:594`). With exactly one `[[hec.tokens]]` record,
   `--show-config` prints the singleton token that the record replaced and nothing of the record. `InfraHEC.md:54` asks to "render redacted effective config".

Noted while modelling, without a run: `invalid-event-number` counts from 1 for an index error (a test asserts it) and
from 0 otherwise (so `HECpoc.md:1042`; `HECpoc.md:648` says zero-based); further members of a concatenated gzip body are dropped silently;
a snapshot may show more ends than requests; the second blank check of `parse_raw_body_preserved` is unreachable; `Phase::Starting` and `Degraded` are never set;
only the first ctrl_c is acted upon and SIGTERM is not, so a stop by a service manager is a crash in the sense of `CaptureSink`; a configuration file that does
not exist is taken for an empty one; `HECpoc.md:1363-1366` has the verdict `Pass` for cases 3 to 6 with their 408 or 400, where `diagnose` has no `Pass` for these
cases and says `Review` for exactly that (`Judged` is the code's; statuses and counters of cases 1 to 7 are those of that table, as `CasesDistinguished` shows); `HECpoc.md:1368` explains the missing response of case 8 by the parser's refusal, where the same observation is made when hyper drops a connection
that its client has half closed (nothing in the code decides which); the bytes of a response that was
cut off by an error are dropped, where the help text at `raw_socket_hec.rs:29` promises the exact bytes read.

## 7. What is not modelled

The construction of `AppState` (wiring without state); the redaction and wording of tracing and console outputs, the text of answers and HTML
bodies (no property is about them); HTTP itself (what hyper refuses never comes to a handler; which heads it refuses is left open where a case depends on it; the model is of HTTP/1, the only version
enabled); the file system's own durability (a piece on `disk` is one the operating system took, as in the code, which never syncs; a crash is
one of the process, not of the machine); the syntax of JSON, base64, addresses, durations and index names, which are abstracted to their verdicts; that a gzip
body with several members is cut after the first, and that decoding blocks a thread of the runtime (both are the library's and the runtime's doing, with
nothing in the code's control to state a property of); the accessors and owned copies of the raw scanner's result; the verifier's option parsing,
file names and the layout of its summary; the shell scripts, which drive the built program.
