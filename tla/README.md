# A TLA+ model of mcp_test_framework

`mcp_test_framework` runs contract tests against an MCP server: a pytest plugin
discovers the tools of the server, injects one test per tool and contract, gates
the session on its preconditions, shares one client among the tests and reports
one verdict per tool. This directory models the parts of it in which the order of
events matters, checks them with TLC and proves the main properties with TLAPS.

Paths below are relative to the repository; `pkg` is `src/mcp_test_framework`.

## Inventory

| Part | State it keeps | Operations | What is hard | What makes it correct |
|---|---|---|---|---|
| `mcp_client` and `_isolated_home` fixtures (`pkg/fixtures.py`) | the owner task, the future `ready`, the event `shutdown`, the server process, the redirected HOME | set up, hand over, tear down | two tasks, two timers, interrupts, exceptions rewritten by SDK scopes | no server outlives the fixture or its HOME; the original error is raised; nothing hangs |
| `McpTestClient` (`pkg/mcp_client.py`) | an exit stack, the session, a tempdir | enter, `list_tools`, `get_tool`, `call_tool`, leave | an error, timeout or interrupt at every await, also while unwinding | nothing is left; reverse-order unwinding; every call ends |
| Run reporting (`pkg/_reporter.py`, the two readers in `pkg/_runner.py`) | accumulated reports; per tool a verdict, message and reasons | accumulate, aggregate reports, parse the XML | three reports per item, workers interleave, crash, get interrupted; two readers of two shapes of the same run | order-independence; the readers agree; PASS is earned |
| Contract plugin (`pkg/_plugin.py`, `pkg/contracts/_buckets.py`, `pkg/models.py`) | the stashed config, xdist options, the collected items | configure, clamp, discover, collect, parametrize, strip placeholders | every worker does it by itself against a server that may answer differently | exactly the opted-in cells run; passthrough is serialized |
| Preflight (`pkg/fixtures.py`) | none of its own | command, Ollama, model, handshake, unknown tools | a failure in the middle of a session with several processes | no item runs after a failed precondition (xdist may report one as crashed); no tool vanishes silently |
| Isolation (`pkg/_isolation.py`) | none | build the environment of a server | which mode each of five spawn sites passes | each server runs in the mode the operator chose |
| `run` command (`pkg/cli.py`, `pkg/_runner.py`) | a temporary XML, captured output | load, discover, spawn pytest, parse, map the exit code | the child may die before it writes; interrupts | exit codes mean what they say; nothing is left behind |
| Configuration (`pkg/config.py`, `pkg/cli.py`) | none | resolve and load | the command and its child resolve separately | both see one file |
| Code generation (`pkg/cli.py`, `pkg/test_code/_codegen.py`) | a patched SDK method, a package directory | handshake, confirm, delete, write | a class-level patch; a failure between delete and write | the patch is undone; a half-written package is never used |
| Scenario session (`pkg/test_code/session.py`, `_tool_factory.py`) | module-global registry, slug, client | install, look up, call, restore | nested and repeated sessions in one interpreter | a wrapper calls the client of its session; the slots are restored |
| Ollama judge (`pkg/ollama_judge.py`) | an HTTP client | ask, parse | free text from a model | a malformed answer never passes |
| Digests, rendering (`pkg/_runner.py`) | none | print | counts over several lists | counts add up |
| Contract tests, schema validator, rubrics, guard, other commands | none | pure checks, text output | nothing over time | unit tests |

How they interact: `mcp-contracts run` loads the config, opens a `McpTestClient` to
discover tools for its banner, and starts pytest as a child with the path of the
config file. In the child (or each of its xdist workers) the plugin opens another
`McpTestClient` to discover tools and injects items; the autouse preflight opens a
third; `mcp_client` opens the long-lived one. The reporter listens to the session
and renders at its end; the command parses the XML of the same session.

The hazards of this code, each with its line and the properties aimed at it, are
in `PROJECT.json`.

## Modules

| Module | Models | Uses |
|---|---|---|
| `ServerLease` | abstract: what it means to hold an MCP server | |
| `McpClientFixture` | the `mcp_client` and `_isolated_home` fixtures | implements `ServerLease` |
| `McpTestClient` | `async with McpTestClient(...)` | implements `ServerLease` |
| `RunReporting` (`MCRunReporting`) | one session's reports, both readers | |
| `ContractSession` (`MCContractSession`) | a whole pytest session with the plugin | takes each server as a lease |
| `CliRun` | one `mcp-contracts run`: config, discovery, child, summary, exit | takes the session as its outcome |
| `Codegen` | the `gen-test-classes` command and the package it writes | |
| `ScenarioSession` (`MCScenarioSession`) | `mcp_session`, `tool()`, `call()` over generated packages | composes with `Codegen` |
| `CodegenHandshake` | the patched SDK method and its lock | |
| `Judge` | abstract: what `judge()` promises its caller | |
| `JudgeParser` (`MCJudgeParser`) | the judge client and the parser of its answers | implements `Judge` |
| `McpClientFixture_proofs`, `McpTestClient_proofs`, `RunReporting_proofs`, `ContractSession_proofs`, `CliRun_proofs`, `ScenarioSession_proofs`, `CodegenHandshake_proofs`, `JudgeParser_proofs` | theorems | extend the modules |

A mutated form of a definition stands before the definition it mutates, under a
comment that begins with "As if".

### ServerLease

A lease is idle, pending, held, ending, ended. A server is spawned once, only for a
pending lease, under strict isolation only into an existing HOME; HOME goes only
when no server runs; the lease ends only when no server runs. Both clients are
shown to implement it (`ImplementsLease`), which is also what lets
`ContractSession` treat a client as one step that takes a server and one that
returns it.

### McpClientFixture

`body` is where the fixture generator stands, `owner` where `_owner_task` stands;
`ready`, `shutdown`, `home` and `server` are the objects of the same name.
`cancelling` is a cancellation that was requested of the owner and not raised yet,
`wake` the timer or interrupt that ends the body's wait, `ownerExc` the exception on
its way through the owner's scopes, `firstExc` a history variable with the first
one. One action stands for the code between two awaits. The SDK appears only through
what `fixtures.py` relies on: leaving `stdio_client` ends the server, task groups
may replace an exception by a group (`Unwind`), a failed background task cancels its
host (`ServingBreaks`). If such a task dies while the owner is still inside
`initialize()`, the code sees one more failure of `initialize()`
(`InitializeFails`).

### McpTestClient

`stack` is the `AsyncExitStack`, `pc` where the caller's task stands, `bound` whether
`_stack` and `_session` are set. Every await ends normally, in a protocol error, in
a timeout where the code has one, or in an interrupt; an exit callback may raise and
the rest of the stack still unwinds. The spawn itself is not under
`asyncio.timeout`, in the code and in the model.

### RunReporting

`phases` and `order` are the reporter's accumulator (`by_nodeid` of
`_build_parsed_run_from_reports`: outcome per phase, insertion order). `xml`,
`openCase` are what pytest's JUnit writer (external) makes of the same reports:
one element per item, a second one when a failed call fails again in teardown, one
without a name for an item that dies before its setup finished. `live` and `junit`
are `per_tool` of the two readers; the loops run one item at a time, so that
order-independence is a statement about every prefix. Messages are records (item,
phase, hoisted or not) instead of text; skip reasons are a set, since the code
removes duplicates. Not modelled: durations, totals, plugins that rerun tests, a
skip raised in teardown. A tool error that is attached to a report after the
report was logged (`tests/test_code/conftest.py:74`) reaches the live reader and never
the XML: the readers agree on whose phase failed, not on the text of the message.

### ContractSession

One variable per thing the code keeps: `stash` is `config._mcp_contracts_config`,
`option` xdist's `numprocesses` and the length of `tx`, `items` the collected items
of each process, `server` the server a process has and in which isolation mode.
`listed` and `checked` are what the server answered to the discovery and to the
preflight; they may differ, and the answer to each test (`mcp_target_tool`) may
differ from both, which is a choice of `Outcomes`. A bucket stands for the tests that
belong to it. A process without xdist is process 1.

A failed precondition (`CheckFails`, `NoClasses`) calls `pytest.exit(returncode=2)`.
Without xdist nothing more is reported. In a worker, which is also what `-n 1` and the
clamped passthrough session have, xdist takes the exit for a crash and reports the
item the worker was about to run as failed (`ExitsInItem`): one FAIL for an item that
never ran. `FailFast` states both. `exit` keeps the reasons apart that share exit code
2 (`setupError`, `noClasses`, `interrupted`).

One check does not exit. The `get` calls at `fixtures.py:296` are outside the `try`, so
an answer of Ollama that is JSON but no object raises in the autouse fixture, and
pytest repeats the error for every item (`CheckRaises`, state `gateless`), where the
docstring (`fixtures.py:196-198`) promises no cascade of ERRORs. No property is about
it; `FailFast` speaks of exits.

And the brief client of the preflight gets no `host_isolation` (`fixtures.py:313`), so
its server is strict in a passthrough session, although `_isolation.py:131-132` says
that spawn sites pass `cfg.host_isolation`. `Check` has it; it is the one argument of
one call, so no property restates it.

Not modelled: replacing a crashed worker, and the workers' own reading of the config
file going another way than the controller's.

### CliRun

`pc` is where the command stands, `child` the pytest process, `rc` its exit code,
`xml` the temporary JUnit file, `summary` the result lines the operator has seen and
who wrote them. The session is seen from outside, as the command sees it: an exit code
(negative for a signal), whether it wrote the XML, which tools had an item and which
had a report (`Outcome`). `Endings` lists what pytest can leave; it is wider than
`ContractSession` because the command must cope with anything. A config file is known
by the place it was found at (`Places`): the given path as the command reads it and as
the child's plugin reads it from its rootdir, the pyproject value, `./config.yaml`.
Ctrl-C reaches both processes; `subprocess.run` then waits a moment and kills, so the
child either finishes its session or dies (`Stopped`). In that case the temporary file
stays, because its path is only returned together with the result; `NothingLeft` says
that this is the only such case. An interrupt while the child configures leaves code 2
and no XML. A clean exit without XML (`-- --help`) reaches the
parser, which raises `FileNotFoundError`: the command ends with a traceback and status
1, where the docstring of `_dispatch_default_mode_or_error` says that
`_map_exit_code` takes care of it (`NoXml`). Not modelled: the best-effort copy of the
XML to `--junit-xml`, forwarded pytest arguments, a failing unlink.

Two things the model knows and no property forbids. The live summary counts the
tools of the collected items (`_reporter.py:236`), so a tool that was not
selected is skipped in the command's summary and missing in the live one. And the
clamp of passthrough sessions sets `numprocesses` and not `tx`, so `--tx 4*popen`
still starts four workers; `SingleOwner` of `ContractSession` speaks of `-n`.

### Codegen

One action per step of `gen_test_classes` and `_codegen.generate`: the guards and the
handshake (`Start`, `Refused`, `Identified`), the gate on a directory that is not
empty (`PassGate`, `GateRefuses`), `rmtree` file by file in any order (`Wipe`,
`Wiped`), the loop over `sorted(tools)` with its optional smoke file (`WriteTool`,
`WriteSmoke`), `__init__.py` last (`WriteRegistry`). `GenerateFails` ends the command
at any of them, with or without a file opened and not finished. `package` is the
directory of each server as a function from file names to contents; a content is a
kind, the generation that wrote it and the tools it was written for, which is all
the readers tell apart. `made` remembers what each generation was asked for. The
operator may add a file of their own and make a directory read-only between commands.
Commands follow each other; nothing happens between the gate's answer and the wipe.

What shows in the model and limits the properties: `rmtree(ignore_errors=True)`
leaves a read-only directory as it was, and the old `__init__.py` is then importable
beside modules that were written over (`LoadIsWhole` excludes such a directory,
`SuccessIsWhole` does not need to); two tools whose names give the same file name
overwrite each other, and the smoke file of one may be the module of another
(`Clashes`); `__init__.py` imports the classes of all tools into one namespace, so
tools with files of their own and one class name (`getX`, `get-x`) share it there; a
schema that fails to validate is found after the old package was
deleted.

### ScenarioSession

Extends `Codegen` by the interpreter that runs scenario tests: `stack` holds the
`mcp_session` fixtures in progress, `activeSlug`, `activeClient` and `registries`
are the module-level slots of `_tool_factory`, `modules` what `sys.modules` keeps of
each package. `LoadPackage` is `_purge_package`, `_import_package_from_path` and the
installation of the slots, up to the `yield`; `LoadFails` is each way out before it;
`CloseSession` is the `finally`.
`Loaded` is what the generated registry holds: of the tools whose class name is the
same (`Namesakes`), the last import binds the name for all (`Binds`).
`TakeWrapper` and `Call` are `tool()` and
`ToolWrapper.call()`, which look the slots up at different times. Loading is one
step beside a command, which may be before it, after it, or between any two of its
files. 
A session that ends inside another one of the same slug pops the registry of both
(`session.py:148`), although `session.py:14-15` and `_tool_factory.py:15-16` say that
the prior state of the three slots is restored: `tool()` in the outer test then raises
`KeyError`. `popped` (history) marks the outer sessions this happened to.
`RegistryRestored` states the documented claim and is violated; `SlotsOfInnermost`
checks all three slots, with the registry gone exactly where `popped` says so; and
`WrapperOfItsSession` says that `tool()` never answers with another session's classes
instead. Not modelled: a test of an outer session that calls its wrappers from inside
a nested one.

### CodegenHandshake

`method` is `ClientSession.initialize`, `lock` is `_codegen_handshake_lock`,
`original`, `holder` and `info` are the locals of `_run_codegen_handshake` of each
caller, `fills` the closure of its replacement. An action is the code
between two awaits. The lock is held over everything, so a caller that is cancelled
in the queue touches nothing. Closing the client may raise after the listing has
arrived (`Leave`): the call raises then, with the answer in hand.

### JudgeParser

`content` is what the server sent, `text` what `_strip_decorations` leaves of it;
`at`, `depth`, `inString`, `escape` are the variables of
`_extract_first_json_object`, one character per step. Text is a sequence of tokens
(a brace, a quote, a backslash, a fence, the think tags, the head of a verdict,
anything else); `IsVerdict` stands for `json.loads` and the pydantic model.
`ScannerExact` compares the scanner with a definition that does not scan: the first
prefix that is balanced outside its strings. `WrappedVerdict` spells out the
wrapping the docstring promises to see through. What it excludes is what the code
does not see through: a valid verdict whose reasoning holds two fences is cut and
becomes malformed. `_strip_decorations` is also not idempotent, as its docstring has
it: of three fences a second pass removes the one the first left. An unclosed
`<think>` is left in, so that a verdict inside a truncated thought counts; the code
chose that, and `PassIsSaid` allows it.

`Judge` is the protocol: a call without an answer raises, a call with one returns
what that answer means, in one step. `Stage` maps the parser's states to it, and
`Meaning` is the function it has to compute. One case is outside the model: an
answer nested deeper than the interpreter recurses makes `json.loads` raise what the
parser does not catch.

## Runs

| Run | Bounds | Distinct states | Shows |
|---|---|---|---|
| `McpClientFixture` | none: the fixture has one session | 1 011 | safety, termination, refinement |
| `McpTestClient` | none: calls repeat without a bound | 105 | safety, bounded calls, refinement |
| `RunReporting` | 3 items, 2 tools, 2 workers | 659 k | order-independence, agreement, earned PASS |
| `RunReportingSameVerdicts` | 1 item | violation | a crashed worker's report is dropped by one reader |
| `ContractSession` | 2 tools, 2 buckets, 4 configs, 3 listings, 2 processes | 1.5 M | serialization, exact selection, fail-fast, no vanished tool |
| `ContractSessionExitCode` | as above | violation | an invalid config file is an internal error |
| `CliRun` | 2 tools, every flag and set of config files | 315 k | earned success, one server at a time, one summary, clean exit |
| `CliRunSameConfig` | as above | violation | a relative `--config` is two files for the two processes |
| `ScenarioSession` | 2 servers, 4 tools, 2 listings, 2 generations, 2 sessions | 1.5 M | a load is whole, success is whole, slots follow nesting, nothing lost unasked |
| `ScenarioSessionRegistry` | 1 server, 1 generation, 2 sessions | violation | a nested session of the same slug takes the outer one's registry away |
| `CodegenHandshake` | 3 callers | 1.4 k | each its own answer, the patch undone, all end |
| `JudgeParser` | texts of up to 3 of 17 pieces | 44 k | exact scanner, no pass made up, no verdict lost, refinement, an answer always |

Why the bounds suffice. Three items over two tools is the least that has two items
of one tool in either order with an item of another between them; two workers is the
least that interleaves. Two tools and two buckets give every combination that the
selection distinguishes: a tool with all, some or none of its buckets, a bucket that
no tool keeps (the placeholder), a tool excluded and one not mentioned. The listings
contain the empty list, a part and the whole, so that tools vanish and appear
between any two questions. `CliRun` has one invocation and no counter; two tools are
the least of which one runs and one does not. In `ScenarioSession` two generations
are an old package and a new one, two sessions either follow or contain each other,
with one slug or two, and the four tools meet in two ways: a smoke file that is
another tool's module, and modules of their own with one class name. (A third way, one
module for two tools, is left to the proofs.) Three handshakes are one
that holds the patch and two that wait, one of which may be cancelled. Three pieces
are a verdict with something on either side, or two verdicts and something between
them; the pieces include every character the scanner distinguishes. What the proofs
establish holds without bounds.

A run marked as a violation checks one sentence of a docstring or comment of the
repository that the code does not keep; `PROJECT.json` quotes each under `findings`.

## Fairness

`McpClientFixture`: weak fairness for what the event loop and the SDK owe: a task
that can run is run, an armed timer fires, a requested cancellation is raised, a
scope that is being left is left in bounded time (the SDK kills a server that does
not end). None for the server's answer, the return of a spawn, the end of the tests,
the death of the server or an interrupt. `McpTestClient`: the timers of the
handshake and the calls, and the steps of unwinding. `CodegenHandshake`: per caller,
the steps something bounds: `asyncio.Lock` wakes the next waiter, a handshake and a
listing end by their timeout, a client that is left is closed; none for the spawn,
and `AllEnd` says so in its premise. `JudgeParser`: the parser is ordinary code
without an await, so its steps are taken once the answer is there; none for the
server's answer. The other modules state safety only: between their steps stand an
operator, a server or a child process that owe nothing.

## Proofs

Every theorem holds for all values of the constants, under the named assumptions of
the module: types of the constants; for `ContractSession` that `"none"` and
`"NOTSET"` are no tool names and `"plain"` is no bucket; for `Codegen` that
there are finitely many tools, that `sorted()` is an order, that a smoke file is not the module of its own tool, and
that no tool writes `__init__.py`; for `ScenarioSession` that `"none"` is no slug;
for `CodegenHandshake` that the SDK's method is not a caller's. TLC evaluates each
of them in a run. Fairness plays no role in any proof.

`McpClientFixture_proofs`. The inductive invariant `IInv` adds to the types:
`TasksInStep` (which states of body and owner go together),
`ServerInScope` (a server runs only while the owner is in a scope that ends it),
`HomeHeld` (strict isolation has its directory from `homed` until the end),
`ReadyAndOwner`, `BodyAndReady`, `GivenUp` (what the future, the exceptions and the
places of the two tasks say about each other). The safety properties need it because
each speaks about the end of the fixture alone: that the owner has ended there rests
on where it was at each earlier step. `Refinement` proves that every step is a step
of `ServerLease` or a stutter.

`McpTestClient_proofs`. The invariant ties the exit stack to what is open: the stack
is one of the few the code can build, the tempdir exists exactly when its callback
is on the stack, the process exactly when `stdio_client`'s is. Leaving pops in
reverse order, so the directory goes last; both safety theorems and `Refinement`
follow.

`RunReporting_proofs`. `VerdictOrderIndependent` is inductive with the fact that
`hasPass` is true exactly when a PASS was read (`ReadSoFar`). `PassEarned` needs the
chain from an element without failure back to the phases of its item: `ItemProgress`
(which phases are reported when), `OpenElement` (the open element of an item is its
own and mirrors its reports), `FailuresRecorded` (every failed phase and every crash
is in some element of the item), `PassesHappened` (an element without failure or
skip, once named, had a call that passed or is still open). `ReadersAgreed` needs
more, because the two readers see the session in two shapes: `Mirrored` (the first
element of an item tells what its reports tell, and there is a second only for an
item that failed before), `InOrder` (items have their first elements in the order of
the reporter's keys, so that the first failure is the same one in both),
`ReadInOrder` (a bucket has the reasons of all cases read and the message of the
first that failed).

`ContractSession_proofs`. `CredentialsSingleOwner`: `Clamped` (a passthrough session
asked for with `-n` has one running process), `Bystanders` (the others never leave
`done`), `ServersInScope` (only a process in one of the opening or serving states
has a server). `SelectedExactly`, `FailsFast` and `NoneVanishes` rest on `RInv`:
`Collecting` (a process that collected has exactly the items its listing and the
config select), `Started` and `Finished` (once anything runs all processes collected
the same items, and one that ended well has reported all of them), `FirstFails`
(the one process that has not passed its preflight has reported nothing; one that
exited there as a worker has reported one crashed item), `NoneCrashed` (a crash ends
the session), `Warned` (whoever
passed the preflight of injected items has warned of every tool the config names and
the server did not list). They are needed because the properties compare the end of
the session with answers the server gave at three earlier moments.

`CliRun_proofs`. `ExitIsLast`, `LeaseInScope` and `ChildInStep` tie the client, the
child and the exit status to the place of the command; `LoadedFirst` and
`ChildReadItsFile` carry the two config files to the exit (`SuccessIsEarned`);
`SummaryInStep` says how many summaries there are before the command adds its own
(`OneSummaryShown`); `StatusOfCode` is the arithmetic of exit codes.

`CodegenHandshake_proofs`. `Exclusive` (a caller inside the window holds the lock)
and `Patched` (the method is that caller's, it replaced the SDK's, and a call of it
fills its holder alone; with the lock free it is the SDK's). A window that could be
entered twice would make the second caller restore the first one's function.

`ScenarioSession_proofs`. What a directory holds is related to the
command's place: `NothingOfTheirs` (without consent nothing in the target was there
before), `AllClean` (a directory that was never read-only holds, beside a registry,
only what the generation of that registry wrote), `Loop` (while it writes, the
modules of the tools already done are those of this generation, unless another tool
took the file). The session adds `Nested` (each set-up session saved the slots of
the one it runs in, in the order of the stack), `Installed` (the slots are the
innermost one's, and the registry of a slug is the one that the last session of that
slug loaded, or none where such a session has ended since),
`Wrapped` (a wrapper came from its own session's registry) and `AllWhole`. `BinderIs`
shows that the last import of a class name exists and is one, for which the tools have
to be finitely many. `Nested`
is why restoring is right at every depth: ending a session uncovers what the one
below it installed, which the property, about the innermost session only, does not
say.

`JudgeParser_proofs`. The theorems are about texts of any length, so they need what
`StringEnds`, `Ends` and `WithoutThinking` compute on every text. Induction takes the
form of a choice: `LeastOf` and `GreatestOf` (from the well-foundedness of the
naturals) give the least or the greatest position at which a claim fails, and the
claim is shown to hold there. `StringEndsExist` and `EndsExist` show in the same way
that the two functions exist, `StringEndsOf` and `EndsOf` what they satisfy. For
`ScannerIsExact` the invariant (`ScanningInv`) has to relate a counter and two flags to a
nested structure: `Leads(text, depth, Top, Closing)` says that from where the object
or string the scanner is in ends (`Top`), leaving `depth` objects one after the
other arrives where the first object closes. `ResultInv` says that the result is what the
parsed text is believed to say. For `PassIsNeverMadeUp`, `KeepOf` and `FencesTaken`
describe the two ways of stripping by positions, and `FencesDoNotMatter` carries a
verdict over to the answer without any fences, although the code leaves some in; for
`NoWrappedVerdictIsLost`, `ThinkTail` and `StandsWithoutFences` follow the verdict
through both, and `VerdictIsFirst` shows that the scanner would find it. `Refinement`
and `ParserIsLinear` follow from the same invariant.

Model-checked only: liveness under fairness, which is out of the prover's reach
(`FixtureTerminates`, `CallsBounded`, `AllEnd`, `ParserEnds`). Of `ParserEnds`
`ParserIsLinear` proves what does not need fairness: no step of the parser can be
repeated for ever.

## What is left

- The reporter's `_STATE` across sessions of one interpreter: pytest
  always unconfigures, so a second session starts from a reset state unless the embedding
  program kills the first.
- A command between the gate's question and its wipe beside another command on the same
  directory: nothing in the code locks the directory.

## Not modelled

Text: error messages, banners, layout, and how a JSON schema becomes source code
(`_emit_field` and what it calls in `_codegen.py`). Pure checks on one value (schema
validation, rubrics, contract test bodies, the environment dictionary, the digests).
Libraries appear as far as the code relies on them: asyncio and anyio cancellation,
the MCP SDK, pytest and its JUnit writer, xdist. Network and file system errors
other than the ones the code distinguishes are one failure each.
