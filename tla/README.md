# unpythonic in TLA+

This directory specifies the parts of `unpythonic` whose correctness depends on the order in which things
happen: on user code that runs in the middle of library code, on threads, on clients that come and go, on
bytes that arrive in pieces, on exceptions that leave several constructs at once; and the parts that compute
something intricate from what they are given. The modules are written from the source; TLC checks small
instances of them, and TLAPS proves the most important invariants for all instances.

`PROJECT.json` lists the components, the runs, for each property a mutation of the code that breaks it, for
each definition the lines of source it stands for, the hazards, the findings and the theorems.

To check a model: `tlc -config MCConditions.cfg MCConditions`. To check the proofs: `tlapm
ConditionsProofs.tla`.

## 1. The system

`unpythonic` is a library and a language extension. What matters here is which components keep state and who
shares it.

| Component | State | Operations | Hard because | Correct if |
|---|---|---|---|---|
| Conditions (`conditions.py`) | per thread: a deque of restarts, a deque of handlers | `restarts`, `handlers`, `signal`, `error`, `cerror`, `warn`, `resignal`, `find_restart`, `invoke` | handlers and restart functions are user code that runs inside the loop of the library and may do anything, also leave by an exception | the deques follow the call stack, every matching handler is asked in order, a restart unwinds to the block that owns it, an error is never lost |
| REPL server (`net/server.py`) | registry of sessions, pending halt, the shims of stdio, paired control channels | `start`, `stop`, `halt`, one thread per session and per control connection | sessions end while others refer to them; thread identifiers are recycled | halt is honoured, a remote Ctrl+C hits its session |
| PTY proxy (`net/ptyproxy*.py`) | two descriptors, a forwarding thread, a stop flag | `start`, `stop`, `forward_traffic` | bounded queues in both directions, a single forwarding thread, a client that need not read, descriptors closed by another thread | no closed descriptor is used, input arrives in order, the session of a client that is gone ends |
| REPL client (`net/client.py`) | the prompt it waits for, its control channel | `connect`, tab completion, Ctrl+C, `force_quit` | decides by what one read returns; Ctrl+C may hit any line | output is shown in order, what a Ctrl+C spoils is what was on the move, and it becomes the user's turn again |
| Message protocol (`net/msg.py`, `net/util.py`) | the receive buffer of a decoder | `encodemsg`, `decodemsg` | chunks of any size, junk between messages | the messages arrive, in order, whatever the chunks |
| memoize (`fun.py`) | a memo and a reentrant lock per function | a call | recursion, mutual recursion, failures, threads | one evaluation and one answer per key |
| gmemoize (`gmemo.py`) | a memo, a lock and a generator per arguments; a position per instance | `next`, `len`, indexing | a check and the use of what was checked are separate steps | every instance gives the items in order |
| Testing framework (`test/fixtures.py`, `syntax/testingtools.py`, `test/runner.py`) | global counters; per thread: nesting level, postprocs, signal barriers | `session`, `testset`, `catch_signals`, `terminate`, `emit_warning`, `test[]` and its sisters | built on conditions and exceptions at once; every construct can be left in four ways | the report is what happened, nothing leaks from one testset to the next |
| Dynamic assignment (`dynassign.py`) | per thread a stack of scopes, copied from the main thread; the global defaults | `dyn.let`, reads, `dyn.update`, assignment, `make_dynvar`, views | the scopes are shared though the stacks are not, and the copy is made at first use | what one thread binds is visible to whom the documentation says |
| Containers and views (`collections.py`) | a slice and a cache of indices per view | `view`, `roview`, `ShadowedSequence`, `in_slice`, `mogrify` | a cache that depends on another object's length | a view shows the sequence as it is |
| Promises (`lazyutil.py`) | thunk, value, a flag | `Lazy.force`, `force1`, `maybe_force_args` | forced from several threads, without a lock | the thunk runs once, everybody gets the same |
| Symbols and singletons (`symbol.py`, `singleton.py`) | weak dictionaries of what was interned | `sym`, `gsym`, instantiation, unpickling | a look without the lock while the garbage collector removes entries | one living object per name |
| Escapes and trampolines (`ec.py`, `tco.py`, `gtco.py`, `fploop.py`) | exceptions in flight; a jump that waits to be performed | `catch`, `throw`, `call_ec`, `jump`, `trampolined`, `looped`, `breakably_looped` | a continuation outlives its extent, and passes others | it arrives at its own catch point or is refused |
| Cycles (`fix.py`) | per thread the calls and jumps being made; a memo | a call of a function under `fix` or `fixtco` | calls and jumps share one set | exactly what is going on counts as a cycle, and every computation ends |
| Environments and bindings (`env.py`, `assignonce.py`, `let.py`, `lispylet.py`, `seq.py`) | the names of an environment, whether it is finalized | the operations of `env`, `let`, `letrec`, `dlet`, `blet`, `do`, `do0` | user code runs while the environment is half filled | what was bound stays, names are fixed once a body runs |
| Continuations (`syntax/tailtools.py`) | `cc` and `_pcc` of each function that runs, chains of both | `call_cc[]`, `get_cc`, tail calls, resuming | a continuation may be resumed at any time, from anywhere | after each function runs what follows it |
| Multi-shot generators (`syntax/multishot.py`) | a continuation and a flag per iterator | `next`, `send`, `throw`, `close`, `copy`, `myield_from` | forks share continuations, and the iterator of a delegation | each fork is as if it were alone |
| Currying and dispatch (`fun.py`, `arity.py`, `dispatch.py`, `typecheck.py`) | the registries of multimethods | `curry`, `partial`, `generic`, `typed`, `isoftype` | arguments pass from one function to the next; registries are searched along the MRO | a pure function of the arguments, of the multimethods registered when it is called |
| Pipelines (`fun.py`, `seq.py`, `funutil.py`) | what travels in a pipe | `compose*`, `tokth`, `to1st`.., `piped`, `lazy_piped`, `Values` | several values, named ones included, in two orders | equal to calling one after the other |
| Sequences and iteration (`it.py`, `fold.py`, `fup.py`, `slicing.py`, `mathseq.py`) | positions of iterators that share a source | lazy functions, folds, scans, updates, `s()` | who has consumed what; negative indices | equal to the plain definition, and no more is read than is needed |
| Linked lists and backtracking (`llist.py`, `amb.py`, `syntax/forall.py`, `numutil.py`) | the stack of a walker; names in scope | cells, their iterators, `member`, `forall` | scopes shared by branches | equal to the plain definition |
| Monads (`monads/`, `syntax/monadic_do.py`) | none | bind, `fmap`, `join`, `then`, the do-notation | many hand-written overrides | the laws hold, and the overrides agree with bind |
| Small utilities, macro layer, dialects | none worth a model, but `async_raise` and what the expanded code does | | | |

How they interact:

* The testing framework is built on the condition system: a failing `test[]` is a `cerror` whose handler is
  that of the innermost testset, and `test[]` itself catches stray signals with a handler and a restart.
  `TestFixtures` models both sides; it takes from `Conditions` that handlers are asked innermost first, one
  step each, and that a restart unwinds to its own frame.
* A client of the REPL has two connections. The primary one ends in a `ConsoleSession`, whose thread talks
  to a terminal that a `PTYSocketProxy` forwards (`ReplSession`). The control connection runs the message
  protocol (`MessageDecoder`) and is paired with a session through the registry, which is the state shared
  by all the threads of the server (`ReplServer`).
* A remote Ctrl+C goes from the control thread through `async_raise` to the session's thread (`ReplServer`),
  where it arrives between any two steps (`ReplSession`).
* Memoized functions and generators share nothing but their own memos; user code runs under their locks.
* `fixtco` spies on the jumps that the trampoline performs, and the loops of `fploop` are decorators made of
  `trampolined` and `call_ec`: `Fix` and `Escapes` model both sides of this.
* `curry` binds arguments as `dispatch` does, and both ask `isoftype`: `Curry` and `Dispatch` use
  `Multimethods`, `Arity` and `Typecheck`. Multi-shot generators are made of continuations; `Multishot`
  takes from `Continuations` that a continuation which is called with no parent runs the rest of its body.

## 2. Modules

| Module | What it is | Checked through |
|---|---|---|
| `Conditions` | the condition system in one thread | `MCConditions` |
| `ReplServer` | the server process: main loop, registry, sessions as threads, control connections | `MCNet` |
| `ReplSession` | one session: client socket, forwarding thread, terminal, console thread | `MCNet` |
| `ReplClient` | the client with its two connections, and a console that prints anything | `MCNet` |
| `MessageDecoder` | the message protocol: encoder and incremental decoder | `MCNet` |
| `Memoize`, `GMemoize` | memoized functions; memoized generators | `MCMemoization` |
| `MemoTable` | abstract: what a memoized function is to its callers; `Memoize` implements it | `MCMemoization` |
| `Dynassign`, `TestFixtures` | dynamic assignment; sessions, testsets, barriers and assertions | `MCExtents` |
| `Interning`, `Promises` | symbols and singletons; promises, each under threads | `MCControl` |
| `Escapes`, `Fix`, `Continuations` | escapes and trampolines; broken cycles; `call_cc` | `MCControl` |
| `Environments`, `Views` | environments and what fills them; live views | `MCControl` |
| `Multishot` | iterators over multi-shot generators | `MCAlgorithms` |
| `Typecheck`, `Arity`, `Multimethods` | operators: types of values, binding of arguments, matching of signatures | `MCAlgorithms` |
| `Curry`, `Dispatch`, `Pipelines` | currying; multimethods along the MRO; chains of functions | `MCAlgorithms` |
| `Streams`, `Updates`, `MathSeq` | lazy iterators on a heap; updates of containers; sequences | `MCAlgorithms` |
| `LinkedLists`, `Choices`, `Monads` | linked lists; `forall`; the monads | `MCAlgorithms` |
| `ConditionsProofs`, `DynassignProofs`, `EnvironmentsProofs` | proofs about the modules they are named for | `tlapm` |
| `MemoizeProofs` | proofs about `Memoize`, `GMemoize`, and that `Memoize` implements `MemoTable` | `tlapm` |
| `NetProofs` | proofs about `ReplServer`, `ReplSession`, `ReplClient`, `MessageDecoder`, and `MCNet` as a whole | `tlapm` |
| `ExtentsProofs` | proofs about `TestFixtures` | `tlapm` |
| `ControlProofs` | proofs about `Interning`, `Promises`, `Escapes`, `Fix`, `Continuations`, `Views`; what holds of `MCControl` as a whole | `tlapm` |
| `Induction` | lemmas: induction over the natural numbers, recursive functions, concatenation of a sequence of sequences | `tlapm` |

`MCNet`, `MCMemoization`, `MCExtents`, `MCControl` and `MCAlgorithms` put components that do not interact
into one run: `subject`, chosen in the initial state, says which of them a behaviour is about, and the
others stay in their initial state. The states of such a run are those of its components, added, not
multiplied, and a property of a component is checked in the behaviours about it.

### Conditions

`frames` is the Python call stack as far as it consists of constructs of the module. A frame is a `with
restarts` (of user code, or one of those inside `cerror` and `warn`), a `with handlers`, a running `signal`
or a running handler. The two deques `_stacks.restarts` and `_stacks.handlers` are variables of their own,
pushed and popped where `_Stacked.__enter__` and `__exit__` push and pop; that they agree with the stack is
a property, not a definition. User code may do anything where it runs: enter further blocks, signal with any
protocol, invoke a restart by name or one that it has kept, raise, catch, leave. The library between two
pieces of user code is one step. Unwinding takes a step per frame.

Details that the properties depend on: `signal` walks the deque with an iterator, which Python invalidates
when the deque changes (`live`); `InvokeRestart` is a `BaseException`, which user code does not catch; the
restart function runs after the block has been left but before its bindings are removed (phase `restart`); a
dictionary's identity may be used again when nothing refers to it any more (`NewContext`, bounded by
`Contexts`: a block is entered only while an identity is free). A condition is an object that may be signaled
more than once: `inst` is its identity, and `attribute` its `__protocol__`, which every signal of it sets and
`_resignal_handler` reads when it runs. `again` is history: the instance has been signaled once more since.

### ReplSession

Three processes: the client (sends lines, closes, is reset), `forward_traffic`, and `ConsoleSession.handle`
with the console in it. A line is `stmt`, `open` (starts a statement that needs more lines), `big` (its
output does not fit into the terminal), or `quit`. The terminal holds `InCap` lines of input and one chunk
of output. `on_socket_disconnect` types `quit()`, modelled as the line `hangup`. A KeyboardInterrupt is
pending (`ki`) until the thread takes its next step of Python code; it does not interrupt a blocking call.
Opening the terminal and starting the proxy can fail.

A connected client reads its output when it likes (`ReadOutput`), or never. What it has not read fills its
socket (`unread`, one chunk), and `sock.send` blocks until it has been read or the client is gone. Where the
session cannot go on is listed in `Stuck`: the three places are an idle prompt whose `quit()` has been eaten,
output that nobody forwards, and a `stop()` whose forwarding thread is blocked in either direction. `cutShort`
is history: a KeyboardInterrupt was raised inside `stop()` itself, the only case in which the descriptors may
stay open.

### ReplServer

The main thread (`start`, the loop of once a second, `stop` at exit, which closes one server after the
other), a thread per session, reduced to its life cycle and to its place in `_active_sessions`, and a thread
per control connection. A remote Ctrl+C takes three steps, as in the code: find the session in the registry,
check that some thread has its identifier, set the exception on that identifier. The operating system gives
a new thread any identifier that no living thread has.

### MessageDecoder

`decodemsg` as a state machine; every read returns a chunk of any size up to `ChunkMax`. A byte is one of a
few symbols. `Limit` is the 4096 of the header search. A stream is made of parts, messages (`Encoded` puts a
header before the body, with the length in decimal digits, as `str` writes it) and junk, of which `IsJunk`
says that it neither is nor completes a header; what a receiver should get is `Bodies`. Two ends that are
not messages: `ended`, after `None` at the end of the source, and `crashed`, for the exceptions that the
code does not mean to raise. `overrun` is history: the search for the end of a header was given up because
`Limit` bytes were held. The repository's own sources read up to 4096 bytes at a time, which is the limit, and
so does the instance: `ChunkMax` is `Limit`. Until there is an overrun, all messages arrive; afterwards
they may be lost (run `decoder_chunks`). `SmallChunks` says that the longest header and one chunk more fit
into `Limit`, and then there is no overrun.

### Memoize and GMemoize

One action per step between two shared accesses: the look without the lock, taking the lock, the second
look, the call of the function (during which user code calls other memoized functions), storing the result
and leaving the lock, and the last read. A key stands for a function with its arguments; `Calls` says whose
values a computation may ask for, and has no cycles (`Rank`), since a function that asks for its own value
with the same arguments does not end. In `GMemoize`, opening an instance is a check and a creation; `next`
reads the position, takes the lock, takes a result from the memo or advances the generator, stores it and
leaves the lock. `OneIterator` is `imemoize`, whose generators take their items from one iterator. `Sharing`
says whether threads may use an instance that another one has opened. The locks are reentrant, as in the
code.

`MemoTable` is the promise of the docstring without the locks and the looks: one table, in which a key that
has no result is evaluated by one thread, its result written once, and every call answered in one step.
`Memoize` implements it under a refinement mapping: the calls that a thread has `open` are those it is
computing and, when it is inside `memoized`, the one of `key`; and `evaluating` is who computes what. A call
that finds the result at once is an answer, the second look that finds none is where the evaluation begins,
`Finish` settles the key but leaves the call open until it is read, and the way to the lock is not seen.

### TestFixtures

`frames` again is the nesting of constructs. A signal on its way through the handlers is a frame too
(`walk`), since handlers are consulted one by one and each may end it. `exc` is an exception in flight: an
error, the exit of a session, or the restart of an enclosing test. `bad` counts, as history, what went
wrong, a stray signal once for each testset that has met it; what a testset reports as failed and errored
must be, together, exactly this number. `TestConfig.postproc` is the default, `None`.

### Dynassign

A scope is a dictionary, and `stack[t]` refers to scopes by identity, because this is what the hazards are
about: `_getstack` copies the list, so that two threads have two lists of the same dictionaries. A new
dictionary is made by each `with dyn.let(...)` (its keyword arguments); the same `_EnvBlock` object is not
entered twice. `blocks[t]` is what Python's call stack knows: the `with dyn.let` blocks that the thread
executes. `FirstUse` is separate from `Spawn`, since the copy is made when the thread first uses `dyn`.
`dyn.update` in the main thread holds the lock that `FirstUse` takes, while it resolves all the names and
then writes them one after the other; in another thread it writes without the lock. A view holds the list of
scopes it was refreshed with (`Maps`) and is never forgotten, as in the code. `inherited` and `spawned` are
history variables.

### ReplClient

The client knows of the console only what it prints. A read returns up to `ChunkMax` units (`ReadMax` of
`MCNet`); a prompt and a
character of two bytes are two units each, so that a read may cut them. `Outputs` is what the console may
print after a line. What has been read is known by its place in `printed`, so that one sees what of it is
lost or repeated. The control connection carries one request and its reply, as an iterator that is dead once
it has ended (`msg.py`).

Ctrl+C may come at any line of the loop (`client.py:334-336`), and what it does depends on the line: between
`recv` and `buf.append` what was read is gone (`InterruptRead`); after the text has been written and before
`buf.set` it stays in the buffer, to be shown again, and after `buf.set` the prompt that follows is gone
(`InterruptShow`); where no text is on the move nothing happens to it (`CtrlC`). While a reply is awaited it
kills the control channel (`InterruptPairing`, `InterruptReply`), and outside the loop it ends `connect`
(`Abort`). `lost` and `repeated` are history, and `ShownInOrder` says that they are all that may be wrong.
The console here is not that of `ReplSession`, but one that prints anything.

### Interning and Promises

Threads that look, lock, look again, make and write, one step each; `Drop` is the garbage collector, which
takes an object out of the weak dictionary with its last strong reference, without the lock. A thread's
local variable counts as a reference (`instance`), and so does what it keeps (`held`). Constructors of
singletons hold the lock of the metaclass around all of it; unpickling comes to `__new__` directly.

`Lazy.force` has no lock. Its two assignments and two reads are separate steps, and the initial value of the
flag is a symbol, which is true in a condition. A thunk returns, raises an `Exception`, or is left by
something else (`Escape`: an escape continuation, an invoked restart, KeyboardInterrupt), which the `except`
clause does not hold: the promise is then as before, and a later force runs the thunk again.

### Escapes and Fix

`Escapes` is one stack machine for `catch`, `throw`, `call_ec`, `jump`, the trampoline, and the loops of
`fploop`, which are decorators made of the others: a function is a sequence of decorators around a body, as
user code has stacked them. An exception in flight passes frame after frame. Identities (`Uids`) are used
again after the `ec` they belonged to is gone, as `id()` is.

In `Fix` the body of a key (a function with its arguments) is chosen when it runs for the first time and is
the same afterwards: `fix` is for pure functions. What `fixtco` does to the trampoline is part of the step
that performs a jump.

### Continuations and Multishot

Both model what the code that the macros generate does at run time. In `Continuations` the history variables
hold what the documentation promises to run next, as a list; the model of the code has `cc`, `_pcc` and
`chain_conts`. The property says that a return goes where it was promised. The ways in which the code breaks
a promise (findings 23 to 25, and a chain that is called where no trampoline performs its jump) are recorded
in `broken`, which ends the behaviour: what follows a broken promise is not examined.

In `Multishot` the bodies of two generators are sequences of `yield`, `bind` (`var = myield`) and one
`from`, which delegates to an iterator that is an object on the heap. What an iterator should give is
computed from the values it was sent, with both bodies as one. Forks made during a delegation share the
delegate (finding 27): an iterator that is resumed after another one has moved their delegate is
`entangled`, and exempt from then on.

### Views and Environments

A view keeps its slice and a cache, made when the length of what it views was another one, perhaps. `ViewOf`
is the constructor, `Subscript` slicing a view, which leaves out a view of the whole. To read a view, or to
write through it, renews its cache and those of the views below, from the list up (`Refresh`); a slice is
written up to the first place that is not there any more. Writing, appending to and removing from the list
come in any order. A view of a view counted from the end is the exception of finding 19: `Anchored` is the
set of those, with the list itself, that are counted from the front down to the list, and `ViewsAreLive` is
about the views of these.

`Environments` has one environment and the construct that fills it. Right-hand sides that are called with
the half-filled environment (`thunk`) may do anything to it, as may the body. An operation that is refused
changes nothing and is not a step. `given` is history: what user code has given each name.

### The algorithms

These modules have one action, or a few, that apply a function of the library to one of the inputs in the
`.cfg`; their invariant compares the result with a plain definition.

* `Typecheck`, `Arity` and `Multimethods` are operators: `isoftype` over records that stand for values and
  for type specifications, binding of arguments to parameters, and which multimethods accept a call. `Curry`
  is a machine that takes a call in pieces, as they are supplied, and compares it with the whole call. A
  step of a function with annotations binds what was collected to the signature of the `functools.partial`
  so far (`PartialSignature`, `PartialRefuses`), as the code does, which is why such a function may refuse in
  three steps what it takes in two (finding 29); `CurriedCallsAgree` exempts
  these calls (`Unspoken`) and no others of annotated functions;
  `Dispatch` registers multimethods in classes in any order and calls them; `Pipelines` sends values through
  a chain with each of the families of functions that do so, and lets a piped object be extended and read at
  any time. In `composerc` the composed inner function is not curried, so that with three stages and
  extra values it fails where `composelc` does not (finding 29);
  `FamiliesAgree` says that it fails or agrees, and agrees if the stages are two or the values fit.
* `Streams` has a heap of iterators: an iterator keeps where it is and which others it reads, so that what
  two consumers of a `tee`, or of the three parts of a `partition`, read from one source is part of the
  state. `Updates` computes functional updates and `mogrify` on containers with identities, `MathSeq` what
  `s()` makes of a specification.
* `LinkedLists`, `Choices` and `Monads` evaluate the functions of these modules on every structure, program
  or chain of a small set. `Choices` has two evaluators, that of the function `forall`, whose lines share
  one object, and that of the macro.

The iterators of `Streams` and `LinkedLists` are RECURSIVE operators; no theorem is about these modules.

## 3. Runs

States are distinct states. With two workers, `net`, `extents`, `control` and `algorithms` take one to two
and a half minutes each, the other runs at most about one.

| Run | States | Instance | Shows |
|---|---|---|---|
| `conditions` | 627,780 | depth 5, two restart names, a block with a handler and a resignal that both match, a block with one handler | every way through the protocols: the deques match the stack; handlers run in order and none is skipped; a fresh invocation arrives; a kept one ends only at its owner; errors are not lost; a resignal keeps the protocol, unless a handler signals its own condition again |
| `conditions_matching` | | same | violation: a restart function that invokes a restart of its own block unwinds past it |
| `conditions_resignal` | | same | violation: a handler signals its condition again, and the resignal of an `error` becomes a `signal` |
| `net` | 317,610 | server: three sessions, two identifiers, one control connection; session: three lines, one Ctrl+C, room for one line and one chunk in the terminal and one chunk in the socket; client: one line, two Ctrl+C, reads of up to three units; decoder: three parts out of three messages and two kinds of junk, chunks up to 8, which is the limit | a Ctrl+C goes astray only after its session has died; a halt is honoured; input in order; descriptors are not used after they are closed, and are closed; a session ends unless it stays in one of the places `Stuck` lists; what the client reads is shown in order and once, but for what a Ctrl+C has hit, and it becomes the user's turn again unless a read has cut a prompt; until a header search is given up, messages in order, none invented or lost at a seam, `None` only at the end |
| `repl_dropped` | | same, two lines, no Ctrl+C | violation: a session whose client is gone may stay for ever |
| `decoder_chunks` | | decoder: two parts, chunks up to the limit | violation: a message is lost, or the decoder crashes |
| `memoization` | 10,911 | two threads; functions `f` and `g` that call each other and may fail; a generator of two items | one evaluation per key; a memoized function implements one table, with one answer per key; items in order; every call returns, unless it is a deadlock of two functions' locks |
| `memoization_shared` | | instances shared by threads, one iterator | violation: an item is given twice |
| `extents` | 1,419,305 | dynamic assignment: main thread and one child, two names, three scopes, one view each; testing framework: nesting 4, two counted tests | stacks follow the blocks, threads share what was taken over and no more, a new thread finds no update half done; bookkeeping follows the nesting, reports are true, failures are heard |
| `dyn_copied` | | same | violation: what a thread takes over is not what was bound at its start, and is not a copy |
| `control` | 848,564 | interning and promises: two threads, two keys, two objects, two forces each, a thunk that returns, raises or escapes, three runs of it; escapes: stack of 4, two `call_ec`; cycles: three keys, two of them with tail calls; environments: two names with a reserved and a malformed one; continuations: five made, one nested call; a list of up to 3 and two views | one living object per name; one result of a promise and no second run but after an escape, if forces do not overlap; an escape arrives, nothing else catches it; exactly what is going on counts as a cycle, computations end; bindings stay, names are fixed in a body; returns go where they were promised; a view shows the list |
| `algorithms` | 286,537 | the calls, chains, programs and structures in `MCAlgorithms`; two multi-shot iterators over a generator that delegates | a call in pieces equals the whole call; multimethods are tried in MRO order; families of compositions agree, the macro and the function `forall` agree, monads are lawful; lazy functions give what they say and read no more than they need; each fork of a multi-shot generator gives what it would give alone; updates, lists and sequences equal the plain definitions |

`MCTypeOK` is the conjunction of the type invariants of the modules in a run; the other properties of a
composed run are those of its modules, under the names the modules give them, conjoined where they answer
one question (`EscapesArrive`, `CallsAndNextReturn`, `MessagesArrive`, `EndsAreReached`, ...).

Why the bounds are enough:

* `conditions`: the shortest interesting nest is a block with restarts, a handler, an error in the block,
  its handler, and one more construct in the handler, of depth 5. Larger programs repeat these patterns; for
  the environment properties the proofs remove the bound. The sets of names and types are small, but one
  user name is also the name of a protocol's restart, so that all confusions of names occur. Six identities
  suffice for five frames and a kept restart, so that the guard on free identities never prevents anything.
* `net`, the session: every line is of any kind, so three lines give every pair of neighbours at each moment
  of a disconnection. A larger terminal or socket would only delay the same blocking.
* `net`, the server: two identifiers for three sessions force the identifier of a dead session to be used
  again while another lives.
* `net`, the client: the output is a character of two bytes, and after a Ctrl+C a prompt that is not the
  last thing printed, since the blank line makes another; reads of up to three units cut them in all places.
  Two Ctrl+C are one that is under way and one that comes meanwhile. The proof removes all these bounds from
  `ShownInOrder`.
* `net`, the decoder: the longest message has a length of two digits, so that a chunk can be cut inside the
  length; a body that begins like a header, and junk that begins like one, give the false synchronizations.
  The largest chunk is the limit, as 4096 is both in the code, so that the search for the end of a header
  may be given up, and is.
* `memoization`: deadlock needs two threads and two functions; recursion inside one function and from one to
  the other occur with three keys. The fourth `next` of a generator of two items is the one after its end.
* `extents`, dynamic assignment: three scopes are enough for two to be taken over and one to be entered in
  the child, or the reverse order; a scope that binds one name of two lets a name be resolved past it; one
  update writes both names, so that a thread can come between the two. The proofs remove the bounds on
  threads, scopes and names.
* `extents`, the testing framework: four nested constructs let a signal or a restart pass a testset, a
  barrier and a test; two runs let a testset subtract what was counted before it and add what was counted
  inside.
* `control`: a race for a name needs two threads, and an object that is dropped and made again needs two
  objects; the proof removes both bounds. Four frames let an escape pass a catch that is not its own and a
  trampoline; the second `call_ec` may get the identity of the first. A cycle of jumps that is entered by a
  call needs two keys, one that is left and entered elsewhere three. Two
  right-hand sides let the second see the first, and the first disturb the second. Two `call_cc[]` in one
  function, a chain and a resumed continuation are within five. A view of a view needs two views.
* `algorithms`: the inputs are all those of a shape up to a small size (the sets are built by comprehension
  in `MCAlgorithms`), and in addition the calls that meet each branch of the code. Two multi-shot iterators
  are an original and its fork; four objects leave room for both their delegates.

`CHECK_DEADLOCK FALSE` is said where the system may stop: user code need not do anything, a client need not
send anything, a decoder is not called again after `None`, a process has exited, an algorithm has given its
result, and in `memoization` two mutually recursive functions do lock each other out.

Fairness. `Conditions`, `Dynassign`, `TestFixtures`, `Multishot`, `Continuations`, `Escapes`, `Interning`,
`Promises`, `Views`, `Environments` and the algorithms have none, and no liveness properties: user code
decides. `ReplSession` assumes that the two threads of the server run whenever they can, and nothing of the
client, which may never read what it is sent: `sock.send` then blocks, which is one of the places of
`Stuck`. `ReplServer` assumes it of the main thread and of each session, and that a session comes to its end
(its user leaves some day; `repl_dropped` shows what happens to a halt otherwise). Control connections have
no fairness. `ReplClient` assumes it of the console and of the library, not of the user. `MessageDecoder`
assumes that it is called again and that the source does not block for ever. `Fix` assumes that the
computation goes on. `Memoize` and `GMemoize` assume that threads run, that computations end, and that a
lock which is freed again and again is got some day (strong fairness of `Acquire`, and of `Finish` in
`Memoize`, since user code may call other functions in between); the locks of CPython do not promise it, but
a thread that never gets its turn would need another one that calls for ever without a pause. In a composed
run the fairness of a module is that of its steps in the behaviours about it.

## 4. Proofs

| Theorem | Says |
|---|---|
| `ConditionsProofs!EnvironmentDiscipline` | in every reachable state the variables have their types and the two deques hold exactly the bindings of the blocks being executed (`EnvironmentMatchesStack`), for all names, types, clause lists and depths |
| `ConditionsProofs!DynamicExtent` | `ExtentRestored`: whatever ends a frame, the deques are what they were when it was entered (no run checks it: it is the step form of `EnvironmentMatchesStack`, which the run checks) |
| `ConditionsProofs!FreshInvocations` | `FreshInvocationArrives`: a restart invoked by its name is that of the innermost block that binds it, and unwinding does not pass that block |
| `ConditionsProofs!OwnersCatch` | `OnlyOwnerCatches`: an `InvokeRestart` ends only at the block whose dictionary it names |
| `ConditionsProofs!HandlersConsulted` | `HandlersAreConsulted`: while `signal` runs, the handlers that have run are the innermost matching ones; when it returns, all that match |
| `ConditionsProofs!ErrorsStay` | `ErrorsAreNotLost`: `error` and `cerror` hand control back only through a restart |
| `ConditionsProofs!ResignalFaithful` | `ResignalKeepsProtocol`: a resignal uses the protocol of the signal whose handler it is, unless the instance has been signaled once more |
| `ConditionsProofs!TypeCorrect` | the type invariant of `Conditions` |
| `NetProofs!Misdirection` | `MisdirectedOnlyAfterDeath`: an interrupt meant for one session reaches another only when the thread of the one is dead and the other has its identifier; for any number of sessions, identifiers and control connections |
| `NetProofs!InputArrives` | `InputInOrder`: what the console reads is what the client sent, in order and nothing twice, the injected `quit()` after all of it, for terminals of any size |
| `NetProofs!TransportSafe` | `TransportHandedBack`: no descriptor is used after it is closed, and only a KeyboardInterrupt raised inside `stop()` leaves them open when the session is over |
| `NetProofs!OutputIsShown` | `ShownInOrder`: what the client has read is shown or held, in order and once, but for what a Ctrl+C has lost or left in the buffer; for any output, chunks and interrupts |
| `NetProofs!MessagesAllArrive` | `MessagesArrive`: until a header search has to be given up, the decoder returns the bodies that were sent, in order and all of them before `None`, loses nothing between two messages, and does not crash; for every stream of messages and junk and every way in which it is cut |
| `NetProofs!SmallChunksFit` | if the longest header and one chunk fit into the limit (`SmallChunks`), no header search is ever given up |
| `NetProofs!NetTypes` | the type invariants of the server, the session, the client and the decoder |
| `ExtentsProofs!Bookkeeping` | `BookkeepingMatchesNesting`: however the constructs of the testing framework are left, nesting level, postprocs and barriers are those of the constructs being executed |
| `ExtentsProofs!FailuresReported` | `FailuresAreReported`: a failing test is heard by the innermost testset, and a report counts, as failed and errored together, exactly as many as went wrong |
| `ExtentsProofs!ExtentsTypes` | the type invariants of `Dynassign` and `TestFixtures` |
| `MemoizeProofs!OneTable` | `ImplementsTable`: `Memoize` implements `MemoTable` |
| `MemoizeProofs!EvaluatedOnce` | `ComputedOnce`, for any number of threads, functions and keys |
| `MemoizeProofs!OneAnswer` | `AnswersAgree`: what a call returns is the memoized result, which never changes |
| `MemoizeProofs!TypeCorrect` | the type invariant of `Memoize` |
| `MemoizeProofs!ItemsArriveInOrder` | `ItemsInOrder`: each instance of a memoized generator gives its items from the first on, none twice and none left out, if threads do not share instances and the generator does not share its items |
| `MemoizeProofs!MemoIsPrefix` | also when instances are shared, the memo is the beginning of what the generator gives |
| `MemoizeProofs!MemoizationTypes` | the type invariants of `Memoize` and `GMemoize` |
| `DynassignProofs!StacksDiscipline` | `StacksFollowBlocks`, for any number of threads, all names, bindings and updates |
| `DynassignProofs!PrivateScopes` | `OnlyInheritedIsShared`: two threads share only scopes that one of them took over |
| `DynassignProofs!UpdatesAreWhole` | `WholeUpdates`: who takes over the main thread's stack finds all or nothing of a `dyn.update` |
| `ControlProofs!OneLivingObject` | `OneObjectPerKey`: of each name there is at most one living object, and it can be found |
| `ControlProofs!TypesOfInterning` | the type invariant of `Interning` |
| `EnvironmentsProofs!BindingsHold` | `BindingsAreKept` of `Environments`: what was given to a name and not taken away is what it has, whatever right-hand sides do |
| `EnvironmentsProofs!NamesFixed` | `NamesAreFixed`: once an environment is finalized no step gives it a name it did not have |
| `EnvironmentsProofs!FirstReturned` | `FirstIsReturned`: `do0` returns the value of its first item |
| `EnvironmentsProofs!TypesOfEnvironments` | the type invariant of `Environments` |
| `ControlProofs!BindingsStay` | `BindingsAreKept` of the run `control`: the three about environments, together |
| `ControlProofs!PromiseForcedOnce` | `ForcedOnce`: whatever overlaps, a force gives what a run of the thunk gave; for any number of threads whose forces do not overlap, the thunk runs again only after escapes, and one run gives all the outcomes that are not escapes |
| `ControlProofs!EscapesAreRight` | `EscapesArrive`: an escape arrives at its own catch point, the calls of a chain share one trampoline, a return goes where it was promised; for stacks, chains and bodies of any length |
| `ControlProofs!CyclesSeen` | `visited` holds exactly the calls and jumps that are going on (the safety part of `CyclesAreCut`) |
| `ControlProofs!ViewsLive` | `ViewsAreLive`: a view of the list, or of views counted from the front, gives the slice of what the list holds now, for any lists, slices, number and nesting of views |
| `ControlProofs!TypesOfControl` | the type invariants of the seven modules of `MCControl` |

*Conditions.* `EnvironmentMatchesStack` is inductive together with the types, because each frame remembers
(`env`) the deques it found: the deques of frame *k* are those of frame *k - 1* inside. The proof does not
treat every conjunct under every action. Three lemmas say what the steps are: each step pushes one frame,
pops one by `ExitStacks`, or only restyles frames without changing what they bind (`NextShape`, from a lemma
per group of actions). Three more say that each of these keeps the invariant. The theorem about steps,
`DynamicExtent`, is then the case of a pop. Assumed are only `ConditionsAssumption`: what the constants are.

Where restarts and handlers are concerned, this is not enough, and the invariant `IInv` adds what may stand
on what. `DictionariesDistinct` and `BindingsOnStack`: each place of the deque belongs to one block, inner
blocks further to the left, and no two blocks have the same dictionary, so that who catches by identity is
the owner. `ReferencesBound`: a restart on its way, or kept, is one of its dictionary. `StackInOrder`: above
the block of `cerror` there is its `signal`, above a `signal` one of its handlers; so that an `error` whose
`signal` returns has nowhere to return to. `AllConsulted`: the handlers that have run are those before the
place that the walk has reached. `AllResignaled`: what stands above a `_resignal_handler` was signaled with
the protocol that the instance had, which is that of its `signal` as long as nobody has signaled it again.
Again steps are classified first, as a frame pushed (`Grows`), popped (`Shrinks`), or changed in its place,
and each kind is shown to keep each part.

*The server, its sessions, the client.* For the server one needs that living threads have different
identifiers, and that nothing lives in a process that has ended; the state of a control thread then says
which session its identifier belonged to when it was found. For a session, `Transport` ties the descriptors
to the places of the two threads (open from `Start` to the close, the forwarding thread in between), and
`Flow` says that the client's lines are, in order, read by the console, in the terminal, carried by the
forwarding thread, or still on the wire; the `quit()` of a client that is gone is put in only when the wire
is empty. `MCNet` only puts the components side by side, and `PartsStep` says that a step of it is one of
each or leaves it alone. For the client, `ShownInOrder` is inductive with the
types. `TextMoves` says what a step may do to the text: the console prints, a read adds to the buffer, the
buffer is shown; or, only with a Ctrl+C, a read is lost, what has been written stays in the buffer, or what
has not is forgotten. `ReadInOrder`, `LossInOrder` and `PartInOrder` show that each keeps the order. Assumed
are the assumptions of the modules.

*The decoder.* The invariant `DecoderInv` says where the decoder is in the stream (`DecoderPlace`): what it
holds and what is yet to come, together, are between two calls what follows some part (`AtSeam`); while it
synchronizes the same, or a tail of junk with what follows (`Between`); in the search for the end of a
header what starts with a message (`AtHeader`), and in a body what starts with the rest of it (`AtBody`).
What it has returned are the bodies before that place. The hard step is the one that finds a header. That
three bytes which look like one are the beginning of a message needs that junk has no header in it and
completes none, whatever comes after it (`JunkMarks`, `FollowingMarks`); and that the end of the source is
not met before the last message, that a message not yet returned still has its mark in what is to come
(`EndOrMark`). `LengthField` and `BodyField` say what is read from a header, and `NumeralIsNumber` that the
decimal digits of a number, of any size, are read back as that number. Nothing is assumed of the chunks:
the place is kept until the search for the end of a header holds `Limit` bytes (`overrun`), and nothing is
claimed afterwards, where the run `decoder_chunks` shows what is lost. With small chunks the search
never holds so much (`Room`), which gives `SmallChunksFit`; it is for those who choose a source with smaller
chunks, since those of the package read up to the limit.

The decoder needs induction, over numbers, streams and junk. An induction theorem whose parameter is a
predicate is of no use here, so that `Induction` states it with sets: a set of numbers with 0 and the
successor of each member has all (`SetInduction`), and a nonempty set of numbers has a least member
(`NatLeast`). What is shown of every number is then the set of the numbers of which it holds. From this come
the existence of functions defined by recursion, and that `FlattenSeq`, which the library defines by such a
function, takes `Append` and concatenation to concatenation.

*The testing framework.* `ExtentsInv` has four parts besides `BookkeepingMatchesNesting` and
`FailuresAreHeard`: the types (`Data`), that a signal being offered is the innermost thing that goes on
(`Walking`), that a restart on its way has its test below it on the stack (`Escaping`), and that what a
testset has counted since its start is what went wrong in it, failed and errored apart (`Ledger`). A
construct can be left in four ways, so the proof goes by kinds of steps: a construct begins, or two with a
session, a test turns into a signal, one is closed, or the stack stays. That the barriers and the postprocs
are those of the constructs on the stack is stated by counting: the value of a construct stands where the
number of constructs of its kind from there inwards puts it. It needs no induction over the stack, only that
a step changes each number by one at most.

*Memoize.* That no key is evaluated twice rests on a chain. `LocksHeld`: a thread owns the locks of the
functions it computes, and of the one whose memo it looks at again. `Descending`: the keys a thread computes
have strictly descending ranks, so no key occurs twice in one thread. `NotYetMemoized`: a key that is being
computed has no result yet. `EvaluationsCounted`: a key that has no result and is not being computed has
never been evaluated. `ReadyToRead`: who reads the memo after the lock finds a result. The invariant `IInv`
is their conjunction with the types, `ComputedOnce` and `AnswersAgree`; one lemma per action, a step for
each conjunct the action can disturb. Assumed is `MemoizeAssumption`: in particular that the ranks descend
along calls, without which a function would not end.

`OneTable` is a refinement, by the same invariant: a lemma for each kind of step says which step of the
table it is. The guard of `Evaluate`, that no one else evaluates the key, is what `LocksHeld` and
`Descending` are for; `ReadyToRead` and `NotYetMemoized` give those of `Answer` and `Settle`.

*Memoized generators.* What an instance refers to is always there (`EntriesExist`), and who is between lock
and unlock owns the lock of its entry (`OwnersHold`). From this, `GOrder`: the memo of an entry is a
beginning of what its generator gives (`MemoInOrder`), of which at most one item more has been taken, by the
owner of the lock (`ItemsPulled`, `ResultsFound`). This needs that the generator of an entry has its items
to itself (`~OneIterator`): `imemoize` may make two entries with one iterator between them (finding 7). That
instances give items in order also needs that a position read before the lock is still right under it
(`PositionsOwn`), hence instances that are not shared (`~Sharing`); the run `memoization_shared` shows what
happens otherwise. Both hypotheses are constants, and hold in the run `memoization`.

*Dynassign.* `StacksFollowBlocks` needs to know that a thread which has not used `dyn` has entered nothing
(`NothingBeforeUse`), so that what it takes over is its whole stack. What threads share follows from
`BlocksOfOneThread`: no scope belongs to blocks of two threads, because a new block has a new dictionary.
The steps come in two shapes, `Rewrites` (the stacks stay, the contents of scopes may change) and `Restacks`
(the blocks of one thread change, and what is new among them is a new scope), besides `FirstUse` and
`CreateView`. The lemmas about sequences say that pushing to and popping from a concatenation acts on its
second part, which is why the inherited part is never popped. `WholeUpdates` follows from the lock:
an update under way in the main thread excludes `FirstUse`. Assumed is `DynassignAssumption`: what the
constants are.

*Interning.* That there is one object per name rests on the double check. `LockHeld`: who is between the
lock and the write owns the lock of the registry. `NoneBeforeMaking`: a thread that is about to make an
object is still the only one that could, so that the registry has no entry. `FreshIsUnused` and
`RegisteredLives` relate the registry to what is alive in both directions: what lives is registered, and
what is registered lives; `CallsAreForKeys` and `WritersHaveTheirs` say what a thread in the middle of a
call has. There is one lemma per action; the steps that change neither objects nor references share one.
Assumed is `InterningAssumption`: what the constants are.

*Environments.* `BindingsAreKept` speaks of constructs that are half done, so that the invariant must say
what they have not done yet: `NotYetGiven` (a name whose turn has not come has been given nothing by the
construct), `FinalizedBeforeBody` and `ThunksHaveConstructs` (which user code runs in which phase, hence
what it may do), `NothingReservedGiven`. The operations of user code have one lemma, with a step for each,
and the steps of the constructs another. `FirstIsKept` says which items of a `do0` are done, and that the
name in which it keeps its first value has this value from then on. Assumed is `EnvironmentsAssumption`.

*Promises.* `Provenance` says of any overlap that what is stored, on its way or given comes from a run of the
thunk, and that a flag which is FALSE comes from one that raised.
While no two forces have overlapped (`overlapped` is history), at most one thread is in `force`;
then all runs of the thunk but the last were left by an escape, value and flag agree with the last or the
thread between the two assignments is about to make them agree, and all outcomes but the escapes are that of
the last run (`Alone`, `RunOnce`, `OnTheWay`, `OutcomesAgree`). Without the hypothesis this part is false,
as finding 14 says.

*Escapes.* `Sound` is about stack and escape continuations: a valid one has its `call_ec` on the stack
(`Reachable`), the anchors on the stack have different addresses (`Distinct`), between two trampolines there
is a call that is not a tail call (`Apart`, `Rooted`), and `OnItsWay` says that an escape under way has the
uid of a `call_ec` that is still there. The theorem assumes `NoUidsCaught`: no `catch` of the user names, as
a tag, the integer that `id()` gives some anchor. The code does not exclude it, since tags and uids are
compared alike, but nobody can know the integer before the call; the instance that TLC checks satisfies it.

*Cycles.* `Covered`: every call on the stack is in `visited`, and every target of a chain that has not been
cleaned up; no call is going on twice, and only the outermost one clears everything. `Accounted`: there is
nothing else, unless some body raises an exception, after which the targets of its chain stay (finding 13).
When no body raises, no result is one (`NoError`), so that no clean-up is skipped. The invariant was checked
by TLC on the instance of `control` before it was proved.

*Continuations.* Each continuation, chain and running body has, as history, the list of what it owes;
`PromisesMatch` says that as long as no promise is broken this list is what one gets by following `cc` and
`_pcc`: a continuation owes itself and what its first reference owes, a chain what its first and then its
second owes. References go to objects made before, which is why this definition needs no recursion. After a
broken promise (`broken`; findings 23 to 25) a behaviour ends, and nothing is claimed of it.

*Views.* The cache of a view is renewed only if the length of what it views has changed. Why this is enough:
where a slice that is counted from the front has a place, this place does not depend on how long the sliced
thing is (`PlacesFromFront`), so that, of two ranges of an anchored view for two lengths of the list, one
begins with the other (`RangesComparable`); two of the same length are equal. The invariant `Caches`: each
cache that has been made is the range of its view for some length of the list, and is kept with the length
that what it views had then. `RefreshRenews` goes up from the list: what is viewed has its present range, so
its length is the present one, and a cache that is kept fits it. The slices themselves need arithmetic with
division: the places stay in range (`PlacesInRange`, for both signs of the step). The recursions along what
the views are views of are functions on `0..Len(views)`, which exist and are unique, since each view is of
one before it (`DescentExists`). Assumed is `ViewsAssumption`: what the constants are.

Only model-checked: liveness (`EndsAreReached`, `HaltHonoured`, `PromptsAreAnswered`, `ComputationsEnd` in
`CyclesAreCut`, `CallsAndNextReturn`), since the prover has no support for fairness; and all of the run
`algorithms`, whose modules use recursive operators, of which the prover loses its arithmetic, among them
`Multishot`, whose iterators drive each other.

## 5. Findings

Where the code does something else than its documentation or its comments say; `PROJECT.json` lists them
all, with the lines on both sides. They were met while modelling. Those with a run named are shown by a
violation there. The others are cases that a model has to exclude or to describe in order to be faithful,
and, except where said, were observed in the running library.

1. *Conditions.* A restart function that invokes a restart of its own block by name: it is found, but nobody
   catches the `InvokeRestart` (`conditions.py:692`; run `conditions_matching`).
2. A handler that enters and leaves a `with handlers` and then delegates makes `signal` raise RuntimeError,
   as the deque was changed during the walk (`conditions.py:523`). The model has this as `IteratorFails`.
   A handler that signals its own condition again and then delegates changes the protocol with which an
   outer `resignal` resignals it (`conditions.py:907`; run `conditions_resignal`).
3. *REPL.* A session may outlive its client, since all the server does is to type `quit()`: into an
   unfinished statement, into a full terminal, before a statement whose output nobody takes
   (`server.py:448`; run `repl_dropped`).
4. A remote Ctrl+C may hit a session that got the identifier of the dead one (`excutil.py:372`;
   `MisdirectedOnlyAfterDeath` is what is left; not observed).
5. A prompt that arrives in two reads is not recognized (`client.py:295`; `cut` in the model,
   not observed), and a
   Ctrl+C while a reply is awaited leaves the control channel dead (`client.py:127`).
6. *Messages.* The limit of the header search is compared with all that is held, so that large reads crash
   the decoder or lose a message; and a length that is not a number raises ValueError instead of a parse
   error (`msg.py:228`, `231`; run `decoder_chunks`).
7. *Memoized generators.* `next` reads its position before it takes the lock, and opening the first instance
   checks and creates without one (`gmemo.py:103`, `123`; run `memoization_shared`).
8. `StopIteration` is memoized too, once for each further `next`, and counts in `len` (`gmemo.py:131`).
9. *Tests.* `terminate` is swallowed by the innermost testset (`fixtures.py:711`).
10. *Dynamic assignment.* A thread copies the main thread's stack when it first uses `dyn`, not when it is
    started (`dynassign.py:24`; run `dyn_copied`).
11. The copy is one of the list, not of the dictionaries in it (`dynassign.py:31`; run `dyn_copied`).
12. *Tail calls.* A jump to a function that is `@catch` outside `@trampolined` loses the catch
    (`tco.py:174`).
13. *Cycles.* The targets of a chain of jumps count as visited until the chain ends, and after an exception
    (`fix.py:262`); with `memo=True` what was computed inside a cycle is memoized for good (`fix.py:284`).
14. *Symbols and promises.* Between the test and the lookup the last reference may go, and `sym` raises
    KeyError (`symbol.py:79`; forced); the pickled state of a singleton may be overwritten by a constructor
    (`singleton.py:164`); a promise that is forced between two assignments returns the exception as if it
    were the value (`lazyutil.py:66`; forced), and one whose thunk is left by what is not an
    `Exception` holds nothing and is evaluated again (`lazyutil.py:65`).
15. *Environments.* `env(...)` sets each initial binding twice, so that `assignonce(x=1)` is refused
    (`env.py:72`).
16. `update`, `pop` and others bypass the checks of `assignonce` and of names (`env.py:150`, `161`).
17. In a finalized environment `update` takes pairs for names (`env.py:156`).
18. A binding that is named like a parameter of the implementation collides (`let.py:85`).
19. *Containers.* A view of a view is not renewed when a list changes under both and the length in between
    does not (`collections.py:652`).
20. `in_slice` does not clip (`collections.py:881`).
21. `mogrify` applies the function twice to what occurs twice (`collections.py:88`).
22. `islice` with a negative start and a positive stop fails in an assertion (`slicing.py:94`).
23. *Continuations.* With two `call_cc[]` in a function, the parent continuation is lost at the second one
    (`tailtools.py:1112`).
24. A chain passes named arguments on to a continuation that does not take them (`tailtools.py:768`).
25. `call_cc[None]` runs what follows the function twice (`tailtools.py:1097`).
26. *Multi-shot generators.* An exception that is sent is raised, and `throw` on a closed iterator raises
    `StopIteration` (`multishot.py:376`).
27. Forks made during a delegation share the delegate (`multishot.py:198`).
28. *Dispatch and currying.* In a diamond, multimethods are not tried in MRO order (`dispatch.py:475`).
29. An extra positional argument eats a keyword-only parameter (`arity.py:556`); what is left over by a
    callable intermediate result does not raise (`fun.py:445`); `tokth(-n, ...)` is refused (`fun.py:999`).
    A curried function with annotations binds the arguments of earlier steps a second time, and fails
    (`fun.py:168`); `composerc` does not pass extra values where `composelc` does
    (`fun.py:901`).
30. *Sequences.* The signs of a power sequence are forgotten (`mathseq.py:337`), and other exceptions than
    SyntaxError are raised (`mathseq.py:295`).
31. *Backtracking.* The branches of `forall` share one object, so that a rebound name is not lexical
    (`amb.py:190`), and an unnamed line does not guard what follows from being evaluated (`amb.py:201`).
32. *Monads.* `liftm` constructs instead of using the unit (`monads/core.py:59`).
33. *Linked lists.* The walk of a tree with a stack yields an end before its time (`llist.py:174`); `llist`
    of a reversed iterator ignores what was taken from it (`llist.py:374`); `member(1, nil)` raises
    TypeError (`llist.py:397`).

## 6. Not modelled

* Formatting, logging, tracebacks, printing, the text of messages, the JSON of the control protocol.
* The Windows backend of the proxy: the same loop over socket pairs.
* What tab completion completes, `DescribeServer`, the banner, the job table of `bg` and `fg`.
* Macros as transformers of syntax trees: they are correct by the semantics of Python, of which there is no
  model here. What the expanded code does at run time is modelled where it keeps state: `Continuations`,
  `Multishot`, `Choices`, `Monads`, `TestFixtures`.
* Dialects: `bf` compiles to Python text, `befunge` interprets a grid, each one instruction per case; the
  code is its own definition, and the repository has no other to compare it with. The other dialects only
  arrange macros.
* `gtco` (trampolined generators), and lazy arguments (`lazify`) wherever they pass through.
* Floating-point and symbolic numbers: `s()` with them, `almosteq`, `ulp`, `fixpoint`.
* Containers that hold one value each (`box`, `Some`, `Shim`, `frozendict`), and functions of `it.py` that
  only wrap `itertools`.
* `timer`, the ETA estimator, `raisef`, `tryf`, `pack`, `slurp`: no state that another part sees, or
  wall-clock time.
* Thread safety across the condition system: its deques are thread-local, and threads do not meet.

## 7. Plan

Modules were written in the order of their hazards: conditions, the server and its protocol, memoization,
dynamic assignment and the testing framework, then control flow, containers and environments, then
algorithms. Every safety property of the passing runs, except those of `algorithms`, is now stated by a
theorem. What is left, in this order:

1. Refinements: an abstract session (registered, serving, over), which `ReplSession` implements and as which
   `ReplServer` treats its sessions; that `GMemoize`, with instances of one's own, implements independent
   iterators over one sequence; that `Dynassign`, in one thread, implements plain nested dictionaries.
2. `ReplClient` composed with `ReplSession`.
