# Agumi: a verification project

Agumi (`src/`) is an interpreter for a small JavaScript-like language: a
tokenizer and a parser, a tree-walking VM with closures, a mark-and-sweep
collector, an event loop with micro and macro tasks, timers, asynchronous HTTP
requests on a thread pool (the `sion` library) and TCP servers on threads of
their own, plus a standard library written in Agumi itself.  This directory
holds TLA+ models of it, the TLC runs that check them, and TLAPS proofs.

Paths below are relative to the repository as it lies under `src/`, so
`src/src/Runtime.h` is the repository's `src/Runtime.h`.

## The system

| part | source | state it keeps | operations |
|---|---|---|---|
| event loop | `src/src/Runtime.h:164-268, 329-401` | `micro_task_queue`, `macro_task_queue`, `timer_map`, `required_event_customers`, `required_event_timer_id`, `event_required_queue`, `event_cross_thread_queue` | `Run`, `RunQueueTaskUntilEmpty`, `AddTask2Queue`, `StartTimer`, `RemoveTimer`, `AddRequiredEventCustomer`, the two `Push2...` |
| builtins of the loop | `src/src/PreDefineFn.h` | `included_files`, the event id counter | `runInMicroQueue`, `runInMacroQueue`, `start_timer`, `remove_timer`, `fetch_async`, `include`, `eval` |
| thread pool | `src/src/sion/sion.h:881-1097` | `queue_`, `threads_`, `stopped_`, `waiting_handle_response_` | `Start`, `Run` (callback and queue form), `Await`, `GetAvailableResponse`, `AsyncLoop`, `~Async` |
| HTTP client | `src/src/sion/sion.h:1-853` | per request: buffers, header | `Send`, `ReadResponse`, chunked bodies |
| TCP servers | `src/src/ServerBind.h`, `src/src/sion/server.h` | `sub_thread_channel`, `Server::connection`, connection ids | `make_server`, `send_server_data`, `close_server_connection`, accept and connection threads |
| interpreter | `src/src/Runtime.h:281-328, 403-990` | `ctx_stack`, `curr_scope_return`, `func_mem` | `Dispatch` and the `Resolve...` methods, `FuncCall`, `PushContext`, `PopContext`, `GetValue`, `SetValue` |
| closures | `src/src/Runtime.h:992-1245` | `closure_mem`, `Function::closure` | `ResolveFuncDeclear` |
| collector | `src/src/MemManger.cc`, `Object.cc`, `Array.cc` | `gc_root`, `obj_quene`, `vec_quene`, `can_reach_obj/arr` | `GC`, `ReachObjectNode`, allocation |
| abilities, operators | `src/src/PreDefineFn.h:19-163` | `ability_define`, `class_define` | `define_ability`, `use_ability`, `define_member_function`, `define_operator` |
| tokenizer | `src/src/Tokenizer.h` | offset, line, kind stack | `GeneralTokenizer::Agumi`, `JSON` |
| parser | `src/src/Parser.h` | token iterator | `Compiler::ConstructAST` and the `Resolve...` of each construct |
| JSON | `src/src/JsonParse.h`, `JsonStringify.cc`, `Value.cc` | token index, containers on the way | `JSON`, `JsonStringify::Call`, `DeepCompare` |
| values, strings | `src/src/Value.cc`, `String.cc`, `Vector.h`, `util.*` | - | comparison, conversion, formatting, paths |
| sockets on exit | `src/src/ResouceControl.h` | set of open sockets | `RecordSocket`, `FreeSocket`, destructor |
| entry point | `src/src/main.cc` | - | `-exec`, `-repl`, `-test`, signal handler |
| script library | `src/script/lib/*.as` | promises, key-value store, message queue | see `src/script/lib` |

How they meet: the main thread runs scripts and the loop.  `fetch_async`
registers a customer for an event and gives a request to the pool, whose thread
pushes the event when the answer is there; a timer of the loop polls that queue
and calls the customer.  `make_server` starts an accept thread, each connection
one more; what they read goes to the cross-thread queue, which the loop drains
at the head of a round, and what scripts send them goes through
`sub_thread_channel`, which the threads poll.  `include` and `eval` run a nested
program with a loop of its own.  The collector runs from the loop or from the
`gc` builtin, and knows as roots the global scope, the frames linked to it by
`#next-stack-key`, and the values captured by closures.  A script reaches
the interpreter through the tokenizer and the parser; JSON texts go through the
same tokenizer in another mode; `fetch` and `fetch_async` go through the HTTP
client, in the main thread or in a thread of the pool.

What is hard here: requests answered at any moment of a loop whose timers
remove themselves and whose functions raise; a loop that may only stop when
nothing is required any more; wakeups of the pool; the end of the process while
threads run; frames that must stay linked for the collector whatever `eval`,
blocks and exceptions do to the stack; captured variables that are copies;
channels keyed by thread ids, and sockets known by descriptors, that the system
reuses; replies cut into pieces anywhere; and hand-kept cursors over characters
and tokens, with lookahead and no bound.  `PROJECT.json` lists these
as hazards, each at its line.

## Modules

| module | models | state and actions |
|---|---|---|
| `EventLoop` | the event loop, its builtins, `include`, the prompt, and the pool and the servers as an environment | below |
| `MCEventLoop` | instance for TLC: the symmetry of requests and of files | |
| `EventLoopProofs` | theorems about `EventLoop`: types, timers, the end of the loop, order of the queues, customers | |
| `RequestPool` | abstract: what `fetch_async` needs of a pool | `Submit`, `Answer`, `Close`, `Closed` |
| `AsyncPool` | `sion::Async`: threads, `m_`, `cv_`, destructor | one action per step between two releases of `m_` |
| `MCAsyncPool` | instance for TLC | |
| `AsyncPoolProofs` | theorems about `AsyncPool`, with the refinement of `RequestPool` | |
| `Heap` | abstract: objects and arrays, references, collection in one step | `Allocate`, `Link`, `Unlink`, `Collect` |
| `Collector` | `MemManger::GC` and `ReachObjectNode`, step by step | allocation, references, one action per scanned node, the two sweeps, the rebuilt lists |
| `MCCollector` | instance for TLC | |
| `CollectorProofs` | theorems about `Collector`, with the refinement of `Heap` | |
| `Frames` | `ctx_stack`, the links of the frames, `curr_scope_return`, `eval`, `include`, `gc`, the prompt's `catch` | one action per begin and end of a statement, call, block, `eval`, `include` |
| `MCFrames` | instance for TLC: the symmetry of scopes | |
| `FramesProofs` | theorems about `Frames` | |
| `TokenFlow` | what the two parsers share: `CalcEndBrackets` | operators only |
| `Tokenizer` | `GeneralTokenizer`, for scripts and for JSON, `Escape` and `Unescape` | one action per kind of token, blank and comment |
| `Trees` | values as containers hold them, and written out | operators only |
| `Containers` | objects and arrays in a heap, and `Value::DeepCompare`; `EXTENDS Trees` | `SetKey`, `PushItem` |
| `JsonReader` | `JsonParse`; `EXTENDS Tokenizer, TokenFlow, Trees` | the tokenizer's actions, `Read` |
| `Json` | `JsonStringify`, and the round trip; `EXTENDS JsonReader, Containers` | `Build` (those of `Containers`), `Write`, `Tokenize`, `ReadText` |
| `HttpClient` | `ReadResponse`, `check_end` and `ParseBody`, against a peer | connect, read a piece, fail, finish; the peer closes or resets |
| `MCTexts` | instance for TLC: a text or a reply in each behaviour | |
| `TokenizerProofs` | theorem about `Tokenizer`, lemmas about sequences, `Escape` and `Unescape` | |
| `HttpClientProofs` | theorems about `HttpClient`; `EXTENDS TokenizerProofs` for the lemmas | |
| `JsonProofs` | theorems about `Containers`, `TokenFlow`, `JsonReader` and `Json`; `EXTENDS TokenizerProofs` | |
| `Parser` | `Compiler`: the recursive descent and `ConstructAST`; `EXTENDS TokenFlow` | `SkipLineEnd`, `Accept` |
| `Scopes` | names at run time: frames, closures, the visitor, calls; `EXTENDS Parser` | the parser's actions, `Execute`, `RunTask` |
| `MCScopes` | instance for TLC: token flows and families of scripts | |
| `Server` | accepting and connection threads, channels, cross-thread queue, `ResouceControl` | one action per step between two points where another thread can come in |
| `MCServer` | instance for TLC: the symmetry of connections and thread ids | |
| `ServerProofs` | theorems about `Server` | |

### EventLoop

The main thread is a state machine over `pc`.  In `body`, `crossCall`,
`microCall`, `macroCall`, `timerCall` and `pollCall` it is inside script code and
may do anything a script may do to the loop: queue a task, start or remove a
timer, call `fetch_async` or `make_server`, include a file (from the top level),
raise, or return.  In `head`, `cross`, `micro`, `macro`, `timer` and `poll` it is
inside the loop's own code.  Task functions are numbers, timers the ids that
`StartTimer` counts; the entry of a task or timer is popped after its call has
returned (`MicroReturn`, `MacroReturn`, `TimerTaskEnd`), as in the code, so that a
function that raises stays at the front.  The lambda that `StartTimer` queues is
the actions `TimerGone`, `TimerNotDue`, `TimerDue` and `TimerReturn`; the poll
function is `PollEmpty`, `PollEvent` and `PollReturn`.  The threads are the
actions of `Environment`: a timer's interval elapses, the pool answers, a server
listens, fails, or receives a message.

What the model leaves out: payloads; the sleep between polls; a nested `Run`
started by `include` or `eval` inside a callback (it would call the front of the
queue again while it is running); the data race on `event_cross_thread_queue`
(`Push2CrossThreadEventPendingQueue` locks `event_required_queue_mutex`, the loop
`cross_thread_mutex`), which is taken to lose nothing here and is an action of
`Server`; the values the lambdas
return (some paths of a `bool` lambda return nothing: the build is a debug build,
in which the unused result is garbage).

### AsyncPool

Each worker is a state machine over `at[w]` that follows `AsyncLoop`; `Main` is the
thread that calls `Run` and, when the process ends, `~Async`.  `waitSet` holds the
threads asleep on `cv_`, the destructor's among them; a notify wakes any one of
them, and any of them may wake spuriously.  `m_` is held across two steps only
between a worker's test of its predicate and its sleep, because the predicate
reads `stopped_`, which `~Async` writes without `m_`.  A request is a value of
`Request`; the three tests of `stopped_` drop it.

### Collector

Nodes are the addresses of objects and arrays; what an object or array holds is
the set of nodes it refers to, and `gc_root` is a node that is never freed.
The `#closure` object and the scopes of the VMs are ordinary nodes that the root
refers to.  Between collections the script allocates, links and unlinks, and
`Start` begins `GC`.  `ReachObjectNode` keeps the nodes it has to scan in two
stacks, here the sets `objSet` and `arrSet`: `ScanObject` and `ScanArray` (only when
no object is left) take one and `Reach` adds those of its children that were not
reached before.  `SweepObjects` and `SweepArrays` delete what is listed and not
reached; `Rebuild` makes the reached nodes the new lists and empties the marks.
`Heap` says what a user of the collector may rely on: one step, which removes
exactly what `gc_root` does not reach.

What the model leaves out: values held only by C++ variables, or by queues that
`gc_root` does not know; allocations by server threads; the threshold by which the
loop decides to collect.

### Frames

`calls` is the stack of the C++ calls that run script code: a program (`Run`, the
prompt's, an included file's, or that of `eval`), the evaluation of a call's
arguments, a body, a block.  Each is between two statements or in the middle of
one; in the middle it may evaluate any number of calls and blocks, include a file,
call `eval(script, true)` or `gc`, or raise.  `ctx` is `ctx_stack`, `link` the
`#next-stack-key` of each scope, `heap` the scopes that are allocated, `flag`
is `curr_scope_return`.  `depth` and `returned` of an activation are history: they
say what its code expects, have no counterpart in the program, and no guard reads
them.  `Reached` is what the collector finds from the bottom frame, as the
least set closed under the links; that `GC` keeps just this set is `Collector`'s.

`Ops` chooses what scripts do.  `"return"` alone stands for scripts whose return
statements come last: nothing is evaluated between the statement and the end
of its function, the return's own expression included (`return x`, not
`return f(x)`), and return statements do not stand at the top level.
`"afterReturn"` and `"topReturn"` drop that.  `"args"` lets arguments contain
calls.

What the model leaves out: the values; captured values (the second root of the
collector); exceptions that the script's host does not catch at the prompt (the
process ends); `eval(script)` without its second argument, which makes a VM of its
own; a nested run of the loop, which for the frames is one more body.

### Tokenizer, Json

Characters are one-character strings and a text is a sequence of them.  `ptr`,
`line`, `offset` and `res` are the tokenizer's; each action is one branch of
`Dispatch` with the cursor arithmetic the code does by hand (`compensate`, the
newlines inside template strings and comments).  `THROW_MSG` is the outcome
`"thrown"`, and so is the exception of `InitKwEnum` for `;` and `&`, which the tokenizer
takes for one character but `KeyWordMap` does not have.

`Containers` is a heap in which objects and arrays share and contain each
other, as scripts build them with `o[k] = x` and `push`.  `CompareWith` is one call of
`DeepCompare`, given what the calls inside it return; `Compare[n]` is the call that may
go `n` calls deep.  A call inside as many others as there are pairs of containers
compares a pair that is being compared already, and the recursion is `"endless"`.
`Unfolded` (what a value means) and `Flat` (what contains itself) are the reference.
A leaf is compared, and written, as the text `Value::ToString` makes of it
(`ValueText`).  Of a number that is `double2stringEarse0` of what `std::to_string` gives
(the constant `to_string`, a fact about the library): the digits behind three zeros
are cut off, and the dot with them.

`JsonReader` puts `JsonParse::Call` (`Read`) behind the tokenizer.  The descent is one
function over its calls, `Resolve`: a value from a token on, the rest of an array or
of an object up to its bracket.  The code loops over the elements where the model
calls itself for the rest.  `Grammar` is the reference, the JSON grammar over tokens.

`Json` joins the two: `Write` puts what `JsonStringify` makes of a container into
`text`, the tokenizer's actions read it, and `ReadText` makes it a value.  A text from
elsewhere starts at the tokenizer.  `Stringify` is one function over its calls (the
container, those on the way to it, the indent).  `Unfold` is the reference for what is
written, the value with a container on the way to itself cut off; `Reached` are the
containers that are written.
None of the references is used by an action.

What the models leave out: characters outside ASCII, whole alphabets (one letter
stands for those that continue an identifier), the doubles themselves (a number is the
text it was given as, `to_string` the one it gets, and `std::stod` of what is read back
is not computed), a root that is no container, `error_if_circle_ref`, which nothing sets.

### Parser, Scopes

Tokens are their texts.  Every `Resolve...` of `Compiler` is an operator that gives
a node and the position behind it; `Thrown` is `THROW_TOKEN`, `Overrun` an iterator
that was followed past the end token, which in C++ is undefined.  `ConstructAST` is
the two actions.  `TokenFlow` holds the bracket search, which both parsers use.

`Scopes` runs the same trees.  `Eval(n, s)` is the VM after node `n`: frames
with their scopes and closures, `func_mem`, `closure_mem` (one entry per source
position), the micro queue and `curr_scope_return`.  `Visitor` is the pass that
`ResolveFuncDeclear` makes over a function before its first use.  Beside `vm` runs
`ideal`, the same evaluator with `lexical` set: there a function keeps the scopes
it was made in, and names are looked up along them.  It is the specification the
other one is compared with, and follows no source.  `garbage` is the set of names whose
`Closure::stack_offset`, which `Closure::From` leaves uninitialised, is not 0.

What the models leave out: member functions, abilities and unary operators, all
binary operators but `&&`, `||` and the sum of numbers, exceptions caught in
scripts, collections (the frames under collection are `Frames`).

### HttpClient

A peer sends one reply, with a declared length, in chunks, or neither, and may
close or reset the connection anywhere in it.  `ReadHead(k)` and `ReadBody(k)` take
any `k` bytes of what is still to come, so that every cut of the reply into pieces
occurs.  The head is one byte and the empty line behind it, which is all that
`CanParseHeader` looks for.  `Ended` is `check_end`, a test of the last bytes read;
`ParseBody` then walks from size line to size line, as a recursive function.
`https` differs in the call that reads only.

What the model leaves out: building requests, the fields of the head but the two
that frame the body, name resolution, proxies, TLS.

### Server

A listener's thread (`acceptor`) creates its socket, records it, accepts, records
the connection, counts an id up and loads it, and starts a thread.  A connection's
thread (`worker`) takes what its channel holds, applies it (`SendData`,
`CloseConnection`, `EraseSocket`), and reads; what it has read it pushes to the
cross-thread queue in two steps, because the main thread does not wait for
`event_required_queue_mutex`.  The bytes with a number in `Nul` are NULs; of what a
read has filled, `Kept` is the text that `recv_e.val = buf` makes.  `SendData` writes
to a socket that does not block, and nobody looks at the result: the fate of an
answer in `written` is `"whole"` or `"short"`.  The main thread pops an event and
calls `messageCb`; what the script's handler sends, to any connection whose object it
has, is published to the channels one by one.  An exception of `on_accept`
(`AcceptRaises`) or of another task (`TaskRaises`) unwinds `VM::Run`: to the prompt,
where `main` stays until the user enters a line (`Input`), or to the end of the
process.  `Losses` chooses which of these failures a run has.  Descriptors are the lowest that is free and thread ids any that no running thread
has, so both are used again.  `process` becomes `"ended"` where an exception leaves a
detached thread or a write raises SIGPIPE, and `"torn"` where a push and a pop of
the queue meet; nothing is promised after either.

What the model leaves out: the size of the buffer a read fills, answers from tasks
other than the handler of a message (`send_server_data` may be called by any) and more
than one answer per message, the `init` and `close` events (`EventLoop` has them), the
close of the sockets at exit, the values and objects the threads allocate.

## Runs

| run | asks |
|---|---|
| `Loop` | at the prompt, with a request, a server, tasks that queue tasks, a timer, an included file that runs the loop early and an uncaught exception: are tasks run in order, micro before macro, and once; is there one poll timer just while customers wait; does every event find its customer; does no run of the loop return before all are served |
| `LoopLive` | do requests get their callback, messages reach theirs, tasks finish, once timers fire, and does a program without an open server end |
| `Pool` | no lost wakeup while the pool runs, no request doubled, no pop of an empty queue; does the pool implement `RequestPool`, and its fairness while the process runs |
| `PoolDestructor` | violation: the destructor's wakeup can be lost, and it then waits for ever, against the comment at `sion.h:904` |
| `Collections` | outside of a collection, do the lists hold what is allocated, and does nothing refer to a deleted node; does `GC` implement one atomic collection, and return, on every heap of five nodes |
| `FramesGc` | with collections, exceptions, includes and returns anywhere: is every frame that code comes back to alive |
| `FramesReturns` | with calls in arguments, `eval`, includes and exceptions: does code run on its own frame, and does a return cut its own function, at once, and no other |
| `Scripts` | short token flows through the parser: do operands keep their order, and are operators folded as the code folds them, from the right in two ranks; are statements whole, does the parser end inside the flow; and scripts with closures, run: do names mean what static scopes say |
| `ClosureUninit` | violation: a variable of two functions outside is lost when an uninitialised field happens to be 0, against `script/test/closure.as:10` |
| `Texts` | texts through the tokenizer: is none of it lost or read twice, are lines right, does reading end; containers through `JsonStringify`, tokenizer and `JsonParse`: do they read back, but for the digits that are cut off numbers; is JSON accepted and nothing else; is `DeepCompare` the equality of what values mean, leaves taken as the texts made of them; replies to requests in any pieces: is the body the one sent, and is a whole reply answered |
| `Server` | two connections whose threads may get one id and whose sockets one descriptor: with NUL bytes, short writes and exceptions of the script: do texts, answers and the set of open sockets stay with their connection, in order |
| `ServerLive` | does a connection that the script closes end, and does what a peer sends reach the script while its loop goes on, with resets and exceptions |

Type correctness of `EventLoop`, `Frames`, `Server` and the tokenizer is proved
(below), that of `Collector` as part of its invariant; that of `Parser` is the first
conjunct of `NeverPastTheEnd`.

Bounds.  `MaxTask`, `MaxTimer`, `MaxCross` and `MaxRaise` cap what scripts and
clients may do; they are guards of the actions concerned.  Two tasks are enough for
a task that queues another one from inside itself; a request and a server are
three required events (answer, listening, open), enough for a customer that is
erased while another waits and for a new poll timer after the old one; one uncaught
exception leaves a function that the prompt's next line calls again.  `Loop` has
4.06 million distinct states.  `MaxTask` also hides the starvation a script
can cause with micro tasks that queue micro tasks for ever.  The pool has two
workers and three requests: requests wait while both are busy, and a notify may
reach one worker while the other is between two steps.  The collector's heaps have
the root and four more nodes, enough for a cycle, a node shared by an object and an
array, and a node that is garbage while a neighbour is not; every graph over
them arises.  `MaxRefs` caps the references.  `Frames` has five scopes (addresses are
used again after a collection) and `MaxDepth` nested C++ calls: a call in an argument
of a call in a block in an `eval` takes five.  Links only ever concern neighbours
on the stack, so deeper stacks add nothing new; the theorems cover them.

`Texts` reads every text of up to three characters over twelve that begin or
continue a token, longer ones over the characters that meet in one kind of token
(comments, numbers, strings, operators, brackets), and writes heaps of three
containers with up to `MaxItems` elements, which is a cycle of two, or one
container in two places; of its three numbers one is cut to the text of another.  The replies have up to four bytes over `0`, CR and LF, the
bytes that the end of a chunked body is made of, in up to two chunks.  `Scripts`
parses all flows of up to four tokens over four alphabets, of up to seven for
chains of operators (`Chains`: four operands and any three of seven operators), and pairs of the thirteen constructs; it runs the
scripts of four families, a setup and some statements in every order.  The server
has two connections and two thread ids: the second connection can get the id,
the channel and the descriptor of the first.  A close may come late
and reach a third connection, which two do not show: the theorems cover any number.
`MaxSend` is two in `Server`, so that a message follows another
that is still on its way, and one in `ServerLive`; the first byte is a NUL, so that a
text can be empty or lose what is behind the NUL.

Fairness.  The main thread goes on (script functions return); time passes; the
pool answers each request, with an error if need be (the peer answers or closes:
the sockets have no timeout, so a silent peer is outside this assumption); an
accept thread gets to listen.  In the pool, threads that can run do; `m_` and the
tests behind it are strongly fair, since a mutex that is free again and again is
acquired in the end.  A collection that has begun goes on.  In the server every
thread goes on, and the main thread does while it is in the loop, which has the poll
timer as long as a server is open; after an exception it is at the prompt, where no
fairness holds of it, and `BytesArrive` promises no more.
The tokenizer goes on.  `Frames`, `Parser`, `Scopes` and `HttpClient` have no
liveness property and no fairness: parsing ends because every step moves forward
(`StatementsConsume`), and the client's part is that it does not wait for more than
a whole reply (`WholeReplyIsAnswered`).  Nothing makes a user type, a client send, a
server or a call fail, a thread wake spuriously, or the process end.

## What the code does not keep

Two disagreements with the repository's own words have a run each, `PoolDestructor`
and `ClosureUninit`.  The others are excluded by a condition of the property or by the
`Ops` of a run, named here so that they can be seen by dropping it.

- Frames.  With `"eval"` in `FramesGc`'s `Ops`, `FramesAlive` fails: after
  `eval(script, true)` a collection frees the frames of its caller.  With `"args"` it
  fails too: a collection in an argument frees the frame of the call (the link
  made at `Runtime.h:481`, "produces the gc association", comes after the
  arguments).  Both were reproduced with the program:
  `id(gc(), 5)`, and `eval('@{ 1 }', true)` followed by `gc()` in the same function,
  use freed memory.
- Returns.  With `"afterReturn"` in `FramesReturns`' `Ops`, `ReturnLeaves` fails: after a
  return in a block, or a return of a call, the function goes on
  (`script/test/return.as` expects otherwise); `() => @{ return 1` followed by a
  statement runs the statement.  The flag survives an exception, too: after
  `return f()` with an `f` that raises, the next function called at the prompt is
  cut after its first statement.  What is left for returns anywhere is
  `RunsInOwnFrame`, which is proved for them.  A bare `return` evaluates a null node.
- Loop.  With `"remove_any"` in `Loop`'s `Ops`, `RequiredBeforeExit` fails: `remove_timer`
  with an id the script was not given stops the poll timer, and the loop ends with a
  request outstanding (`Event.h:13-15`).
- Server.  With two listeners, `StreamKept` (drop the condition on `Listener`) fails: ids
  are counted up and loaded in two operations, and two connections may get one.
  What a script sends after
  a thread was told to close reaches the next connection whose thread has its id
  (`n` is 0 in `AnswersInOrder`), and a close among it ends that connection: the
  thread stops at the first close and leaves what is behind it in the channel.  The `close` event
  that the accepting thread waits for is published nowhere, and `close_server`, which
  `tcp_server.as:14` uses, is not defined.  A write to a connection that its peer has
  reset ends the process.  What a read has behind a NUL byte is lost
  (`server.h:105` makes a String of a `char*`), so `StreamKept` speaks of texts, each
  up to its first NUL, and not of bytes.  The sockets do not block (`server.h:66`)
  and the result of `write` is ignored (`server.h:78`): when the buffer is full, an
  answer is cut or lost and the next one follows it, so `AnswersInOrder` is about what is
  given to `write`, and not about what the peer gets.  An exception of `on_accept`
  loses the event it came with, and any exception in a task ends the loop that
  serves the connections, until the user enters another line, or, of a script that is
  run from a file, ends the process.
- Parser.  The precedence of operators is a known issue (`README.md:92`), and
  `OperatorsAreFolded` says what is made of them: `*` and `/` before all others, the
  operators of either rank from the right.  So `8/4/2` is `8/(4/2)`, `1-2-3` is
  `1-(2-3)`, `a%b+c` is `a%(b+c)`, `a+b==c` is `a+(b==c)`, and `!a&&b` is `!(a&&b)`.
  `CalcEndBrackets` runs past the end when a bracket is not closed; the end
  token's empty text counts as a number (`Unfinished` in `NeverPastTheEnd`); of a
  bracketed expression only the first statement is kept (the condition on `"("` in `InOrder`).
- Scopes.  `Tame` names what `StaticScopes` needs, each part where the code differs:
  assignments look from the bottom frame up and at no closure, so that assigning to a
  captured name changes another variable (`OneMeaning`); a name used before its
  declaration (`DeclaredFirst`); blocks and functions inside each other lose
  variables (`NoBlocks`); the visitor does not go into returns and matches
  (`NoReturns`) and takes the callee of `g(1)(2)` for an identifier (`NoChains`).
- Texts.  The text of a number is cut at three zeros (`util.cc:12-38`), which
  `DeepCompare` and `JsonStringify` both use: 1.0001 equals 1, and is written as `1`
  (`CompareIsSound` and `ReadsBack` take numbers as the texts made of them, `ValueText`).
  A comment of one line that the source ends in sets the cursor back to its
  last character, which is read as code (`OpenComment`).  A function in an array is
  written as it stands, which is no JSON; the comparison of two values that both contain
  themselves may recurse without end (`"endless"` in `CompareIsSound`); what follows an
  array or an object in a JSON text is ignored, and a bracket that is not closed is
  looked for past the end (both in `AcceptsJson`).  A backslash at the end of a string escapes the quote behind
  it; a newline in a string is written as it stands in an array or a key, and as
  `\n` in an object, which `Unescape` does not take back (`Quotable`).
- HTTP.  `check_end` may take a line of zeros in the data of a chunk for the last
  chunk, when a read stops there: the body is then cut without an error
  (`ZeroLine` in `BodyIsWhole`).  A chunked reply without data has five bytes, less
  than the seven `check_end` wants, and is never seen to be whole (`Recognised`).
  A reply without reason phrase is refused; one whose end is the peer's close fails,
  or comes with an empty body; an exception leaves the socket open.

## Proofs

`EventLoopProofs` proves, for all values of the constants:

- `TypeCorrect`: `Spec => []TypeOK`.
- `RequiredBeforeExitHolds`: when scripts only remove timers that `start_timer`
  returned (`"remove_any" \notin Ops`), the loop never returns with a required
  event outstanding.  The inductive invariant `LoopInv` says that every live
  timer has an entry in the macro queue (`LiveQueued`), that the poll timer is
  live exactly while there are customers (`PollTimerInv`), and that every event
  queued or on its way has its customer (`EventsInv`).  An empty macro queue then
  means no live timer, hence no poll timer, no customer and no event.  It is
  `LiveQueued` that needs the care: the entry of the running timer is the front
  of the queue until the loop pops it, and the function may have been queued
  again, removed, or have raised by then.

- `EventsHaveCustomersHolds`, with no assumption: `EventsInv` together with
  `CustomersServed`, that a customer whose event is not on its way finds it queued.
- `PollTimerServesCustomersHolds`, when scripts only remove timers that
  `start_timer` returned: `OnePollTimer` is inductive, since then only
  `AddRequiredEventCustomer` and the poll function touch the poll timer.
- `MicroBeforeMacroHolds`: the loop looks for a macro task only with an empty micro
  queue (`MacroPhase`), whatever script code queued, included or raised in between.
- `TasksInOrderHolds` and `RunsOnceHolds`.  The inductive `QueuesInv` says that each
  queue holds increasing ids and no entry twice (`MicroInv`, `MacroInv`), that what
  has finished is older than what is queued, and a finished timer is gone
  (`FinishedInv`), and that a task is of one queue, in it or finished
  (`OneQueueInv`).  `LiveQueued` gives the entry of a live timer.

`AsyncPoolProofs` proves, for any number of workers and requests:

- `NeverPopsEmptyHolds` and `RequestsHeldOnceHolds`: the two invariants, from the
  inductive `PoolInv` (who may hold `m_`, where sleepers are, and that queue and
  hands hold distinct, unanswered requests).
- `ImplementsPoolHolds`: `Spec => ImplementsPool`.  The main thread's place gives
  the abstract phase; a callback is `Answer`, and cannot come after `Closed`
  because a worker leaves `threads_` only with its last step.
- `WorkIsNoticedHolds`: while the pool is open, a queued request is looked at by a
  worker that is awake, or a notify is on its way, when any worker sleeps.  The
  inductive `NoticeInv` adds that a worker about to sleep has an empty queue before
  it (and `m_`, by `PoolInv`), and that a thread asleep is in the set `notify_one`
  chooses from: so a notify is heard, and nothing can be queued between the
  worker's last look and its sleep.

`CollectorProofs` proves, for every set of nodes and every heap:

- `QueuesListLiveHolds` and `NoDanglingHolds`.  The heart is the invariant of the
  marking: every marked node is reachable, and every child of a marked node
  that is not waiting to be scanned is marked.  When nothing is left to scan the
  marks are closed under references, hence just what `gc_root` reaches.
- `ImplementsHeapHolds`: `Spec => ImplementsHeap`; all of `GC` stutters but one
  step, at which the heap of the abstract specification loses what is not reached.

`FramesProofs` proves, for every set of scopes and every depth:

- `TypeCorrect` and `RunsInOwnFrameHolds`, for every choice of `Ops`.  The inductive
  `FrameInv` says what every activation below the top will find when it is the
  top again: its depth is that of the frames below the next activation, its
  scope is in its place, or in the `saved` of the `eval` above it.
- `FramesLinkedHolds` and `FramesAliveHolds`, when scripts neither call
  `eval(script, true)` nor evaluate calls for arguments (`PlainCalls`): exactly what
  the two violations need.  `ChainInv` adds that the frames are distinct, that a
  scope waiting to be pushed is allocated and on no frame, and that only the top
  frame's link may be stale.  That every frame is then `Reached` is an induction
  along the stack, done with the well-foundedness of `<` on the naturals.
- `FlagIsOursHolds` and `ReturnLeavesHolds`, when returns come last in their
  function and programs do not return (`PlainReturns`: neither `"afterReturn"` nor
  `"topReturn"` is in `Ops`); with calls in arguments, `eval`, includes and
  exceptions.  `ReturnInv` says that while the flag is set there is a function that
  returns, with nothing but blocks above it and nothing returning below, and that
  while it is not set nothing has returned or is at a return statement.

`ServerProofs` proves, for any number of servers, connections, thread ids and
descriptors:

- `TypeCorrect`, with what a thread has in hand at each of its places, and that no
  two running threads have one id (`PlacesInv`).
- `SocketsRecordedHolds`.  `SocketInv` says that two owners never have one open
  descriptor, that the thread that erases holds the mutex while nobody has recorded
  its number again, and whose each member of `sockets` is.
- `StreamKeptHolds` (the property speaks of one listener).  With one accepting
  thread ids are distinct (`IdsInv`), so an object and an event belong to the
  connection they were made for (`ObjectsInv`); then the texts received, those in
  the events of the queue and the one in the thread's buffer are of reads that follow
  one another, each cut at its first NUL (`StreamOf`).
- `AnswersInOrderHolds`, for any number of listeners, although their connections
  may share an id.  A channel is named by a thread id, so what counts is who runs
  with that id: an answer that is numbered lies in the channel of a thread that
  will take it (`ChannelInv`), and the answers of a connection that are written,
  taken, in the channel and still to publish are numbered in one row
  (`NumbersInv`).  A thread only comes to its end when it was told to close, or
  found an old close before it read anything (`DoomInv`); without that exception
  the property holds of two connections and fails with three.

`TokenizerProofs` proves for every set of texts:

- `TokensInPlaceHolds`.  `TokInv` says that the cursor is in the text, that `line`
  counts the newlines before it (`CursorInv`), that each token found so far is at
  its place and line, and that each gap is made of blanks and comments
  (`NothingLost`).  A text is data of any length: what holds at all of its places
  is shown by a least counterexample (`LeastOf`), and a gap that grows by a
  comment or a blank is one again.

`HttpClientProofs` proves for every set of replies, cut into any pieces:

- `BodyIsWholeHolds` and `WholeReplyIsAnsweredHolds`.  `HInv` says that what was read
  and what is still to come are together what the peer sent: the whole reply until
  the head is parsed, the coded body behind it.  The rest is about the coding, for
  any number of chunks of any size, written with any number of digits and of zeros in
  front (`HexIs`: `Stoi` reads it back): a body that has come whole
  is seen to be (`WholeIsEnded`); `check_end` says so of nothing shorter unless a
  chunk holds a line of zeros (`EndInChunk`, `EndedIsWhole`); and `ParseBody` takes
  from the whole coding the bytes of its chunks (`ParseBodyIs`).  `ParseBody` and
  `Stoi` are recursive functions: that there is a function with such an equation is
  proved before the equation is used, and what it computes is then an induction by
  least counterexample.

`JsonProofs` proves, for all values, keys and containers, and for all texts:

- `CompareIsSoundHolds`, about every heap scripts can build (`CSpec`).  `HeapOK` is what
  `SetKey` and `PushItem` keep: arrays have no keys, objects no elements, all values
  are there.  The rest is about one heap.  `CompareTrue` and `CompareElse` say what one
  call makes of those inside it; by induction on the depth left, `"true"` is only said
  of values that unfold alike (`EqualWhenTrue`), `"false"` and an exception only of
  values that do not (`DifferentWhenFalse`), and a call that goes too deep is about two
  values that lie on cycles or lead there (`EndlessIsDeep`).  Unfolding takes numbers
  as `ValueText` makes them, so two numbers with one text are one.
- `ClosingBracketCloses`: `CalcEndBrackets` counts the one kind of bracket it starts at,
  and between nested brackets that is enough.  `Missing` keeps the closers that are
  still to come; as long as it is longer than at the opening bracket, the bracket's
  own closer is in it, and the count is not zero (`OpenedMisses`, `HeightIsMisses`).
- `AcceptsJsonHolds`, for every sequence of tokens the tokenizer can give (`RSpec`).
  Calls and phrases have a rank, the distance to the end of what they may read, so that
  both recursions have a solution (`ResolveIs`, `GrammarIs`), and the three parts are
  inductions over it by least counterexample: what the reader accepts is derived by the
  grammar (`Sound`); what is derived is balanced in brackets of every kind, so the
  bracket the reader finds is the one the grammar means, and it accepts
  (`AllComplete`); and between nested brackets every call ends inside the tokens
  (`AllInTokens`).  `ReaderInv` is `TokInv` with a result made only of finished tokens.
- `ReadsBackHolds`, the round trip (`JSpec`).  `Lexes(t, K)` says that the text `t` can be
  cut into blanks and lexemes (quoted texts, numbers, words, marks) whose tokens are `K`,
  no lexeme running on into the next; texts that lex can be put behind each other
  (`LexJoin`).  `CutInv` is what the tokenizer keeps of such a text: its cursor is at
  one of the cuts and its tokens are those before it, whichever action comes next.
  `ReadsAs(K, tr)` says that wherever the tokens `K` stand among others, the grammar derives
  a value there and `Resolve` makes the tree `tr` of it; lists and objects of tokens that
  read as trees read as the tree of these (`ListOf`, `ObjectReadsAs`).  The recursions
  of `Stringify` and `Unfold` have solutions, as the path grows with each call
  (`StringifyIs`, `UnfoldIs`), and by induction over the containers that are not on the
  path what is written of a container lexes as tokens that read as its unfolding, cut
  at the same places (`Written`).  What `double2stringEarse0` leaves of a numeral is a
  numeral (`CutIsNumeral`), so the tokenizer reads it whole, and what comes back is the
  number as it was written, not as it was.  `JInv` joins this to the text that was written, and
  to the heap, which nobody changes between `Write` and `ReadText`.

Assumptions about constants.  `OwnTimersOnly`, `PlainCalls` and `PlainReturns` are
hypotheses of the theorems that need them, each at the point where the code fails
without (see above).  `RepliesAssumption`, `TextsAssumption`, `ContainersAssumption` and
`WritableAssumption` say what the constants are.  The first also has replies shorter than
2^31 bytes, since the code counts in `int` and a longer size is an exception; the third
that a `std::map` has its keys in order once, and that what is no container is not typed
as one; the second and the last what can be read back: strings and keys without newlines
that do not end in a backslash (`Quotable`; see the conditions above for why), and
numbers of which `to_string` makes what the tokenizer reads whole (`IsNumeral`, digits with
a minus in front and single dots: no infinity, no NaN).

Only model-checked: liveness under fairness (`FetchAnswered`, `QueuedFinishes`,
`MessagesDelivered`, `Terminates`, `CollectionEnds`, `ImplementsFairPool`,
`CloseEndsThread`, `BytesArrive`, `ReadingEnds`) and `ENABLED`, which are out of
the prover's reach; and `Parser` and `Scopes`, which are made of mutually recursive
operators over trees: the prover has no backend for `RECURSIVE`, and the
induction theorems of its library take an operator, which no backend
instantiates.  A function recursive over its calls can be reasoned about, as
`JsonReader` and `Json` show, at the price of a proof that it exists and of an induction
by hand for each property; for the forty operators of `Parser` and the evaluator of
`Scopes` that price has not been paid.  Every safety property of the other modules is a theorem.

## Plan

Modelled: `EventLoop`, `AsyncPool`, `Collector`, `Frames`, `Tokenizer`,
`Containers`, `JsonReader`, `Json`, `HttpClient`, `Parser`, `Scopes`, `Server`.

Theorems worth proving next:

1. `Parser`: `StatementsConsume` and the part of `NeverPastTheEnd` that is about the
   cursor.  It needs the descent as one recursive function over positions, in place
   of the operators, as `JsonReader` has it; `ClosingBracketCloses` is there.
2. `Scopes`: `StaticScopes`, which needs the visitor and the evaluator as functions over
   the tree in the same way.

Not modelled, and why:

- `Async::Run` without a callback, `Await`, `GetAvailableResponse`: the queue form of the
  pool, which only the library's own users could call; nothing in this repository does.
- A run of the loop nested in a callback (`include` or `eval` from a task): it locks
  `cross_thread_mutex` again in the same thread, or calls the front task, itself, again.
- Abilities, member functions and operator definitions: tables that are filled
  and looked up by type.
- The script library (`src/script/lib`): programs of the language, which the
  modules about the language stand below.
- Allocation by server threads, and lifetimes of syntax trees after an exception
  (`Runtime.h:413`): undefined behaviour of the memory itself.
- Values, strings, vectors, paths: conversions without state; those that a modelled
  component rests on (`ToBool`, `DeepCompare`, `Escape`, `Unescape`, `IsNumber`) are there.
- The entry point but for what the prompt does to loop and frames; the vendored
  `utf8.h` and the unused `threadpool.h`; TLS; the wording of messages, colours and
  profiling; file functions that only pass through to the operating system.
