# A verification of the fruity3 interpreter

fruity3 is an interpreter for a stack language: about 5,000 lines of C under
`src/src` (plus a vendored JSON library), a library written in the language
itself (`src/modules/*.fj`) and a manual (`src/web/main.kiwi`). It has no tests.
This directory holds TLA+ modules of its core, the TLC configurations that check
them on small instances, and TLAPS proofs of the properties that matter most.

The interpreter is one thread. What makes it hard is not parallelism but
re-entrancy: almost every C function evaluates program text in the middle of its
work, and that text can do anything to the structures the function is using:
replace the current stack, lock or grow the context it is about to write, import
a module that imports the one being loaded, raise, catch what it has raised, and
go on. Every module below is about such interleavings.

## 1. Inventory

Lines are of the files under `src/src` unless a path is given.

**Contexts** (`context.c`, `context.h`). State: each context has an array of keys
and one of values (open addressing, `HASH`), `capacity`, `count`, `parent`,
`lock`. Operations: create, get, set (both walk up the parents), bind (may grow
and rehash), and from elsewhere `lock` (`builtin.c`), `as` (`vm.c`, sets the
parent after a walk that refuses cycles) and the object literal (`vm.c`, clears
the parent at its end). Hard: rehash order, the last free slot, cycles, locks that
every caller has to test. Correct when: no stored key is lost, every probe and
every walk ends, a locked context never changes, and names resolve to the nearest
binding.

**Pending nodes** (`vm.c`, `AST_PREBIND`, `AST_PRECALL`). They test a lock, or
fetch a pointer into a table, evaluate a sub-expression, and then use what they
saw. Correct when: the pointer still belongs to the key, and nothing is bound in a
locked context.

**Value stacks** (`stack.c`). State: a struct with a buffer and `previous`; a
global pool linked through the same `previous`. Operations: acquire, release,
push, pop, move (which swaps buffers in one case), reverse, reserve. Correct when:
a stack has one owner from its acquisition to its release, and moved values keep
their order.

**Evaluator** (`vm.c`; the prompt of `main.c`). State: `vm->stack`, `vm->context`,
the exception, and the C stack of `evalNode`, `evalCall`, `evalSpecial` with their
saved locals. Operations: twenty-odd node kinds, calls, sixteen specials (map,
filter, zip, catch ...). It calls every other part. Hard: each function has to
restore the stack and the context it has replaced, on success and on failure, and
pooled stacks must not be reached through pointers that outlive them. Correct
when: `.` reaches the stack the innermost group interrupted, each body runs in its
own context, failures reach a catch without skipping a clean-up, and the whole
behaves as the manual's "stack of stacks".

**Module loader** (`module.c`). State: `vm->modules` (path, value), the loads in
progress on the C stack. Operations: absolute import, relative import, the file of
the command line; loading a `.fj` file (parse, evaluate in a new context, take
`_export`, call `_delay`) or a native module. Hard: cycles, failures at every
point, retries after a caught failure. Correct when: a file is loaded once, a
cycle gets a context that exists, importers share one value.

**Exceptions and traces** (`vm.c:1063-1166`, `parser.c:440-549`). State: symbol,
message, trace list, in globals of the VM that are never cleared. A trace is
started by a raise, extended by every call on the way out unless its node is one of
the quiet ones, and replaced by the next raise. Correct when: what a catch reports
belongs to the failure it caught, and nothing of an earlier one.

**Lists** (`builtin.c`, `list` to `lstsub`). State: a list is a `Stack` struct;
`list` and `lstchange` hand the buffer of `vm->stack` over to a list. Hard: which
struct owns which buffer, and which of them has been freed. Correct when: every
buffer has one owner.

**Sort** (`builtin.c:701-735`, `vm.c:513-600`). State: the global `sort_vm` and the
locals of `builtin_sort`; `qsort` calls back into `valueCompare`, and this into a
`_cmp` closure, which can do anything. Correct when: no index is read outside the
stack, and the result is what the comparisons said.

**Blob encoding** (`builtin.c:931-1184`). Three functions go through the same format
string, each with its own table of letters. Correct when: they agree, so that what
is encoded is decoded.

**Other built-ins** (`builtin.c`). String functions; the rest are wrappers of libc.

**Native interface** (`util.c`, `fruity.h`). Argument extraction by signature,
which for `*` overwrites the stack's buffer in place; list building by replacing
`vm->stack`.

**Tokenizer and parser** (`parser.c`). A sixteen-state tokenizer, a token
classifier with a number automaton and chain syntax, a recursive-descent parser, and
the errors, whose ranges are looked up in the text again when they are printed. The
end of the text is read as one more character. Correct when: tokens are what the
text says, the parser accepts the grammar, its tree is the program, and an error
points at its text.

**Symbols, values** (`symbols.c`, `value.c`). A linear symbol table with 16-bit
results; tagged values and their printing.

**Command line and prompt** (`main.c`). Options, the start-up imports, the
fallback prompt, which after an error only empties `vm->stack`.

**Native modules** (`src/modules/modjson.c`, `modpcre2.c`). Conversions to and from
JSON; `match` and `match_all`, whose loop must get past empty matches.

**parson** (vendored), **the library in fruity** (`src/modules/*.fj`), **website and
examples**.

`PROJECT.json` lists every component with its status, and every hazard found with
its line and the property that covers it, or the reason why none does.

## 2. Modules

| module | models | |
|---|---|---|
| `Contexts` | `context.c`, `as`, `lock`, object literal | detailed |
| `Scopes` | what contexts promise: maps with parents | abstract |
| `ContextsRefinement` | `Contexts` implements `Scopes` | |
| `PendingNodes` | `PREBIND`, `PRECALL` over `Contexts` | composition |
| `Stacks` | `stack.c` | operators over a heap and the pool |
| `Evaluator` | `evalNode`, `evalCall`, `evalSpecial`, prompt, over `Stacks` | composition |
| `StackOfStacks` | the manual's stack of stacks | abstract |
| `EvaluatorRefinement` | `Evaluator` implements `StackOfStacks` | |
| `Modules` | `module.c` and its calls from `main.c` | detailed |
| `Lexemes` | characters, numbers, identifiers, chains, string escapes, places in the text | operators |
| `Tokenizer` | `fpTokenize` | detailed |
| `Lexicon` | what the tokenizer promises: whole items read in one step | abstract |
| `Parser` | `fpClassifyTokens`, `fpParse`, `fpParseBody`, `fpParseChain`, over `Tokenizer` and `Lexemes` | composition |
| `Reader` | what the reader promises of tokens, numbers, literals and the places of errors; `Tokenizer` implements `Lexicon` | |
| `Grammar` | the language as a grammar, trees written back, and what the parser promises, over `Reader` | reference definitions |
| `Lists` | the list functions and the buffers they hand around | detailed |
| `Sorting` | `builtin_sort`, `valueCompare`, exceptions and traces | composition |
| `Blobs` | `blobFmtCalc`, `blobenc`, `blobdec` | detailed |
| `PatternMatch` | `match`, `match_all` of `modpcre2.c` | detailed |
| `Builtins` | `Lists`, `Sorting`, `Blobs`, `PatternMatch` side by side | composition |
| `Induction` | induction and recursion over numbers, for the proofs | theorems |
| `...Proofs` | theorems, see section 5 | |
| `MC...` | instances for TLC | |

### Contexts

`keys`, `vals`, `capacity`, `count`, `parent`, `lock` are the fields of the struct,
indexed by context. `op` is the C function that is running with its arguments and
locals; one step is one level of its recursion up the parents (`WalkUp`), or one
turn of the rehash loop (`RehashSkip`, `RehashMove`). `ProbesTo` says where a probe
loop ends and is false of every slot when it does not end, so that a table
without a free slot shows up as an operation that never returns. `open` holds the
contexts of object literals under evaluation. `Hash` is a constant; the instances
use the real `HASH`.

`Scopes` has maps instead of tables and answers each request in one step at its
return. `ContextsRefinement` maps the tables to maps, and an operation that has
been called but has not yet returned to a pending request.

### Pending nodes

`frames` are the nodes waiting for their sub-expression. Between a `Begin...` and
the matching `End...` any operation of `Contexts` may happen, which is what a
sub-expression can do. `AbandonTable` is the garbage collector's view of a grown
table: a held pointer keeps the old array alive.

### Stacks and the evaluator

A heap maps stack identities to structs; the operators of `Stacks` are functions
from heaps to heaps, because one step of the evaluator often does several stack
operations. Capacity is reduced to `big`: whether the buffer has ever had to hold
more than `PooledMax` values (64 in the code, counted as a capacity), which is all
`Stack_release` looks at.

`Evaluator` covers every program at once. Instead of a syntax tree, any node may
come next whenever `evalNode` looks at one, and any value may turn out to be a
closure, a native function or plain. What is kept exactly is the C stack: `frames`
has one record per waiting C function, with the locals it will read (`stk`, `ctx`,
`i`), and `control` says whether the innermost function evaluates, dispatches on a
popped operand, enters a call, turns a loop, or is being returned to with true
("ok") or false ("fail"). Each action is what the C code does between two of those
points; its guard is the code's condition, its failure alternative the code's
early return. Functions that treat their callee in the same way share an action
(`NodeOperand` is every node that starts with `evalAndPop`). The field `own` is a
history variable: the context a frame has made current.

Stacks that no frame refers to and that are not pooled belong to the collector
and may be handed out again; so may contexts, as an unreachable context and a new
one are the same thing to this model (`NewContext`).

`StackOfStacks` has no pool, no pointer and no buffer: a sequence of sequences,
with `Work` on the top one, groups, `Dot`, and modules behind a wall `.` cannot
cross. `rooted` says which stacks the prompt or a module has begun, `walled` in which
ones `.` raises. `EvaluatorRefinement` maps the stacks saved by group, argument, call
and module frames, outermost first, and then `vm->stack`; a stack is walled when its
`previous` is NULL. Two actions are in the abstract module because the code does what
they say and nobody would write it into a manual. `LoseImporter`: a module that fails
leaves its own stack in place of the importer's (run `lost_importer`). `EndZip`: the
two are not always the same stack afterwards, because `zip` has acquired its result,
with `previous`, before its closure runs; if an import fails and is caught within that
closure, `.` raises until the end of the zip and reaches the stack below again after
it. A stack begun by a module or the prompt never becomes unwalled that way.

### Modules

`modules` is `vm->modules` with a history field `progress`; `loads` are the calls
of `loadFruityModule` on the C stack. A module's body is what it does to the
loader: it imports (`Module_import`, `Module_importRel` are enabled during "body"
and "delay"), it binds `_export` and `_delay` or not, and it ends or fails. File
names are reduced to how they start, which is all the relative import and the
removal of "./" depend on. A closure defined in one file may run an import while
another is loading, so a relative import starts from any file parsed so far
(`parsed`).

### The reader

`Tokenizer` takes one step per character, with the sixteen states of the code. The
character at the end of the text reads as a line end, as in the code. `Lexicon` has
one step per item: a word, a string, a bracket, a comment. While an item is being
read, `ItemBegin` maps the tokenizer to the place where the item began; a line
comment maps to its end, as it produces nothing.

`Parser` keeps the recursion of `fpParseBody` as `frames`: each call is a frame with
the steps it still has to do for its unit (`Script`). A node is named by the token it
came from, so that the tree can be compared with the text. The code tests for a
failed `fpParseChain` at three places after it has parsed the sub-expression (`x:`,
`f!`, `f(`); the model tests before. No text tells the difference: `fpParseChain`
parses whatever `fpIsValidChain` has accepted, and no word becomes a token of these
kinds otherwise.

`Grammar` says which sequences of kinds are programs without reading them from left
to right (`SpansAt` computes, from the last token back, where a unit can end), and
writes a tree back as a sequence of tokens.

### Lists, sort, blobs, matches

`Lists` has a memory of buffers and the structs that point to them. `Stack_reserve`
moves a buffer that grows; the collector takes lists nothing refers to (`Collected`).
Every function begins with `fpExtract`, with its two failures: too few values, which
stay, and a wrong type, which has popped them all.

In `Sorting`, qsort is any order that its answers allow: it asks about pairs of
indices until the order it knows is total, and calls back into the stack each time.
While a `_cmp` closure runs the program pushes, pops, sorts, raises and catches. A
trace is the sequence of places `evalCall` and `traceNative` add.

In `Blobs` a format is a sequence of characters and the three functions read it with
the tables of the code, which differ: the code advances by 4 bytes after a double
(`Advance`) where it has written 8 (`Width`), and reads the letters for unsigned
numbers as signed ones and the other way round. The properties say what holds in
spite of that (`BlobsRoundTrip`), and `EveryItemComesBack` what a program would expect,
which fails. `f` rounds: `(float)` is `Rounded`, to the nearest number with as many
figures as a float has, the even one of two (`Ulp` is how far the floats around a number
are apart). 16777217 packed with `f` comes back as 16777216, and the property asks no
more of `f` than a float can hold. Which bytes a float or a double has is the compiler's
matter: they are constants, of which `FloatsAssumption` says that no two numbers share
them.

In `PatternMatch` the library may find any match its documentation allows; the
module is the loop around it.

## 3. Runs

All runs use the cfg named in `PROJECT.json`.

| run | shows | bounds |
|---|---|---|
| `context_table` | tables: `ProbeFindsKey`, `CountBelowCapacity`, `CallsReturn`, `ImplementsScopes` | one context, four keys, three of which collide, capacity 2 growing to 4 and 8 |
| `context_chain` | `ParentsAcyclic`, `LockedFrozen`, `ImplementsScopes` | three contexts, one key, two values |
| `pending_nodes` | `HeldSlotKeepsKey`, `CalleeWasBound`, `LockedFrozen` | one context, three keys, nesting 2 |
| `prebind_lock` | **violated** `BindNeverLocked` | one context, one key |
| `evaluator` | `PoolSound`, `PreviousIsEnclosing`, `BodyContext`, `OnlyCatchSwallows`, `IteratedStackKept`, `ImplementsStackOfStacks` | C stack of 4, four stacks and contexts, 3 values alive of two kinds, 1 when the C stack is full; 662,000 states |
| `lost_importer` | **violated** `DotsReachEnclosing` | C stack of 5, 1 value |
| `modules` | `LoadedOnce`, `CycleGetsContext`, `ValueStable` | two `.fj` files and a native module |
| `failed_import` | **violated** `ImportGivesModule` | same |
| `relative_import` | **violated** `RelativeFound` | same |
| `reader` | `ImplementsLexicon`, `TokensInOrder`, `NumberSyntax`, `AcceptsGrammar`, `TreeIsProgram`, `ReprReadsBack`, `ErrorsShowText`, `Finishes` | about 30,000 texts in fourteen families (`MCReader`), 399,000 states |
| `builtins` | `BuffersOwned`; `SortReadsInRange`, `SortOrders`, `TraceIsCallChain`; `BlobsRoundTrip`; `MatchAllEnds` | 4 buffers, 2 lists, 4 values; 3 values to sort, a call in a `_cmp`, 2 exceptions; formats of 2 letters and selected ones of 3; a subject of 3 characters; 1,020,000 states |
| `lost_double` | **violated** `EveryItemComesBack` | six formats with a `d` |

Why the bounds are enough. A table has to grow twice for a rehash into a table
that has itself been rehashed, with keys that wrap around the end: four colliding
keys and `START_CAP` 2 do it. A parent cycle through a middle context needs three.
In the evaluator, the interesting meetings are of a function that saves a stack, a
loop inside it that replaces the current one, a failing import or call inside that,
and a catch or the prompt around it: four frames. `PooledMax` is 1, so that stacks are freed, pooled
and reused within two values. `Deep` of `MCEvaluator` is the bound on values when the C
stack is full, where most states are; what a step does to several values, and in which
order, is seen below that depth. In the loader, a cycle needs two files, and a native
module differs in having no body. `context_chain`, `pending_nodes` and `evaluator` declare
symmetry for contexts or values, which appear in their specifications only as
identities (the one CHOOSE over them, `ValueOf`, picks a unique slot; the evaluator only
moves values), and the three check safety properties only.

The families of `MCReader` are sets of pieces that meet in the same part of the
reader: quotes, backslashes and line ends for strings; `/`, `*` and line ends for
comments; digits, signs, commas, dots and `e` for numbers; dots, marks and names for
chains; and programs of three to five units over the words that interact (`then`
with `else`, `until` with `do`, `import` with `as`, signatures, the three brackets).
All combinations up to four or five pieces are read, which is one more than the
longest rule (`then u else u`, `import c as c`) and enough for a rule inside a rule.
One family has every kind of token, in pairs.

In `builtins` the four parts share no variable (`Builtins` puts them side by side): a
behaviour is about one of them.
`FirstCapacity` is 1 (8 in the code), so that buffers grow within four values, and
`Byte` is 16 (256 in the code), so that a number reaches a second byte and the sign
bit. With bytes of four bits a float is of half precision and a double of single
precision, in the formats of IEEE 754 (`MCBuiltins` computes their bytes): `Precision` is
2048 (2^24 in the code) and `LargestFloat` 65504. The numbers are 5, 21, which is beyond
the sign bit of a byte, -2051, which a float rounds to -2052, and 70000, which is beyond
every float. Two lists are needed for a buffer that passes from the stack to a list to the
collector and back. `MaxLoad` bounds the depth of the C stack together with the
values: a sort inside the `_cmp` of a sort, with a catch around it. A subject of
three characters has an empty match at its start, inside and at its end.

The view of `MCEvaluator` identifies states that differ in the addresses of stacks
and contexts, or in the contents of pooled stacks and garbage: every reachable
stack and context is replaced by the place it is first referred from. Actions and
properties do not depend on addresses: the two uses of CHOOSE pick an element no
frame refers to, and `Stack_acquire` overwrites what the picked stack held. The
order between referenced stacks is kept, since each place in the view keeps its
own entry.

Fairness. Three properties need it, and it is always the same assumption: a C
function that has been called keeps executing, which a single thread does as long as
it does not block. `FairSpec` of `Contexts` adds `WF_vars(Step)` for `CallsReturn`,
that of `Parser` `WF_vars(Next)` for `Finishes` (the text is in memory, nothing is
waited for), and `MatchFairness` is `WF_mvars(Loop)` for `MatchAllEnds`. Nothing is
assumed of the callers, nor of what the library finds.

Deadlock is checked in the runs about the interpreter: the programs modelled can
always go on, as the prompt can always read another line. `reader` and `builtins`
have functions that end: `fpParse` returns, a blob is decoded, a search is over, a
process whose `lstsub` was given `begin > end` has ended, and the bounds stop a sort.

## 4. What disagrees with the documentation

Five runs are expected to find a violation; each is confirmed on a build of the
interpreter.

* `prebind_lock`: `x: (this lock 5)` passes the lock test of `AST_PREBIND`, and
  then fails the assertion of `Context_bind`: the process aborts where every other
  bind into a locked context raises.
* `lost_importer`: a failing `VM_evalModule` leaves the module's stack and context
  current. Once the failure has been caught inside a group, the group's values are
  out of reach and `.` raises a metastack underflow.
* `failed_import`: the cache keeps the entry of a failed load, and importing the
  module again succeeds with an unset or half-filled value.
* `relative_import`: a file named without a directory cannot import its
  neighbours.
* `lost_double`: `blobdec` tests that the blob has the size of the format, and then goes
  on 4 bytes after a double that has 8. `5 21 'dd' blobenc 'dd' blobdec` gives 5 and
  5.3e-315.

## 5. Proofs

TLAPS proves what follows for every set of contexts, keys, values, stacks, buffers,
lists and files, every hash function and capacity, and every depth of the C stack.

**ContextsProofs.** `TypeCorrect` (`TypeOK` is inductive as it stands).
`ChainsEnd`: `ParentsAcyclic` is not inductive, because `AsSet` would close a chain
if the walk had missed `op.ctx`; the strengthening `AsWalkInv` says that every set
that contains the new parent and is closed under `parent` up to the point the walk
has reached does not contain the context. `LockedStaysFrozen`: `LockInv` says that
a bind or an `as` in progress works on a context that is not locked, so the steps
that write need no test of their own.
`NoKeyLost`, `FreeSlotRemains`, `ProbesEnd`: `TableInv`
combines "every stored key is where its probe ends", the count, and `GrowInv`,
which during a rehash splits the keys between the part of the old table still to
be moved and the new table, so that the key count never exceeds what the new table
was sized for. The lemmas are about one table: a probe's end is unique, filling the
slot where a probe ends keeps every other key findable, a probe of a table with a
free slot visits every slot (`ProbeVisitsAll`, arithmetic modulo the capacity) and
so ends.

`ContextsImplementScopes`: every behaviour of `Contexts`
is one of `Scopes`, under the mapping of `ContextsRefinement`. The steps that only
probe, or only move one slot of a table being rehashed, are stutters: the map of a
context is the union of what its new table holds and what is still to be moved from
the old one, and moving a slot takes from one half what it adds to the other. The
step that writes is the one change of the map the operation is for. What the answer
of an operation depends on was read many steps before, so the invariant carries it
along: `WalkInv` says that the owner of the key is still to come on the walk up the
parents (and for `as`, that the new parent inherits from the context iff the place the
walk has reached does), and `DeadEmpty` that a context not yet created holds nothing.
`Scopes` defines the contexts a walk meets (`Up`) by the sets closed under `parent`
rather than by recursion, so that one step of a walk can be proved about without
induction.

**Pending nodes** (the end of `ContextsProofs`). `PendingHeldSlotKeepsKey`,
`PendingCalleeWasBound`, `PendingLockedFrozen`. `NodesOK` says of each waiting node what
its pointer refers to: a slot of the context's own table that holds the node's key, or
the content kept from an abandoned table. Almost every step keeps the occupied slots of
all tables (`SlotsKept`); the two that do not are a write, which puts its value in the
history of every call of that name, and a grown table, which abandons the pointers into
it. The part of `TypeOK` that a slot with a key has a value is needed here: otherwise an
abandoned pointer could not be told from one that is still current.

**EvaluatorProofs.** `EvaluatorTypeOK`, `EvaluatorPoolSound`,
`EvaluatorPreviousIsEnclosing`, `EvaluatorIteratedStackKept`,
`EvaluatorOnlyCatchSwallows`. None is inductive; `IInv` is, with these parts: the frames
are well-formed and only the first is the prompt; the pool is a chain of pooled stacks
in which none occurs twice (`Chained`); the current stack and each stack a frame holds
are in use and are all different (`Owned`); `previous` of the current stack and of each
interrupted one is no stack or the one that the innermost group *around it* has
interrupted (`Links`); the counter of `filter` stays within the list (`Counted`).
`Owned` is why a release cannot pool a stack twice, and `Links` is why leaving a group
restores a stack whose `previous` is right again. The lemmas are about the kinds of
steps there are (work on the current stack, enter a group, zip, leave one, drop one on
failure) for an arbitrary heap and C stack; above them is one lemma per action.

`EvaluatorBodyContext`. A failing object literal that was
locked, and a failing module, leave another context current, so that no invariant can
say which context is current while a failure is under way. The theorem holds because of
who can see the end of a failure: the prompt, and a catch; a catch waits for a call and
for nothing else (`Nested`), and `evalCall` restores the context whether the body has
failed or not.

`EvaluatorImplementsStackOfStacks`, the refinement, from `IInv /\ BInv`. The proof
compares what can be seen of the stacks before and after a step (`Seen`: the values,
the roots and the walls of the interrupted stacks and of the current one) and has one
lemma per kind of step: the top stack changes, a stack begins, a group ends, a stack is
dropped, a `.`, an importer is lost. Most actions are *quiet*: no group is entered or
left, so that the only question is what became of the current stack. The difficult one
is the end of a zip, which puts a stack in place that was acquired long before. `Barred`
says what can have happened meanwhile: if the zip's result cannot reach a stack below,
then neither can any stack begun or made current within the zip up to the next group.
Without it a step from walled to unwalled could happen in a stack no zip accounts for.
Run `evaluator`, with a C stack of 4, cannot see this case: it takes an import
that fails inside a catch inside the closure of a zip. Without `EndZip` and `rooted`
the run passes all the same, and the theorem is false.

**Induction.** The library's induction theorems have an operator as a parameter, which
no installed prover can instantiate. `SetInduction` states induction with a set in its
place (the numbers that have the property), proved from the minimal element of a
well-founded relation, and `RecursionTheorem` states with a function from functions
to functions that a recursive definition whose value depends on points of a smaller
measure defines a function. `Saved` of the refinement, `CallsToCatch` of the traces,
`Doubled` of the lists, `Total`, `Parsed`, `Reach` and `Ulp` of the blobs, and `StringEnd`,
`Classified`, the runs of the number automaton, the escapes and their undoing, `Spans` and
`Left` of the reader are recursive functions, and every lemma about them starts
here (`IterationExists` is the case of n steps, one after the other). `SmallestIn` and `GreatestIn` are
about the smallest and the greatest of a set of numbers.

**BuiltinsProofs.** `ListsBuffersOwned`, from `Sound`: the store is well typed, no two
structs point to one buffer, no buffer in use is freed, values fit the capacity, and a
struct without a buffer has no capacity (without that, `Stack_push` into a struct whose
buffer was taken over would not allocate one). The lemmas are about the operations on a
store (reserve, push, take over, collect), and above them is one per list function; that
`Stack_reserve` always finds a capacity is an induction, and that it finds an unused
buffer an argument about cardinalities, from the assumption that there are more buffers
than structs.
`SortReadsStack`, from `SortInvariant`: `Nested` says that a sort waits for a comparison
and nothing else, that a comparison remembers the height of the stack its sort has
started with, and that while `sort_vm` is set no comparison has failed. This is what makes
the one test in `valueCompare` (one value more than before) enough for a sort that
`_cmp` re-enters. `SortSorts` adds `Knows`: what qsort has been told is true of the values it
was called for. That the result has each value as often as the input is counted through
the order of the indices, a bijection because it is onto a finite set of the same size.
`TraceComplete`, from `TraceInvariant`: while a failure is on its way, the trace it has
followed by the entries of the calls still to be left (`CallsToCatch`, recursive in the
C stack) is what was recorded at the raise, and the trace is not empty, so that a
quiet node adds nothing. A comparison that fails without a node of its own is the one
place where the trace is empty for a moment; the sort around it adds the first entry.
`BlobsReadBack`, for every format and every stack, every number of values a byte has, and
floats and doubles of any size whose bytes `FloatsAssumption` tells apart.
The invariant says which of its conditions `blobenc` has found true and that `packed` and
`result` are what the two functions make, so the proof is about those: `FlattenIs`
places each part of a flattened sequence at the sum of the lengths before it (`Up`),
`PackedIs` and `EncodingIs` show that `blobenc` writes as many bytes per letter as
`blobFmtCalc` counts, `HeadIs` that `blobdec` looks for a letter where its bytes are as
long as no double comes before, and `UnpackedIs`, with one case per kind of letter, that
it reads there what was packed. `UnpackedAre` and `ReadingIs` give every value its place
in the result, whatever was read, so the items after a double, which come out wrong, do
not move the others. `RoundedIs` bounds what a float loses by one part in `Precision`:
`UlpIs` shows by induction that the floats around a number are no further apart than that
allows, and `FloatBack` that the bytes of a float give it again. `IntBack` is the
arithmetic of the integers: the sum of the first k bytes is what is left of the number
modulo `Reach[k]`, by induction over k.

**ModulesProofs.** `TypeCorrect`, `NeverLoadedTwice`, `CyclesFilled`,
`EntriesKept`. The inductive invariant adds `Progressing`: an entry is loading as
long as a load on the C stack works on it, only the innermost load has not yet
opened its file, and the others have stored a value. `LoadedOnce` alone is not
enough for the last two: a closed entry stays as it is because no load in progress
refers to it. There is one lemma per kind of step: push, stay, pop.

**ReaderProofs.** `TokensAreInOrder`, for every text. `TokensInOrder` is not
inductive: what keeps a new token behind the last one is where the token being read
has begun. `Progress` says that the tokens end at or before a place that is `begin`
inside a word or a string and `curr` between tokens. The proof has one lemma for the
steps that yield nothing, one for those that do, and one for errors.

`ReaderImplementsLexicon`: the tokenizer has read the current item up to `curr`, and the
lexicon reads it at once, so what relates them is a statement about the part of the
item that has been read (`Scanned`): the sign it began with, and for a string that the
scan that `StringEnd` describes passes through `curr` in the present state. `StringEnd`
is a recursive function over the rest of the text, which may be as long as the text
allows; `ScanExists` shows with `RecursionTheorem` that there is such a function, and
`StringSoFar` says that its value at the quote is its value at `curr`: the states 6 to
15 are places between the `\` of an escape and its last figure. There is one lemma per
state for the steps within an item, one for each way an item ends, and one for each way
it is refused. After `fpTokenize` no step changes the tokens, and the errors the
other functions add are not lexical ones, so the verdict of the lexicon stands.

`ErrorsShowTheirText`: `RangeIsShown` is about `findRangeInfo` and `printTraceLine`
alone. Counting line ends up to the two ends of a range tells whether it lies on one
line, because the line ends before its beginning are a subset of those before its end
(`SameLine`). `Listed` says that every error has a range that is not empty and ends at
the terminator at the latest. For the errors of `fpParseBody` this needs `Placed`: the
next token is one of the text or the end, and every call on the C stack has read a token,
so that "the last token" of an error at the end of the input exists.

`NumbersAreWrittenAsSuch`. The automaton knows of what it has read no more than its
state; `Tells` says what each of the states 1 to 10 tells of the characters read so far
(which of sign, digits, point, digits, `e`, sign, digits there are, and which may still
be missing), and `InFirst`, `InStep` and `InBefore` carry it over the characters of the
word, with an induction over their number because the function that runs the automaton is
recursive. `NumberTextIs` relates what the last state tells to the two ways the
definition of a number takes the text apart.

`PrintedStringsReadBack`. `Spelled` says where each character of a string is in the
quoted one, and that an escape is a `\` and the letter that stands for the character.
From it follow that the scan for the end of the literal ends at the last quote
(`QuotedEnds`, from the end backwards), that `fpStringUnescape` gives the string again
(`UnescapeIs`), and both together (`QuoteReadsBack`).

**GrammarProofs.** `ParserAcceptsGrammar`, for every text. The parser knows on its C
stack what it still has to do; the definition of a program knows a set of places at
which a unit that begins here may end. The invariant relates the two: follow each
call on the C stack with the set of places where its unit may end such that the calls
around it can still come to the end of the tokens (`Tracks`, with `Left` for what a call
has left to do). Then the next token is in the set of the innermost call iff the whole
of the tokens is a program. Each step of `fpParseBody` moves the token and the set
together; there is one lemma for each (`...Goes`), and an error is raised only
where the set does not have the token and never can.

**TreeProofs.** `TreeIsTheProgram`, for every text: when the parser has found no error,
the tree of the block it returns, written back, is the text's sequence of tokens, each
from its own node (a `}`, a `)` and the words between two parts have none). `Written`
follows the links of the finished tree, and the parser links a node only when the call
that reads it returns, so that most of the tree is not yet reachable while it is read.
The invariant therefore speaks of the nodes and not of the tree: `E[i]` is the place
where the units that begin with node i end, 0 while the call that reads them is on the C
stack. A node whose call has returned is as its kind wants it, its links lead to the
nodes at the places where its parts begin, and the parts lie next to each other up to
`E[i]`; a node that is being read has the links to the parts already read (`Stage`), and
the call above it waits for the part that begins at the next token (`Waits`).
`Growing(E)` is all of it; there is one lemma per step of the parser (`...Grows`), and
for `SIGBIND` nodes, which the parser rewrites in place, that the names of a signature
stand one after the other (`Names`). From the finished `E`, `FinishedIsProgram` reads
the tree off by induction from the last token to the first (`Covers`). `Ranked` counts
the tokens that leave a trace in the tree: the `=>` of an empty signature leaves none.

Assumptions: the named ASSUMEs of the modules (a NULL identity that is not an
element, positive start capacity, native modules among the paths, and
`CharactersAssumption` of `Lexemes`: a string literal of one character is the sequence of
that character, which TLC takes for granted and the provers do not know, and
`FloatsAssumption` of `Blobs`: a float has four bytes, a double eight, and no two numbers
have the same ones), which TLC evaluates in every run of the module.

Only model-checked: `CallsReturn` (liveness; that each probe and each chain ends is
proved, that the operation therefore returns is not), `Finishes` and `MatchAllEnds`
(liveness).

## 6. Not modelled

**Values.** What operators compute, comparison of lists and other plain types,
truthiness, printing (except of strings). The model of the evaluator chooses. Of the
metamethods, `_cmp` is modelled in `Sorting`; the others are calls in `Evaluator`.

**Exceptions' contents.** Symbols and messages. `Sorting` has the traces; a native
function that returns false without raising is there as the sort that fails because
an inner one has cleared `sort_vm`: `TraceIsCallChain` leaves that case out by the
history variable `stray`, as the trace printed then is that of an exception caught
before (a hazard of the list).

**Blobs.** Fractions: numbers are doubles in the code, and those modelled are whole (what
a float makes of a number beyond every float is left open as well). Numbers that need the
sign bit, and items after a double, are not covered by `BlobsRoundTrip`: the code does not
bring them back. `lost_double` shows it for the second.

**Native interface.** Signatures with `*`, which overwrite the stack's buffer in
place, and `fpBeginList`. `lstsub` with `begin > end` asks memcpy for a negative
number of bytes, which is undefined: the model stops there (`"crash"`).

**The reader.** `fpDumpBlock` and `fpDumpAst`, which only print. Characters beyond
the printable ones the families use: the code looks at single bytes and gives no
meaning to others. Two things the model shows to be so and nobody may expect: a text
that ends inside `\u` is accepted without a token or an error, and a word in double
quotes is tokenized and then always an invalid token. `printTraceLine` prints no text
for a range over several lines that ends in the column it begins in (`Printed`), and
behind a highlight that reaches the terminator on its only line it asks `printf` for a
tail of width -1, which is not modelled.

**Symbols** are model values or their names; the 16-bit wrap of the symbol table is
a hazard with no property, as nothing else happens in that table. A native closure
passed to `evalin` (`builtin.c:814`) reads a function pointer as a syntax tree;
nothing after that is described.

Other built-ins, the command line, JSON values, parson and the library in fruity are
outside the core. PCRE2 is external: `pcre2_match` may find what its documentation
allows since 10.38, where a pattern can no longer move the start of a match from
inside a lookaround. The garbage collector is assumed correct. Running out of memory
and of C stack is not modelled.
