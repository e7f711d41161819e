# A verification of Ahaggar in TLA+

Ahaggar is a set of GCC plugins and scripts for code analysis. One plugin dumps
the AST of every function of a translation unit, one adds calls to run-time
checks behind chosen library calls, one (whose main file is not public) prints
the function calls of a unit and matches them against tables of patterns, and
Python scripts read those logs. Everything inside the compiler is
single-threaded; the difficulty is in state that outlives a call: static
variables of a recursive walker, one buffer for all functions, containers that
are walked while they grow, and callbacks the compiler may stop making. The
compilers of one build do run side by side, and share the directory their logs
are in with each other and with the scripts.

This directory holds models of the core of that code, the TLC runs that check
them and proofs, checked by TLAPS, of what matters most.

## Inventory

| Part | Source | State it keeps | Operations | What must hold |
|---|---|---|---|---|
| Text buffers | `buffer.c`, `buffer.h` | size, used, offset and the bytes of each buffer | init, fini, reset, flush, local_prepare, char, printf, indent, swap, copy, concat | no write past the allocation, texts as the calls say |
| Node caches | `cache-nodes.c/.h` | map, queue, counter | init, finish, insert, lookup, next_node | one numbering in order of insertion; a loop sees each node once |
| AST plugin | `ahaggar-ast.c` (from 866), `ahaggar.h`, `log.c` | options, descriptor, buffer, cache | plugin_init, start_unit, pre-genericize, finish_unit, finish | the log is complete and in order, only own descriptors are written, nothing is left |
| AST tree walker | `ahaggar-ast.c` (87-864), `walk-nodes.c` | `walker_depth`, `is_expr`, `print_location`, `symbol_prefix` | one callback for all tree codes, one walker per kind of node | the statics follow the nesting of the tree |
| Type printing | `nodes-utils.c`, `print-nodes.c` | none: the scratch buffer is allocated by each call | `__get_*`, `output_*` | a constant is read back as the number it is |
| Instrumentation | `ahaggar-xinstrument.c`, `xinstrument_calls/` | the block being walked, the table of checks | the pass, target lookup, insertion | the source with exactly its checks woven in |
| Call matcher | `fncalls-match.c`, `str-utils.c` | hash tables, compiled patterns, the current substring | init, populate, match, finish | each call is cut out once, with its own location |
| Call checks | `fncalls_checks/*.c` | none | argument splitting, checks per function | right argument, right verdict |
| GIMPLE walker | `walk-gimple.c` | none | one walker per kind of statement | an operand is one argument to those who read it |
| Log files | `log.c` | the directory, the descriptor | open, write, report, close | a log is one compilation's own, and is found under its name |
| Compiler log | `gcc-log.c` | none | messages for the terminal | |
| Log checker | `scripts/fncalls_check.py`, `scripts/pahaggar/` | the selected calls, the function being read | read, split, check | the functions of a log are checked, each with its own calls |

How they interact: the compiler calls the plugin's callbacks; a callback prints
into the one buffer of its plugin through the walkers, which GCC's `walk_tree`
calls back node by node, and writes the buffer to the log when the function is
done. The call matcher and the scripts read the text that was printed. The
instrumentation shares only the helpers with the others.

What is hard: values left in statics by an earlier node or function; inserting
into what is being iterated (the cache's queue, a basic block); sizes at the
boundary of a buffer; a callback that gives up half way (no log, a refused
function, an error of the compiled program) and the next one, which runs
anyway; writes that stop early; two compilations inside `open_log`, and a reader
of a log that is being written. `PROJECT.json` lists each of these at its line.

## Modules

| Module | Models | Composed with |
|---|---|---|
| `OutputText` | the promise of `buffer.c`: handles and texts, no memory | refined by `OutputBuffer` |
| `OutputBuffer` | `buffer.c` byte by byte | |
| `Numbering` | the promise of `cache-nodes.c`: numbers by first sight | refined by `NodeCache` |
| `NodeCache` | the pointer map, its queue, the loops over it | |
| `AstPlugin` | the callbacks of the AST plugin in one run of the compiler | |
| `TreeNodes` | the nodes of a tree and what the walkers of types and declarations walk | `TreeWalker` |
| `TreeWalker` | the walk of function bodies and its statics | |
| `XInstrument` | the instrumentation pass over a function | |
| `FncallsMatch` | the call matcher, from loading its tables to the output for a function | hands the arguments of a call to callbacks |
| `GimpleText` | what the GIMPLE walkers and the constants of `nodes-utils.c` print for an argument | |
| `CallArgs` | those callbacks, over the C splitter of arguments, and the Python splitter | extends `GimpleText`: it splits what that prints |
| `LogFile` | `log.c` for any number of compilations, a system call per step | |
| `LogChecker` | the scripts that read logs | extends `LogFile`: both take steps side by side |
| `MC...` | the instances TLC checks | |
| `Selecting` | the elements of a sequence that are in a set, as a function the provers can expand | used by `AstPlugin`, `XInstrument`, `LogChecker` |
| `...Proofs` | theorems about the module of that name and their proofs; those about `OutputBuffer` and `NodeCache`, with the refinements of their abstract modules, are in `ContainerProofs`, those about `LogChecker` in `LogFileProofs`, and those about `GimpleText` in `CallArgsProofs` | |
| `SequenceLemmas` | induction, and what recursive definitions compute | used by the proofs |

`AstPlugin` treats what `TreeWalker` prints for a body as one piece of text,
and the buffer as a sequence of pieces, which is what `OutputText` promises;
`OutputBuffer` below it may therefore be read on its own. `FncallsMatch` takes a
callback as the set of argument texts it accepts; `CallArgs` has what the
callbacks of the repository do with such a text.

### OutputBuffer

The memory of a buffer is a function from positions to bytes: characters, the
Nul, or the junk `xrealloc` leaves in the part it adds. `offset` is a position.
`Expand`, `Printf`, `PutChar`, `Concat` are the C functions on one struct; the
actions apply them to what a handle points to. The loop of
`output_base_indent_to` is a step per column (`IndentStep`). `output_base_copy`
frees a destination that is too small and updates only its own copy of the
pointer, so the caller's handle becomes `Dangling`; the model never uses a
dangling handle again except to store a new buffer in it. That only a text that
does not fit can do this is part of `ImplementsText`. The abstract text cannot
see allocation sizes, so it allows the loss for any longer text.

### NodeCache

`pmap` and `queue` are the two containers, `index` the counter, a 32-bit
`unsigned` whose width is `IndexMod`. A caller's loop is its `struct pmap_queue
*idx`; the nodes it was given are recorded in `seen`. The precondition of
`pmap_nodes_finish` (no loop under way) is the callers': the entries they
would go on from are freed. No code of the repository calls
`pmap_nodes_next_node` yet: `LoopComplete` is what the interface offers to a
caller that inserts while it walks.

### AstPlugin

A callback is a step; what it prints and writes, frees and opens is all in that
step. The environment chooses the options, a failing `open`, how much of each
`write` succeeds, whether an error is found in the program, whether a unit that
has one ends without `PLUGIN_FINISH_UNIT`, an abort at any time, and which of
the three standard streams are open when the plugin is loaded (`inherited`).
`open` gives the lowest free descriptor, so a log may take the place of a closed
stream; a write to a descriptor that is closed fails. A log on descriptor 2 is
taken for stderr by `finish_unit`, which then neither syncs nor closes it:
`NothingLeftBehind` says that this log, and no other, is still open at the end.
`out` records each write of the log with what was asked, what was done and the
value returned. What the plugin and GCC report on stderr is left out, also where
stderr and the log are one.

### TreeNodes and TreeWalker

Each node is a pointer into the constant heap `tree`; `TreeNodes` says which
nodes the accessors of each code give and what each walker of `walk-nodes.c` for
types, lists and declarations walks of them, a sequence of walks in order. The
loops over the dimensions of an array are the recursive functions `Innermost`
and `Dimensions`. Types form a graph with cycles, as a structure has fields that
point to it; fields are there in the heap, and no walker follows them. What else
a node has are its `Parts`, and `HeightAssumption` says that GCC makes a node
after its parts: a node is none of its own parts, however deep. The loops end
because of it. `TreeWalker` adds statements and expressions and walks. The C
recursion is a stack of frames: a frame is a callback, or the walk of a
function, with what it still has to walk, the change it makes to `*indent_level`
around its walks, the value it saved, and what it will restore. `Enter` is a
callback up to its first walk, `Leave` its end. A `MEM_REF` is printed as the
arrow of a component, and looked through to the callee, if it is a plain
dereference (no offset, nothing folded into it); the static chain of a call is
walked behind its arguments. `EnterDefault` is a node the callback has no case
for: it returns at once and GCC walks the operands in the same walk, skipping
nodes that walk has seen (`SkipSeen`). Lines are not kept: what a node prints is
decided by the statics when its frame is pushed, and the properties are about
those. `ERROR_MARK`, which changes nothing, is left out, and so is the
declaration of a function inside a function: there the code asks a function type
for arguments, which it does not have.

### XInstrument

A step is the visit of one statement or one entry of its target's table.
`gsi_for_stmt` and `gsi_insert_after` put a check at `gsi + 1`. The builders of
the checks are in a header that is not in the repository: they return a call or
NULL, freely. A function that is itself one of the checks may be compiled. Of
the table it is assumed that no check is a target and none is there twice for a
target, as in `xinstrument-calls.h`. The statements of a function are told apart
by a number each, standing for the pointer. `ChecksFollowTarget` is about every
moment of the pass, `ResultIsWoven` about its end.

### FncallsMatch

The buffer is a sequence of lexemes in which every character the matcher
searches for or steps over (blank, newline, brackets, parentheses) is one of its
own, so the arithmetic on substrings is that of the code. Loading is a step per
table and target, collecting the calls of a function a step per call, output a
step per iteration of the loop in `process_output`. The plugin that prints the
calls is not in the repository: `StartFunction` and `WalkCall` follow what the
matcher expects of it and `doc/main.c.237.ahaggar_fncalls.log`. `log` has what
was put out for the current function, `calls` what is in the buffer; `Expected`
computes from `calls` alone what a table has to say, as the reference.
`OutputIsRight` compares messages; their locations are a matter of
`LocationIsCalls`. `ArgsOf` is the text between the first parenthesis of a call
and the first bracket; that it is clamped to `TMPBUF_SIZE` and loses its last
character is left to `CallArgs`, where the callbacks look into it. The tables of
the repository are all switched off or missing, so `Builds` has tables of each
shape the types allow.

### GimpleText

A leaf is what the tree walker prints, an integer or a string constant; a
statement has a walker and leaves. A text is a sequence of lexemes in which the
characters that readers look for are lexemes of their own. `__get_int_cst` has
the branches of `nodes-utils.c` on a word of `Word` numbers, for a compiler whose
`HOST_WIDE_INT` has one word or two; pointer constants have their type in front
and are no size to a check. A string of exactly `MAX_STR_PRINT` characters gets
its "..." too, since the length GCC keeps counts the Nul. Walkers print nothing
for codes they have no case for (`vec_cond_expr` is the one in the instance; other
vector codes and dot products go the same way), which is an empty argument to
those who read the call. The plugin that calls the walkers is not in the
repository; `doc/main.c.237.ahaggar_fncalls.log` shows that an argument is the
statement that defines it, and that a nested call is put on a line of its own.
`Lexeme` is what texts are made of, any set that has the lexemes the walkers put
in by themselves (`LexemeAssumption`).

### CallArgs

A call is the sequence of its arguments, its text what `GimpleText` prints for
it. `EndOfArg` is the loop both splitters have; the walk of a caller's loop is
`Walk`. Any check may be made of any call, one after another.

A check does not get the text of the call but what `regexp_match_cargs` cuts out
of its `Line`, which goes on with a blank and the "[" of the location: what is in
front of the first "[" (`Copied`), as far as the temporary buffer goes
(`TmpBuf`), with the Nul written over the last character (`tmp_buffer`). The
buffer is counted in lexemes; what is left of one that loses its last character
is `Shortened`, and one of a single character is gone. Of a call without a "["
among its arguments the character lost is the blank behind it. Of one with an
array reference or a string with a bracket it is the last one in front of that,
and the arguments from there on are lost. The step over ", " (`AfterArg`) may
pass the Nul of such a text, into the zeros the matcher has put there; behind a
full buffer it leaves the buffer (`Overruns`), and the check may return
anything. The Python splitter gets the whole line of the log.

`strtol` and `strtoul` have the range of a long (`ULong` values) and set
`errno`, which every check looks at (`Unread`): a constant out of range gives no
verdict, though the value returned is the limit of the range. `strtoul` takes a
minus sign, and counts from the other end.

The properties about single arguments are of texts that can be split by counting
parentheses: a string constant with a comma or a single parenthesis in it
cannot, and nothing in the code treats strings apart. `OffsetsInText` is of all
texts, wherever they were cut. `CSplits` and `VerdictRight` are of calls that
reach the check whole (`HandedWhole`); `CutOnlyHides` says of those that do not
that a check may miss its argument, and may count too few, but reports no size,
flag or mode that the call does not have. The comment at
`fncalls-match.c:558` has it that the bracket searched for is that of the
location; it is the first one behind the parenthesis. More limits show in the preconditions: an empty argument at the end is lost by the C
splitter, and any empty argument ends or is skipped by the Python one; an
expression that begins with a constant, as `<integer_cst> 4 - n`, is taken for
the constant (`ConstantInFront`); and where `__get_int_cst` prints one word, a
constant that does not fit in it comes out as another (`Misprinted`): one of two
words on a compiler of wide words or of a pointer type, and on a compiler of
narrow words a signed one whose high word is 0 or -1 though its low word has the
other sign. What is printed for a number is a lexeme (`Digits`), none of the
readers' and not that of another number (`WordsAssumption`); `OperandsAssumption`
says what leaves and statements are made of, as GCC makes them.

### LogFile

The directory maps names to files, a file is a sequence of lexemes, and a
descriptor keeps its file when the name is removed or taken by another one. Each
system call of `log.c` is a step: `lstat`, `unlink` and `open` of `open_log`,
the header, one `write` per function, the three writes of a report. `unlink`
and `open` may fail, a write may fail, or stop early; half of a text stands for
any part of it. A symbolic link under the name of a log is a `Link`; it leads to
no file, as `open` has `O_NOFOLLOW`. `get_file_perms` only decides whether
`open` succeeds, which is free here. `report` has the descriptor of the log; no
code of the repository calls it, `log.h` says what it is for. A compilation may
stop for good between any two steps, nothing forces it to take the next one.

Two history variables name what is beyond the code: `clash` has the compilations
of one name that were inside `open_log` at one time, or could not remove the log
of one that still writes; `torn` those that had a function cut short. The
properties are about the others. Two compilations inside `open_log` may end up
with one file, both writing from its start; no text of the repository promises
that they do not.

### LogChecker

Python's iteration over a file is a line per step, of whatever the file holds at
that moment; an end of file is the end, also when a writer goes on. A write of a
function is seen whole or not at all, as it is one `write`. `parse_input_calls`,
`check_fncalls` and `run` are the methods of those names. A check is what
`Exports` has; the module with the checks is not in the repository. Standard
input ("-") is left out. When a header or a report lost its end, the function
after it begins in the middle of a line and is not recognised: that no other
calls are checked still holds then, that none is missed is said of the functions
that begin a line. `run` refuses a list of calls like `x,*`, whose first has no
check though the second selects every one, since it asks for each name by itself
(`NothingSelected`). `is_compiled_call` looks a name up with `getattr` on the
object of the checks, so that the names of that class's own methods count as
checks, too; no function is assumed to have such a name, nor that of `str(None)`,
which is the name of a line without a call (`CheckerAssumption`).

## Runs

| Run | Instance | Shows |
|---|---|---|
| `buffer` | 2 handles, 3 characters, texts up to 3, `BUF_SIZE` 1 | every size the code computes, when full and when doubling is not enough; refinement of `OutputText` |
| `node_cache` | 3 nodes, 2 loops, 2-bit index | one numbering; loops complete; refinement of `Numbering` |
| `ast_plugin` | 3 functions (with and without body, main file and included), 7 option lists, 3 callbacks, each set of open standard streams (3.5 million states) | completeness and freshness of the log, descriptors, leftovers |
| `tree_walker` | one function per statement over every expression of two operators, with nested lists, loops, ifs, switches, jumps, labels; declarations and arguments of 17 types; any number of functions in a row | the statics follow the nesting; no walk comes to its own node; walks end |
| `walker_locations` | the same | a call in a nested block prints no location, against `doc/ahaggar_ast_format.txt` |
| `xinstrument` | first block of 2 statements of 7 kinds or 3 targets, second of at most one, table of two checks and of one | the result is exactly the woven source; the pass ends |
| `fncalls_match` | 4 builds that load and 3 that do not, 3 functions called up to 3 times with 3 kinds of arguments, with and without a declaration | substrings within the text, right messages, all of them with one table |
| `fncalls_all` | one pattern over the whole call | it is never compiled, against `fncalls-match.h:48` |
| `fncalls_counter` | three tables | a table misses calls behind those of another one |
| `fncalls_location` | `warnings[]` only | messages have the location of the last call |
| `call_args` | up to 3 arguments of 30 forms, all 14 checks, a buffer of 32 lexemes, constants beyond a long | both splitters return what was printed; constants are read back, or said to be out of range; checks look at the right argument; of a call that was cut they look at no wrong one |
| `logs` | 2 compilations of one source, an old log of another, 1 report and 1 failing write of the first, 3 selections of checks (3.4 million states, 2 minutes) | logs do not mix and keep their names; the checker checks what was printed, and only what was selected |

Bounds. `BUF_SIZE` is 1 so that a text of 3 passes through every branch of
`output_expand`: enough room, doubling, and more than doubling; the branches
depend on differences of sizes only, and the theorem `BufferSafe` covers all
values. Three nodes use every index of two bits but 0, the value that means
failure; two loops can be at any two places. Three callbacks let a refused, a
bodiless and a full function follow each other in any order. Two operators deep
is enough for each pair of a node that sets and a node that uses a static, with
one between. The 17 types have each branch of each walker, arrays of one, two
and three dimensions, structures that point to themselves directly and through
arrays and functions, and names that are not those of their types. Three calls
give a table a call of its own before, between and behind those of others; each
kind of pattern is in some table, and two patterns that could pass a message on
follow each other. Three arguments are as many as a check looks at, and some
calls of three do not fit in the buffer of the instance: they are cut in a
number, and right behind a comma, where the walk leaves the buffer (`Overruns`).
The branch of `Operand` that puts parentheses is not reached, as operands of
GIMPLE bind tighter than any operator. Three targets in a row make the iterator
cross six inserted checks. Two compilations are enough to be in `open_log` at
one time and for one to replace the log of another that still writes; only the
first reports and has a write go wrong, since what one does to its own log does
not depend on the other doing the same, and `LogsSafe` covers any number of
both. The first prints a function with a call inside a call, which takes two
lines, and one without calls.

Mutants. An operator commented as a mutant is never used by its module: it is the
named definition with a plausible mistake, kept to show that the property it
belongs to would notice. `PROJECT.json` pairs each property with one.

Fairness. `TreeWalker` and `XInstrument` assume weak fairness of the
walk under way, which is the only thread of the compiler, and none for a next
function. Deadlock is checked except in `AstPlugin`, where the compiler exits,
in `FncallsMatch`, where the matcher is done after `fncalls_match_finish`, and in
`LogChecker`, where the checker exits and compilations are done. No other module
assumes fairness: a buffer or a cache need not be used, the compiler may abort
between two callbacks, and a compilation may be killed at any step.

Four runs find what the documentation does not say. `is_expr` stays on inside
the blocks of an if, a loop or a switch, so the first call statement of such a
block takes itself for an operand and prints no location, while
`doc/ahaggar_ast_format.txt:51-52` shows every call with one. The other three
are in the matcher:

* `compile_regexp_match` tests the compiled expression, which is NULL, instead
  of its source: a pattern over the whole call (`all`) never matches. No table
  in the repository has one.
* `mcounter` counts the calls a table has, and the loop takes one off for every
  call it cuts. When one table has `strcpy` and another `free`, both called in
  that order, the second looks at `strcpy` and stops.
* The location of a message is searched backwards from the end of the whole
  buffer: it is that of the last call of the function.

`OutputIsRight` and `OneTableComplete` say what remains true: what is said is
right up to the location, in order and never twice, and complete if all targets
are in one table. Both need arguments without brackets: the matcher cuts a call
at its first closing bracket, also when that belongs to an array element among
the arguments. `CutsInsideText` holds with those, too, and `CutOnlyHides`
says what remains of the checks.

A check has the same limit at the opening bracket, which `HandedWhole` and
`CutOnlyHides` are about: of `open(names[i], flags, mode)` it is handed nothing
behind `names`, so `open_assumes_file_exists` counts one argument and a loose
mode goes unreported.

## Proofs

Every invariant and every action property the passing runs check is proved for
all values of the constants, under the assumptions named below.

* `BufferSafe`: `TypeOK` and `WellFormed` of `OutputBuffer`, for all handles,
  characters, formats, sizes and bounds. The conjunction is inductive: an
  operation stays inside the allocation because the buffer it starts from is
  well formed. The lemmas say of each C function that it keeps one struct good
  (`Good`), the actions then change one handle.
* `BufferRefines`: `OutputBuffer` implements `OutputText`, over the same
  invariant. For each C function a lemma says what it does to the text of one
  struct (`Held`): `StoredText` is the one about memory, the others come down to
  it. It is assumed that a struct is neither of the values for a handle without
  one (`Apart`).
* `CacheSafe`, `LoopsComplete`, `CacheRefines`: the invariants of `NodeCache`,
  that a finished loop has seen everything, and the refinement of `Numbering`.
  The invariant adds that a cache outside its lifetime is empty. That an index
  does not wrap around to 0 needs the assumption that there are fewer nodes than
  indices, by the pigeonhole principle: entries of the queue are distinct.
* `WalkerSafe`: the safety properties of `TreeWalker` for every heap of trees
  that has the arities the code relies on. The properties are not inductive: the
  proof strengthens them with what each frame records (`Inner`, `Bottom`): that
  the level saved is the level of the frame, that only statement lists walk one
  level up, that an untouched frame has all of its walks ahead, and that a jump
  has nothing left after its label. The stack lemmas (`ChangeTop`, `PushFrame`,
  `PopFrame`) carry this over a step once for all actions. That the loops over
  the dimensions of an array end, and what they compute, is proved
  (`ArrayLoops`, `ArrayGood`) from `HeightAssumption`.
* `NeverInItself`: `NothingInItself` of `TreeWalker`. Every walker walks lower
  nodes than its own (`TypeWalksType`, `FunctionWalksType`, `WalksType`), also
  where it goes past one to what is below, as from a pointer to the type of a
  function. So each frame is lower than the one around it and has only lower
  nodes left (`HeightInv`), and none can be there twice. The assumption is about
  what a node is made of; that fields and the names of types, which lead back
  up, are not followed is what the proof shows.
* `MatcherSafe`: `TypeOK`, `CutsInsideText` and `RawUnderDecl` of
  `FncallsMatch`, for every build, set of functions and arguments, brackets
  among them included. `SafeInv` has four parts: the text is a declaration and
  whole calls (`TextInv`), the counters are those of the calls in it
  (`CountInv`), what is cut out lies inside the text and moves forward
  (`CutInv`), and what is logged starts with the declaration (`LogInv`).
* `OutputRight`: `OutputIsRight` and `OneTableComplete` of `FncallsMatch`, for
  every build without an expression over the whole call (`NothingOverAll`). No
  table of the repository has one (`fncalls_checks/const-reports.h:9` is the
  type's only use, with `NULL`), and none would ever be compiled, as the run
  `fncalls_all` shows; with one, `Expected` would ask for what the code cannot
  say. `LoadInv` says what loading has compiled. `MatchInv` says that where the
  matcher stands in the text is behind a number of whole calls (`Layout`) and
  that what was put out so far is what is expected of those.
* `PluginSafe`, `RecordsFresh`: `OwnDescriptors`, `NothingLeftBehind` and
  `RecordsAreFresh` of `AstPlugin`, for any functions, options and number of
  callbacks. The invariant says what each phase hands to the next (`Before`,
  `During`, `After`).
* `LogComplete`: `LogIsComplete` of `AstPlugin`. It is inductive over the same
  invariant, with the lemmas about `Kept` and `FlattenSeq`: one more callback
  adds one more function to what was asked for and to what is expected.
* `LogsSafe`: `LogIsOwn` and `NameHoldsLog` of `LogFile` for any number of
  compilations and reports and every fault. The argument is about who is inside
  `open_log`: a compilation that met no other is alone there (`Alone`,
  `LastAlone`), so what its `open` truncates is nobody's log (`Unowned`), and no
  one else opens its log (`Unshared`); a file is only found under its own name
  (`NamesFit`). `LogsSafeWhileRead` adds the checker, which changes no log.
* `CheckerSafe`: `CheckerTypeOK` and `ChecksSelectedCalls` of `LogChecker`, for
  any number of compilations, logs and selections. `ReaderInv` says that a file
  being read holds lexemes, the function being read is a declaration and lines
  that are not empty, and that of every function handed to the checks the hits
  are the lines with a call that is selected and has a check.
* `ChecksPrinted`: `ChecksWhatWasPrinted` of `LogChecker`. Two parsers of one
  text are compared, the one that writes functions and the one that reads lines,
  and the text grows while it is read. `PrintedInv` says of the writer where
  each function it has printed is in what it sent; `FollowInv` says of the
  reader that at its place in the file it has handed to the checks what lies in
  front of it, and holds the lines of the function it is in (`Follows`).
  `NextOnward` shows that a writer only adds behind what can have been read, so
  that no step of a compilation disturbs this; the steps of the reader take one
  line of one function (`FunctionShape`). Compilations that were cut short
  (`torn`) or met another one (`clash`) are left out, as in the property.
* `TypeCorrect`, `ConstantsRead`, `OffsetsStay`, `CSplitterRight`,
  `PySplitterRight`, `VerdictsAreRight` and `CutsOnlyHide`: the invariants of
  `CallArgs`, for calls of any length, any leaves and statements and words of
  any size. The invariant is small, that the verdict is about the call there is
  (`VerdictIs`); what is to be proved is about data. The depth of parentheses
  goes up and down with the lexemes (`DepthStep`), which makes it the same in a
  text and wherever the text is put (`DepthSame`). What every walker prints is
  in each set of texts that is closed under concatenation, parentheses and lists
  in parentheses (`ArgTextIn`); the texts that can be split are such a set
  (`SplittableClosed`), so nesting does no harm and only a leaf can. `Layout`
  says where the k-th argument is in the text of a call and what is around it.
  Each time around, the loops of both splitters are in front of one argument
  more (`WalkInCall`, `PyHasNext`). What a check is handed is the whole text if
  no "[" is in it and it fits (`BufferIs`), and of a call that fits no walk
  leaves the buffer (`NoOverrun`). `OffsetsStay` needs no layout, only where an
  argument can end: at a comma the step is of two places, so it passes the Nul
  only where the last lexeme left is a comma (`WalkStays`). For `CutsOnlyHide`
  the walk over the cut text is compared with that over the whole: up to the
  argument with the cut they agree (`CutWalk`), and that one is no constant, as
  constants have no bracket (`ConstantNoBracket`). For the constants,
  `IntCstRight` says that the words printed are those of the number (quotients
  and remainders by `Word`), and `ConstantValue` that the reader comes to its
  number first.
* `ChecksSafe`: `ChecksFollowTarget` of `XInstrument` for every table that
  satisfies the assumption above and every function. The property says nothing
  of what the pass has not come to; the invariant adds that there are no checks
  ahead (`Ahead`, `Fresh`) but those of the target just visited (`ChecksFirst`),
  and which of these are there already (`AtTarget`).
* `ResultWoven`: `ResultIsWoven` of `XInstrument`. Up to the iterator, a block
  is the source with its checks woven in, from there on it is the source
  (`WovenInv`); the statement at the iterator is found by its number. The lemmas
  about `FlattenSeq` say what one more statement weaves in.

Induction. The library's theorems for induction take an operator for the
property, which the provers cannot instantiate. `SequenceLemmas` goes another
way: a set of naturals that is not empty has a least element (`LeastNatural`,
from the theorem about well-founded relations, which are sets), so a property
holds of all numbers, or nodes by height (`ByHeight`), if there is no least one
without it. `Recursion` and `Descent` prove that a function with the equations of
a recursive definition exists, along a number or along a height, without which
nothing follows from the definition; `Kept...`, `Flatten...` and
`JoinAssociative` are what the proofs need of the operators.

Assumptions are those of the modules: constants have their types, `Null` is not
a node, `BUF_SIZE` is positive, the arities of tree codes and the order in which
nodes are made, the table of checks and statements that can be told apart, tables
of the matcher with patterns of the types of `fncalls-match.h`
(`BuildsAssumption`), names and locations without the characters the matcher
searches for (`TextsAssumption`), functions printed as a declaration, lines and a
blank line (`PrintedAssumption`), no function called `None`
(`CheckerAssumption`); for calls, an even number of numbers in a word
(`WordAssumption`), the lexemes there are (`LexemeAssumption`), numbers that are
written apart from each other and from tags (`WordsAssumption`), what a lexeme
leaves when it is cut (`BufferAssumption`), and operands
with the arity of their kind whose type names have parentheses in pairs
(`OperandsAssumption`). TLC evaluates each of them on the instance of its run.

Only model-checked: liveness (`WalksEnd`, `PassEnds`), which is beyond
the prover.

## Not modelled

Text layout and the names types print as (`print-nodes.c`, most of
`nodes-utils.c`); `walk_bind_expr_node` and `walk_asm_expr_node`, which no code
calls; the splay-tree cache, the twin of the pointer map, into which nothing in
the repository inserts; the wording of messages and how the regular expressions
match; an option given without a value, whose NULL `ast_plugin_process_args` hands
to `strcmp`; messages for the terminal (`gcc-log.c`); `regex-utils.c` and the helpers
of `str-utils.c` that no code calls; the clamp of texts to the temporary buffer
in `FncallsMatch` (it is in `CallArgs`); the compiler (`walk_tree`, the pass
manager, `gsi_*`) beyond what the plugins use; the tables of functions and
patterns; the plugin that prints function calls and the Python module with the
checks, neither of which is in the repository; reading a log from standard
input; build scripts; the loader of GCC's tables in Python.

That a short write counts as success is what the code does, and what
`LogIsComplete` and `ChecksWhatWasPrinted` make an exception for.

## Plan

1. Done: the modules and proofs above.
2. The names types print as (`nodes-utils.c`), as far as a property would tell their
   texts apart.
