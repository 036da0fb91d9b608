# Amun: a verification project

Amun is an LLVM-based compiler for a small statically typed language, in C++ (`src/src`,
`src/include`). This directory holds TLA+ models of its parts, the TLC configurations that check
them on small instances, and TLAPS proofs. `PROJECT.json` is the index: components, runs, the map
from definitions to source lines, hazards, findings, mutants and theorems.

## 1. The system

A run of the compiler is sequential: there is no thread, no asynchronous callback and nothing is
persisted but the output file. What is hard about it is not interleaving but *order*: several
recursive visitors share stacks, flags and an insertion point; one visitor starts another in the
middle of its own work; and each trusts that the others give everything back as they found it.

| Part | State it keeps | Operations | Works with |
|---|---|---|---|
| Commands and options (`main.cpp`, `amun_command`, `amun_compiler_options`) | the option record | choose one of seven commands, parse its options | driver |
| Driver (`amun_compiler`) | the context, the options | `compile`, `object`, `emit-ir`, `check`: parse, type-check, generate, write, link, each with its exits | all phases |
| Source manager, files, context | source id to path, the set of parsed paths | register a file, is it registered, read it | parser, diagnostics |
| Diagnostics | levels and lists of messages | report, count by level, print | every phase; errors stop the compilation |
| Tokenizer | position, line and column, start position | `scan_next_token` | parser |
| Parser, with directives and types | two tokens of look-ahead, `current_ast_scope`, `loop_levels_stack`, tables of generic parameters and structures | one function per construct; `import` and `load` start another parser on another file | tokenizer, source manager, diagnostics, alias table |
| Scoped tables (`ScopedMap`, `ScopedList`, `AliasTable`) | a stack of maps or lists | push/pop scope, define, look up, update | type checker, backend |
| Types, name mangling | none | equality, casting rules, mangled names | type checker, backend |
| Type checker | `types_table`, return-type stack, lambda state, generic instances | one visit per node; errors thrown as an exception | diagnostics, types |
| Backend: control flow | stacks of jump targets, two flags, the stack of deferred calls, `alloca_inst_table`, `is_on_global_scope`, the insertion point | one visit per statement, functions, lambdas, generic instances | LLVM's IRBuilder |
| Backend: values, types, globals | tables of functions, structures, constants | one visit per expression | LLVM |
| External linker | none | run a process, give its status | driver |
| Logging, colours, strings | none | formatting | driver |

### What is hard, and what makes each part correct

* **Backend, control flow.** Visitors are re-entered through three doors: the nesting of
  statements, lambdas (a function generated in the middle of a statement) and generic instances (a
  function generated in the middle of a call). Correct means that each function is a closed graph of
  blocks, each block with one terminator; that `break`, `continue` and `return` go where the program
  says; and that deferred calls run exactly once on every path, the latest first.
* **Parser, import and load.** A recursion of parsers over a graph of files, with cycles. Correct
  means that each file is parsed once, that it ends, and that an error in a file reaches the report.
* **Switch lowering.** A case has several values, a statement one body per case. Correct means that
  each value reaches the body of its own case.
* **Parser, control statements.** Two variables, saved and restored by different statements, decide
  whether a jump is legal. Correct means: exactly the jumps that have a loop to leave are accepted.
* **Driver.** Correct means that an error in any phase stops the ones after it and that the exit
  status says so.
* **Tokenizer.** Correct means that tokens and positions are those of the text.
* **Scoped tables.** Correct means that a look-up finds the innermost definition, and that an update
  changes that one.
* **Type checker.** Correct means: a construct gives back its scopes; lambdas capture what they use; every path of
  a value function returns; an instance of a generic is checked with its own types, although all instances share one
  syntax tree.
* **Backend, values.** The backend sees the type the checker left in a node, not the one it checked. Correct means that
  what is accepted can be generated, with the checked type and signedness; that a global starts with the value the
  program would compute; and that an instance of a generic is what a copy with the types written out would be.

## 2. Modules and plan

| Part | Modules | Run | Proofs |
|---|---|---|---|
| backend, control flow | `CodegenControl`, `CodegenDefers`, `MCCodegen` | `any_program`, `structured`, `nested_functions`, `break_two_loops` | `CodegenControl_proofs`, `CodegenBlocks_proofs`, `CodegenDefers_proofs`, `CodegenFlow_proofs` |
| import and load | `SourceTexts`, `FileClosure` (abstract), `SourceLoading`, `MCSource` | `plain_loads`, `parent_loads` | `SourceLoading_proofs` |
| driver | `Driver`, `MCDriver` | `commands` | `Driver_proofs` |
| type checker, statements and scopes | `ScopedMap`, `TypeChecker` | `checked` | `TypeChecker_proofs` |
| types, rules of expressions, generated values | `Types`, `TypeRules`, `Lowering`, `Expressions` (composes the three), `MCExpressions` | `typed` | |
| initial values of globals | `GlobalConstants` (over `TypeRules`), `MCConstants` | `constants` | |
| generic functions | `Generics` (checker), `Instances` (checker, then backend), `MCGenerics` | `instances` | |
| tokenizer | `Tokenizer`, `Tokens` (the reference, and the properties), `MCTokens` | `tokens` | `Tokens_proofs` |

Left to do, in this order:

1. `SwitchLowering`: a `switch` whose cases have several values, or that has no case, as operators.
2. `ParserControl`: acceptance of jumps, `current_ast_scope` and `loop_levels_stack`, against the nesting; the recursive
   descent over tokens, on top of `Tokens`.
3. `LocalVariables`: the values of local variables at run time, with the deferred calls of `CodegenDefers`; here
   belongs that defers run before the value of a return.

### Programs that are left out

The code has many places where two of its parts disagree. A property of such a part holds for the programs
that avoid them. These programs are named, never just absent: a module with a constant `Excluded` defines each
*feature* a program may have, and its cfg lists those it is free of. Each name on a list is needed: without it the run
fails. The tables below say what each one stands for. A feature that is not on the list is checked.

## 3. `CodegenControl`

Models the visitors of statements and of the things that contain statements in
`src/src/amun_llvm_backend.cpp`: blocks, functions, generic functions and their instances, lambdas,
`if`, `switch` with single-valued cases, `while`, the three kinds of `for`, `return`, `defer`,
`break`, `continue`.

*State.* The variables have the names of the members of `LLVMBackend` (`include/amun_llvm_backend.hpp`
lines 230-262). The functions under construction are one sequence, `blocks`, whose index is the
order of creation; `fn` says which function a block was placed in, 0 that it was not placed yet, and
`insert` is the insertion point of the IRBuilder. The C++ call stack is `frames`: one record per
visit in progress, with the locals it needs later (`end`, `cond`, `next`, the saved `insert`).

*Actions.* A visitor is cut where it calls `accept` on a body: an Enter action for what comes before, a Leave
action for what comes after; `NextBranch` is the code between two branches of an `if` or two cases of a
`switch`. A return is cut at its value: `EnterReturn` sets `has_return_statement` and generates the deferred
calls, `LeaveReturn` emits the `ret`, and in between (`returning`) the value may make functions. `Jump` has
what `break` and `continue` share. There is no syntax tree: wherever the next statement is visited, any
statement the parser accepts there may follow, so a behaviour *is* a program together with its compilation,
and TLC enumerates all programs up to a size.

*Abstraction.* An expression is one `work` instruction. A function it makes, a lambda or the first call of a
generic function, is a statement of its own that stands before the statement of the expression. For a
declaration, an assignment, a call, the conditions of an `if`, the bounds of a `for`, the values of a `switch`
and the arguments of a `defer` this comes to the same: their visitors set no flag before these expressions and
ask for none until after a body. A `while` pushes its targets before its condition (761), where a function
finds them below its own and leaves them. The value of a `return` is the exception: its flag is set (872)
before the value is visited (879). There functions are made inside the statement; the constant `ReturnMakes`
says which ones a program may make. `if` and `switch` as values are left to `GlobalConstants` and `Lowering`.
A deferred call is the number of its defer statement; conditions have no value, both successors of a test
count. History fields (`declared`, `brk`, `cnt`, `depth`, `scopes`) are written, never read by a visitor.

*Not modelled.* Bodies of value functions without a final `return` (the `CreateUnreachable` of line 413);
lambdas in globals; a function first called, or a lambda, in the condition of an `else if` behind a branch
that jumps; cases with several values and a switch without cases (plan, 1); a `defer` that is the body of an
`if` without braces.

`CodegenDefers` adds the properties about deferred calls. `DefersBalanced` runs the generated code:
it follows every path through the finished blocks with the stack of defers that wait.

### Properties

| Property | Says |
|---|---|
| `TypeOK` | the variables have their types; in particular generated calls are calls that were written |
| `StacksRestored` | the two stacks of targets hold the targets of the loops being visited and nothing else |
| `NoUndefined` | no `std::stack` is popped or read while empty |
| `DeferScopesMatch` | the scopes of defers fit the functions and blocks being visited, also those that wait for an inner function |
| `JumpTargets` | `break n` / `continue n` branch to the end / next round of the n-th enclosing loop of the same function |
| `BlocksClosed` | `NoCodeAfterJump`: nothing follows the terminator of a block; `Complete`: in a finished function each block is placed and terminated, so no branch ends without a jump, and jumps stay inside |
| `DefersRunAtExit` | a return calls exactly the pending defers of its function, the end of a block that is reached those of its scope, each once and the latest first |
| `DefersBalanced` | on every path through finished code each deferred call runs once per time its statement was reached, latest first, none left at the return |

### Runs

All runs use `MCCodegen`. A run chooses a class of programs through the constants: the kinds of
statement, which constructs may contain a return or a jump, whether jumps may stand before another
branch (`FreeJumps`).

* `any_program`: every program of the parser's grammar of up to four statements (closing returns not
  counted) with single-level jumps, and lambdas and instances made by the value of a return. These properties hold for everything. Four statements are enough
  for a loop in an `if` in a lambda with a jump, or a loop with two defers and a jump.
* `structured`: four statements of the constructs, one or three branches, and an instance of a generic function made beside
  or inside them, but by no return; returns only as the end of an `if` or `switch` branch; jumps only from a last branch and not over
  defers; no lambdas. For these the generated code is right in every respect the properties know.
* `nested_functions`: two functions, two generics, lambdas in lambdas, in generics and in the values of returns: the same for
  functions generated in the middle of others.
* `break_two_loops` shows the one disagreement kept as a run and a finding of `PROJECT.json`: `break 2`, as in
  `samples/controlflow/BreakTimes.amun`, makes the visitors pop an empty `std::stack`.

The model has more disagreements, for which no run is kept; each appears as soon as its statements are allowed:

* the else of `if {break} else {}` in a loop gets no branch to the end (`BlocksClosed`);
* `break` and `continue` over a `defer` run no deferred call (`DefersBalanced`);
* a deferred call of a function pointer, as in `samples/defer/DeferFunctionPtr.amun:11`, is never generated
  (`DefersRunAtExit`, with `"pointer"` among the kinds of defer);
* `if (x) return` without braces runs no deferred call (`DefersRunAtExit`);
* a generic function called inside a function leaves `is_on_global_scope` up,
  and the declaration of a generic function leaves it down for the globals after it;
* a loop whose body ends in a `return` branches back after it (`BlocksClosed`, with `Statements = {"while", "return"}`);
* a return or a jump that ends a block in a block is followed by the code of the rest of the outer one
  (`BlocksClosed`, with `"block"` in `ReturnIn` or `JumpIn`);
* `if (c) { return id<int>(1); }`, where this is the first call of `id<int>`, ends its branch with a `ret` and a `br`: the return
  sets `has_return_statement` (872), the instance made for its value resets it (374), and the end of the branch
  asks it (489) (`BlocksClosed`, with `Statements = {"if", "return", "generic"}`, `Generics = {g}` and `ReturnMakes = {"generic"}`);
* the return of a lambda is taken for one of the branch the lambda stands in (`BlocksClosed`, with `{"lambda", "if"}`).

The restrictions of `structured` are exactly the jump before another branch, the jump over
defers, the return that ends a loop, the lambda in a branch and the function made by the value of a return: dropping any one
of them makes the run fail.

*Bounds.* `MaxStatements` bounds the statements of the program, `MaxFunctions` the functions; both only cut
off larger programs. Deadlock is checked: `Finished` is enabled only when the unit is compiled or the
behaviour of the C++ program is undefined.

*Fairness.* None: all properties are safety properties. A visitor is a terminating recursion over a
finite tree, so the only liveness question of this part is the self-instantiation of generics, for which see
`Instances`.

*Mutants.* Each passing property is broken by a plausible mistake in the code: a forgotten
`push_back` of a block, one branch too few, only the innermost scope's defers run, `push_back` for
`push_front`, conditions counted as loop levels, defers or insertion point not restored after an inner
function, the test before the jump to the end inverted or forgotten, `break` popping its own target,
`continue` branching to the end of the loop.

## 4. `SourceLoading`

Models the parsing of a program that is made of several files: `parse_source_code` of the driver,
`parse_compilation_unit`, `import` and `load` with one name or with names in braces, `type` aliases,
`SourceManager`, and the counts of the diagnostics.

*State.* `parsers` is the C++ call stack, one record per `parse_compilation_unit` in progress: the
path of its file, `pos` (the index of `current_token`; `next_token` is the one after it), `at` (where
in that function it is) and the nodes it has collected. `files_map` and `files_set` are the source
manager's; `aliases` (at first the `Primitives`), `errors` and `warnings` are what the parsers share through the context; `unit` is
what the driver gets. `content`, the text of every file, is chosen at the start and never changes.

*Actions.* One per declaration and per piece of `import` and `load` between two possible
calls of another parser: the single form (`parse_one`), the opening brace, one name, the closing brace.
`Require` is what all of them do with a path: skip it if it is registered, refuse it if there is no such
file, else push a parser. `Throw` is `report_error` and `throw "Stop"`. `ReturnToParser` is both returns,
from `parse_compilation_unit` (which catches the throw) and from `parse_single_source_file` (which throws
again when there are errors). A token that cannot be scanned is met one token ahead, as in the
code: `Advances(p, n)` says whether the next n calls of `advanced_token` succeed.

*Paths.* The compiler compares paths as strings and never normalises them. A path is therefore the
sequence of its components as written; what file it leads to is `FileAt`, the file system's answer.
With `..` in names, one file has many paths, it is parsed again under each, and a cycle of such files
ends only when `std::filesystem::exists` throws on a path that is too long (`PathMax`), which nobody catches.

*Abstraction.* A declaration is one token and one node; two names of the same file are told
apart, their spelling is not. A directory that is named instead of a file does not exist in the model.

`FileClosure` is the abstract specification: start with the main file, open what an opened file names, each path once;
succeed only when nothing is left to open; it may give up at any time. `SourceTexts` has what both read.

### Properties

| Property | Says |
|---|---|
| `TypeOK` | the variables have their types, every parser reads a file that exists |
| `ReadOnce` | `NeverTwice`: a path gets one source id, and no two parsers at work have the same path. `UnitComplete`: the unit of a parsed program has every declaration of every opened file, once, in the order of its file, and behind all those of the files its own file named before it. The exception are cycles: a file that reaches (`Reaches`) the one that names it is still in the middle of its own text |
| `OneError` | at most one error is ever reported; it stops the parser it is met in; the driver fails exactly when there was one |
| `ErrorStops` | after an error the parsers only return: nothing is opened, defined, warned of or returned any more |
| `OpensClosure` | refinement of `FileClosure`, with `files_set` as the opened paths |
| `OutcomeMeant` | what the driver ends with. `ResultExpanded`: a parsed program is the expansion of its main file (`Expand`: the text of a file in place of its first naming), with one warning per unnecessary semicolon. `FailsForReason`: the program fails if and only if one of its files is malformed, names a missing file, or defines an alias a second time or with the name of a primitive. `FilesOnce`: no file is parsed twice, under whatever path |
| `CrashOnlyOnCycle` | with `..`, the program is still its expansion, path by path, or crashes, but only if a file is being parsed inside itself |
| `Terminates` | parsing ends, whatever the cycles |

### Runs

* `plain_loads`: four files in three directories, every combination of up to two items in the main file and one in
  each of the others, where one file may also have any of eight malformed texts (each a different place of
  the look-ahead). Names without `..`. That is every graph on the four files with up to two edges from main and up to three
  from the others, cycles and self-loads included: long enough for a cycle of three files, a diamond, an error
  three parsers deep, and the same name twice in braces.
* `parent_loads`: names with `..`, main given as `main.amun` or `./main.amun`. `PathMax` is 6 components: a cycle through
  `dir/../` goes round twice before a path is refused.

*Fairness.* `WF_vars(Next)`: the compiler is one thread that neither waits nor is waited for, so a step it
can take is taken. `Terminates` is the only property that needs it.

## 5. `Driver`

Models what a user does: run a command in a directory, perhaps edit the source, run another. `main.cpp`, the dispatch,
the options, and `Compiler` with its four ways to use a source file, which repeat the same phases with small
differences in order and exits.

*State.* `disk` is the directory; `step` is where the process is, between `executeCommand` and `Exit`. `options`,
`received_options` and `i` are those of `parse_compiler_options`, `errors` and `warnings` the counts of the
diagnostics, `module` what the backend returned, `result` the `int` of `std::system`. Between processes only `disk` stays.
`before` is a history variable: the disk when the command began.

*Actions.* One per command that uses no source; `execute_source_command` for the checks that the four others have in
common; one per branch of the loop over the options; one per phase. `check_compilation_unit` includes the reports and
the exits that follow the type checker. Every `exit` and `return` on the way is an `Exit` with its status.

*Abstraction.* A source text is a `Program`: how its parser ends, how many unnecessary semicolons it has, how many errors
and warnings the type checker finds, how its generation ends (`throws`: an exception the backend catches, after which
the module is partial; `exits`: an internal compiler error), and whether the module has a `main`. An output is the text it was
translated from, and whether all of it was. Opening a file, the target, the linker and its status are any answer of
the system. Statuses are those of POSIX: a process keeps the lowest eight bits of what `main` returns. File names are
sequences of parts, so two different names never spell the same file.

`parse` stands for `SourceLoading`, of which it keeps what `OneError` says: an error ends the parser, and with it the process.

### Properties

| Property | Says |
|---|---|
| `TypeOK` | the variables have their types, an exit status is a byte |
| `OptionsRead` | the loop refuses exactly the argument lists that are not well-formed and reads the others as meant; both are defined without a loop (`WellFormed`, `Meaning`: an argument is a name if an odd number of `-o` stands before it) |
| `OnlyAccepted` | no code is generated from a text with an error or, under `-werr`, with a warning of any phase |
| `SuccessFresh` | status 0 means that the text is accepted and the output file is its translation |
| `FailureKeeps` | a command that fails leaves every file as it was, except the object file of an accepted text |

`SuccessFresh` says as much as the code keeps, and no more: the translation may be partial if the backend threw, and
`compile` may return 0 without an executable, or with that of an older text, if the linker failed. `FailureKeeps` has its
exception because the object file is opened before the target is looked up, and is not removed when the linker fails.

### Run

`commands`: two commands, every list of up to two options for each command with options and twelve longer ones that test where a flag
stands; ten texts, each good or with one thing wrong; `-o` may name the source itself. Two commands are enough for
an output of an older text to be there when the second one fails. No fairness: all properties are safety properties, and
a command is a fixed sequence of phases.

## 6. `TypeChecker`

Models the visitors of statements and callables in `amun_typechecker.cpp`: fields, returns, jumps, expression statements,
blocks, `if`, `switch`, loops, functions, lambdas, the body of an instance of a generic function, and the
missing-return analysis. `ScopedMap` is `amun_scoped_map.hpp`, operation by operation.

*State.* `types_table`, `return_types_stack`, `is_inside_lambda_body`, `lambda_implicit_parameters` and
`generic_types` are the members of `TypeChecker` (`include/amun_typechecker.hpp`). `frames` is the C++ call stack. As in
`CodegenControl`, any statement that may follow follows, so a behaviour is a program together with its check. What
`check_missing_return_statement` reads off the finished tree (the last statement that decides, bodies without braces) is
collected in the frame; `falls` and `used` are history, the truth the checker is compared with.

*Actions.* One per statement without a body; Enter, Leave and, between two branches, one action for those with a
body. A use of a name includes its capture. An error is one step to `stopped`, reading what is not there one to `crashed`.

| Property | Says |
|---|---|
| `ScopesMatch` | the state has its shape (`TypeOK`); a construct owns one scope, gone when it ends; a return is compared with the type of what it leaves |
| `CapturesExact` | a lambda gets each variable it uses of the functions around it, once, and nothing else; the flag that decides it is right everywhere |
| `CheckerSafe` | the checker reads no stack that is empty and no pointer that is null |
| `AcceptedReturns` | an accepted function with a value cannot be left without one |
| `EntriesKept` | as long as a scope lasts, a name keeps its type, whatever is visited inside |

*Run* `checked`: all programs of up to five statements, with one variable name, so that shadowing is everywhere.
Five are enough for a lambda in a lambda in a branch, or an instance called in a loop with a return after it.

*What the constants leave out.* `InLambda = {"field", "return"}`: with `if` inside a lambda, a parameter of the lambda used in it is
captured as well (TC:1902; the comment at 1891 says only variables from outside are); with `lambda`, the end of
the inner one clears the flag of the outer (1580). `InInstance` likewise: the body is visited on top of
the scopes of the caller (1432) and sees them. `Unbraced = {"return"}`: any other body without braces makes the
missing-return check dereference null (2539). `FlagAtStart = {FALSE}`: the flag is not initialised (hpp:172), and `TRUE`
makes the first function capture into an empty stack. Each one breaks `CapturesExact` or `CheckerSafe` when it is allowed.
No fairness: all properties are safety properties.

## 7. `Types`, `TypeRules`, `Lowering`, `Expressions`

One expression, from its leaves to the LLVM value. `Types` has the types, their equality and conversions, and
their mangled names. `TypeRules` has, for each expression visitor of the checker, the type it
returns, `Error` or `Crash`. `Lowering` has, for each expression visitor of the backend, the LLVM value: its type, the
instruction that made it and the C++ type `std::any` holds it as, since these are what later visitors branch on;
`Internal` is an internal compiler error, `Invalid` an instruction LLVM does not take.

*State* (`Expressions`). `operands` is a stack of finished sub-expressions, each with the node the checker leaves and the
value the backend makes. A node has three types: `type`, what the checker returned; `noted`, what it wrote
into the node, all the backend sees; `parsed`, what the constructor gave it. `call` has what the last call was given and
what it passes. One action per kind of node; both phases are in it, in this order, since they walk the same tree.

| Property | Says |
|---|---|
| `Lowerable` | the checker follows no pointer of the wrong type, and an accepted expression can be generated |
| `TypesKept` | no operand failed in either phase (`TypeOK`), and the generated value has the checked type, or that of its address where the backend keeps addresses |
| `SignsAgree` | signed instructions get signed numbers, unsigned ones unsigned numbers, by the checked type |
| `ArgumentsPassed` | a function gets each argument once, in its place, with the checked type |

*Run* `typed`: trees of up to five nodes over seventeen leaves (variables of all classes of types, three callables,
literals). Five nodes are a `switch` with a default, a call with a call among its arguments, or two binary operators
on top of each other. The last node has to take all operands that are left: with others beside them, it would show
what a smaller tree shows. `Excluded`:

| Name | The expression, and what happens |
|---|---|
| `mistyped` | an operand whose noted type is not its type: of arithmetic it is that of the last literal, of a call the function's |
| `unloaded`, `unloaded_argument` | a value that is still an address where a value is needed |
| `signed_division` | `/` or `%` of signed numbers is `UDiv`, `URem` (BE:2551) |
| `unsigned_shift`, `unsigned_cast` | `>>` of unsigned numbers is `AShr`; widening and float casts of unsigned ones are the signed ones |
| `float_bits`, `not_number` | bit operators, `~`, `++` of floats; `!` of a number wider than one bit |
| `increment_value` | `++` of what is not a name takes a value for an address (2816) |
| `address_of_value`, `value_behind`, `through_pointer` | `&` of a value, `*` of a pointer in no variable, `*p = v` |
| `pointer_value` | a field of a pointer that is in no variable is reached with one load too many (2951) |
| `vector_comparison`, `vector_values` | comparison of vectors; a vector of anything but numbers |
| `nested_tuple` | a tuple in a tuple has no name of its own |
| `number_condition` | a condition that is a number: `CondBr` needs one bit |
| `case_variable` | a case that is a variable is compared as an address |
| `float_argument` | a `float32` after the parameters is passed twice (1720) |
| `array_argument` | any array literal is accepted for any array parameter |
| `argument_call` | the noted type of a call by name, as an argument, is overwritten (TC:1322) |
| `called_value` | a call of the value of an expression |
| `element_variable` | `a[i] = x` stores the address of `x` |
| `not_a_place` | `v.count = 1` and other targets that are no places are accepted |
| `value_indexed` | an element of an array that is no variable |
| `null_value` | `null` where no pointer type is given to it |
| `void_value`, `void_pointer_cast` | what a `*void` points to; any type cast to `*void` |
| `not_constant` | an array or tuple said to be constant whose parts are not (ast.hpp:588, 964) |
| `function_value` | the name of a function as a value |
| `copied_variable` | `var y = x` makes `y` another name of the variable `x` |
| `global_copied` | reading a global gives its initial value (2323) |

No fairness: a behaviour is one construction of a tree.

## 8. `GlobalConstants`

Two global variables, with functions and generic declarations between them. The checker accepts an expression
that is constant, the backend computes it while it compiles. Here expressions have values: `meaning` is the value in
the language, `folded` what the compiler makes of it: a constant, an instruction (which is then no initial value),
or an operation on a null pointer. `insert_block` and `is_on_global_scope` are what functions leave behind for the next global.

| Property | Says |
|---|---|
| `InitialValues` | a global starts with the value of its expression in the language; what is folded on the way has the type that was checked (`TypeOK`), and no accepted global makes the compiler read a null pointer (`EvaluationSafe`) |

*Run* `constants`: two globals, six nodes in all, 8-bit numbers (1, -5, 251), booleans, enum elements, so that signedness and
overflow show. `Excluded`; the first five give another value, the others a null pointer:

| Name | The program, and what happens |
|---|---|
| `signed_division` | division of signed numbers is done unsigned |
| `mistyped` | a comparison is signed or not by the noted type of its first operand |
| `boolean_order` | the order of booleans is that of signed bits |
| `number_condition` | a number as the condition of an `if` |
| `switch_order` | a `switch` with an operator of order: two operators test another one (3237) |
| `incomplete_switch` | a `switch` that no case matches, without default |
| `after_generic` | a global after a generic declaration (388) |
| `index_name` | an index that is the name of a global |
| `after_function` | an element computed after a function: it becomes an instruction in that function (3070) |
| `array_of_names` | an array whose elements are not constant |
| `choice_indexed` | an element of an `if` or a `switch` (needs eight nodes to fail) |

## 9. `Generics` and `Instances`

A program of two generic functions and a `main`, from the check to the generated functions. All calls of a generic function
share one syntax tree, whose types are objects: what the checker resolves in place or notes in a node is state
(`signatures`, `templates`, `node_types`, `generic_arguments`). `Instances` continues where the checker ends, with the
backend's `alloca_inst_table`, `functions` and its own `generic_types` (`bound`).

*Actions.* A call goes through the phases of `CallExpression`: its arguments (`infer`), binding and the signature
(`bind`), the body (`body`), the arguments again (`arguments`) and the comparison (`check`). A body is
visited statement by statement; calls in it are frames on top. In the backend `GenerateCall` looks up the mangled
name and, if there is no such function, starts one, on top of the others.

The reference is a program without generics: for each function and each choice of types one copy, with the types written out
(`CopyUse`, `Written`, `CopyAccepted`).

| Property | Says |
|---|---|
| `AcceptedAsCopies` | the checker accepts a program exactly when all copies are well-typed, and does not crash |
| `CallsAsCopies` | scopes and functions under construction fit the frames (`TypeOK`), and a call whose body is being checked has the types its copy has |
| `GeneratedAsCopies` | a generated function has the types of its copy and calls the instances its copy calls |

*Run* `instances`: 755 programs, from thirteen first functions, eight second ones and 54 mains, minus those with an excluded feature.

| Name | The program, and what happens |
|---|---|
| `recursive` | a function that calls itself: checked and generated without end |
| `shared_call` | a call in a generic body that needs other types in another instance: the first ones are kept (TC:1392) |
| `shared_variable`, `shared_size`, `shared_initialisation` | the same of an untyped variable, of `type_size(T)` (1783), of `Single<T>(...)` (1536) |
| `shared_signature` | a second call of a function with a function pointer or a generic structure in its signature, even with the same types: the first call has replaced the parameters in the declaration (2104, 2129) |
| `shared_template` | a second instance of a structure with such a field |
| `parameter_given` | a type parameter as a given type, `f<G>(a)`: it is never resolved |
| `type_after_call` | a type written after a generic call in a generic body: `generic_types` was emptied (1456) |
| `unnamed` | two copies with one mangled name |

`samples/generic/GenericFunctionReturnGenericPointer.amun:6` has a `type_size(T)`, so its second instance would get the
size of the first.

*Bounds and termination.* `MaxDepth = 8` bounds the nesting of calls in both phases. At the bound no step is possible, so
that TLC, which checks for deadlock, would report a nesting without end; it reports none. That is the termination
argument here, instead of a liveness property: without `recursive` among the excluded names the run fails in this way.

## 10. `Tokenizer` and `Tokens`

The scanner of `amun_tokenizer.cpp`, a character or a token at a time.

*State.* `start_position`, `current_position`, `line_number`, `column_start` and `column_current` are the members of
`Tokenizer`; `mode` is where in `scan_next_token` it is; `stream` is the text of a string so far; `tokens` is what it
returned. *Actions:* one per character in `skip_whitespaces` and the two comments, `StartToken` for the code before the
`switch`, and one per group of its cases. `Skip` keeps what `match` consumed when a width does not fit, as the code does.
Two history variables say where newlines are not counted as elsewhere: `commented` has the positions passed in block comments,
`edges` the position behind each `/*` and behind each `*/` that ends such a comment.

*Abstraction.* A character is a string, and the characters are those the texts use and those their escapes stand for: an
escape becomes the character it is (`Character` of `EscapeCode` or `HexCode`), named by its code where it cannot be written; the kind of an operator, keyword
or suffix is its text; the list of keywords is a constant, `std::stol` fails above `MaxInt`.

`Tokens` says what the tokens are without a scanner: which sequences of characters are lexemes, the longest of which
counts (`LexemeAt`), with their kind and their literal.

| Property | Says |
|---|---|
| `TokensMeant` | the tokens are those of the text, up to its end or the first error |
| `PositionsExact` | at any time, every token returned has the line it stands in, if the newlines before it are counted once (`LinesCounted`), and its columns, if the last newline starts a line (`LineStarted`); the scanner reads no character behind the end of the text, and kinds are known ones (`TypeOK`) |
| `Terminates` | every text is scanned to the end or to an error |

*Run* `tokens`: all texts up to length 3 to 7 over an alphabet for each part (comments; strings and characters with escapes; numbers with
suffixes, fractions, bases; operators; names): 35 thousand texts. `MaxInt = 100`, so that short numbers are too
large. `PositionsExact` is about every text; `Excluded` concerns `TokensMeant`:

| Name | The text, and what happens |
|---|---|
| `letter_after_number` | `1i8u8`, `1u8a`, `0x1g`, `1.5i8` are accepted: only a number without a suffix is checked for a letter behind it |
| `two_widths` | `1u18` and `1i364` are accepted as 8 and 64 bits: a digit of a width that does not fit is skipped (281) |
| `escaped_quote` | `'\''` and `'\x27'` are refused as an empty character (436): the check comes after the escape has become a quote |
| `hex_letter` | `\xff` is refused: only decimal digits are accepted (514) |

*Newlines.* `skip_whitespaces` counts a newline when it passes it and then starts the columns. One in a string or in a
character does neither. In `/* */` a newline is counted when it becomes the next character: the one right after
`/*` is missed (586), one right behind `*/` is counted there and again by `skip_whitespaces` (595). All tokens behind one of these have the wrong line,
in the code as in the model, and `LinesCounted` leaves them out; every other newline in a comment does count. The
columns are started before the newline is passed, and so are one too large for the rest of the line a comment of several lines ends in;
`LineStarted` leaves out that line, and the one a string of several lines ends in, and no other.

*Fairness.* `WF_vars(Next)`: the scanner is called until it returns; nothing else runs. The parser looks two tokens
ahead, so it may ask for the end twice.

## 11. Proofs

### Control flow of the backend

Four modules, for all bounds, all programs of the grammar and any set of generics. What all of them assume is
`BoundsAssumption`; what a theorem assumes beyond it is a class of programs, and is said with it.

* `TypeCorrect`: `Spec => []TypeOK`, and `DefersMatch`: `Spec => []DeferScopesMatch`. Neither
  formula is inductive. `TypeInv` adds `FramesOK` (each frame's saved insertion point and end block
  exist, so that leaving a construct leaves a valid insertion point) and strengthens the second to `DeferOK`:
  the depth of the defer stack grows with every function entered, so the entry a visitor changes is never that of
  a function that waits. One lemma per action (`...Types`), over lemmas on pushing, popping and
  on frames that differ only in fields that do not matter (`Alike`).
* `LoopStacksRestored`, `NeverUndefined`, `JumpsHitTargets`: under the assumption `Times = {1}`, that no
  jump leaves more than one loop, `Spec` implies `[]StacksRestored`, `[]NoUndefined` and `JumpTargets`. The
  assumption is needed: `break_two_loops` is the counterexample without it. The invariant is `LoopInv`. Its `LoopsOK` adds
  to `StacksRestored` that the stacks only grow inwards (so inside a loop they are not empty) and that they
  are the same while no loop is entered (so the targets of the innermost loop are on top).
* `FunctionsAreClosed`: under the assumption `Tame`, `Spec => []BlocksClosed`. `Tame` keeps the constructs apart that
  section 3 names under `BlocksClosed`: jumps out of two loops (`Times = {1}`), jumps before another branch or over a defer
  (`~FreeJumps`), returns in loops (`"return" \notin Unbraced \/ NoLoop`, `ReturnIn \subseteq Selects`), returns and
  jumps in a block of a block (`ReturnIn`, `JumpIn \subseteq Loops \cup Selects`), and, where there is an `if` or a
  `switch`, what comes between the flag of a return and the end of a branch (`FlagHolds`): lambdas anywhere, and any function made by the
  value of a return (`ReturnMakes = {}`). Generic functions called elsewhere may stand beside `if` and `switch`: their instances reset
  a flag that is not set. Without the first the stacks of targets are
  wrong (`break_two_loops`); without any one of the others TLC finds `BlocksClosed` violated. It is a condition on the
  program's constructs, so it excludes harmless uses of them as well, as a lambda outside of any `if`. The runs `structured` and `nested_functions`
  are two instances of `Tame`. The invariant is `ClosedInv`. Of the blocks, `Built` says that each one that is not open
  (no visit will write to it again) is placed and ends in its only jump, and that a jump goes to a block of the same
  function, or to one a visit in progress has promised to place in it. Of the two flags, `Status` says what they
  stand for: that the block being filled has ended in a jump (the flag of the return only under `FlagHolds`; without it nothing asks for that flag). They are one pair for all functions, which is why neither
  part is inductive without `KindsOK` (which visits may be around which). `DeclaredOK` is needed at the end
  of a block that jumped: the calls it adds must be none.
* `DefersRun`: if no defer calls a function pointer (`DeferCallees \subseteq {"function"}`; such a call is never
  generated) and a return has braces (`"return" \notin Unbraced`; one without runs nothing), then `Spec` implies
  `DefersRunAtExit`. `any_program` is an instance, in which jumps and returns may stand anywhere. The property compares code with
  `declared`, the defers a block has met, whereas the code is made from `defer_calls_stack`. The invariant `DefersInv`
  connects them. `Tracked` says: each scope of the stack holds the defers of its block in the opposite order
  (`Scoped`), every scope has its block, the scopes of the visits around lie below and their defers were met before
  (`Around`, which gives the order across scopes), visits with no function between them share an entry (so the
  calls are those of the current function), and a block that is open will run its defers.

* `DefersAreBalanced` (`CodegenFlow_proofs`): under `Deferrable`, `Spec` implies `[]DefersBalanced`. `Deferrable` is `Tame` (a block that
  is not closed has no end its calls could run at) with the assumptions of `DefersRun`, and a defer is in braces
  too; `structured` and `nested_functions` are instances. With `Unbraced = {"return"}`, with `DeferCallees = {"pointer"}` or with
  `FreeJumps = TRUE` TLC finds `DefersBalanced` violated in `structured`. `DefersRun` is about what one step
  writes; here the question is what the finished graph does, whatever order its blocks were written in and whichever way
  its conditions go. The invariant `FlowInv` is `ClosedInv` and: there is a function `E` that says for every block
  what is pending when it begins, the same on every path to it. `FlowOK`: the code of each block takes `E` of the block to `E` of
  every block it jumps to and never makes a call that is not the latest pending; a function begins with nothing. `Waits`: the blocks that wait
  for the end of a visit (`end`, `cond`, the next branch, where a lambda was interrupted) begin with the defers that its scopes held
  when it began (`Outside`). And where code is being added, what is pending is what `defer_calls_stack` says now (`Inside`),
  unless the block has jumped. `E` grows with the blocks, and no step changes what it says of a block. So the proof covers paths
  of every length, and what a recursive definition gives enters only as the two laws that a list of
  instructions runs one by one (`RunExists`) and one after the other (`AfterConcat`).

`ClosedInv` and `DefersInv` held in TLC, on the runs named, before they were proved; `FlowInv` speaks of some function
`E` on all numbers, which TLC cannot look for, and what it implies, `DefersBalanced`, held.

### Loading of files

`SourceLoading_proofs`, for every file system, every text of the files, every set of main paths and every `PathMax`;
the assumptions are those of `SourceTexts` and `SourceLoading` on their constants (texts are sequences of tokens,
the main file exists).

* `TypeCorrect`, `RegisteredOnce`, `FirstErrorOnly`, `ParsersStop`: `Spec` implies `[]TypeOK`, `[]NeverTwice`,
  `[]OneError` and `ErrorStops`.
* `UnitIsComplete`: `Spec` implies `[]ReadOnce`. With `ImplementsClosure` it says what `OutcomeMeant` checks of the
  unit with a recursive reference: which declarations it has, and that a declaration stands behind what it can use.
* `ImplementsClosure`: `Spec` implies `OpensClosure`, the refinement. The hard step is the last one: that a
  program that is parsed has opened everything it names.

The invariant `IInv` adds three facts to the properties. `AllGood`: each parser's path is registered, the keyword
whose braces it is in is the last one before its position, and while there is no error every name it has passed is
registered. `Served`: while there is no error, every registered file is either still being parsed or has all its
names registered. `Started`: the driver starts one parser and ends when it returns. `Served` is the reason for the
refinement: when the outermost parser returns without an error, no file is being parsed and nothing is left to open.

`UnitInv` is for `UnitComplete`. Read from the outermost parser inwards, the nodes of the parsers at work are the
declarations in the order in which they were read: a declaration is added at the end, a parser begins with none, and a
parser that returns gives its nodes to the last place of the one above. So `Collected` speaks of the whole stack, and is
preserved by each operation on it (`PassCollected`, `PushCollected`, `DeclareCollected`, `PopCollected`, lemmas without any
variable). Its parts: every node is a declaration that was passed (`AllTaken`), every declaration that was passed is a node
(`Kept`), any two nodes are in a permitted order (`Sorted`), and each parser's file is reached from the files below it on
the stack (`Chained`). `Taken` is the strengthening that `Sorted` needs: when a declaration was read, all
that its file had named was registered, and whatever of that is still being read leads to it. A file that was named and is no
longer on the stack can add nothing. "Leads to" is stated by closed sets of paths, so that no induction over chains of
files is needed.

Only model-checked: `OutcomeMeant` and `CrashOnlyOnCycle` (their reference definitions are recursive, and they speak
of the file system of `MCSource`), and `Terminates` (liveness).

### Driver

`Driver_proofs`, for all command lines, texts and statuses of the linker, and any number of commands: `TypeCorrect`,
`GeneratesAccepted`, `SuccessIsFresh` and `FailureIsClean` prove `TypeOK`, `OnlyAccepted`, `SuccessFresh` and
`FailureKeeps`. The invariant `IInv` adds what is known when each phase begins: which commands reach it (`AtWork`), that
nothing was counted before the parser and exactly the parser's warnings after it, and that `-werr` implies `-w`
(`Counted`), and which files have been written (`Written`).

`OptionsAreRead` is `OptionsRead`, for command lines of every length. The reference looks at the whole line (an argument
is a name if an odd number of `-o` stands before it, without a gap); the code knows where it is. `OptionsInv` says that the arguments
before `i` are fine as far as they were read (`Fine`) and that the record has their meaning (`ReadSoFar`); the lemma `NextName`
is the step of the parity, from one argument to the next.

### Type checker

`TypeChecker_proofs`, for all names, types, bounds and programs of the constants.

* `ScopesAlwaysMatch` (`ScopesMatch`), `EntriesAreKept` (`EntriesKept`) and `AcceptedFunctionsReturn` (`AcceptedReturns`)
  need no assumption. `ScopesInv` ties the three stacks to the frames: frame `i` owns the scope above the `i`-th, only the outermost
  is a function, and the return types in force are those of the callables in progress. `FramesSound` is what makes
  the missing-return analysis right: a body it has found to be covered cannot be left at its end.
* `NeverMissing` (`CheckerSafe`) assumes `FlagAtStart = {FALSE}`, `Unbraced \subseteq {"return"}` and no instance in an
  instance. Its `SafeInv` says that the flag is up only while there is a list to capture into, that the types of an
  instance are known while its body is visited, and that no collected body is one that the analysis would dereference.
* `CapturesAreExact` (`CapturesExact`) assumes `FlagAtStart = {FALSE}` and `InLambda \subseteq {"field", "expression",
  "return", "jump"}`, more than the run allows in a lambda. Its `CaptureInv` describes the one lambda that can then be in
  progress: the flag says whether there is one, the list has what was used and is not its own, each once.

The assumptions are those the cfg of `checked` makes, and section 6 says what goes wrong in the code without each.

### Tokenizer

`Tokens_proofs`, for every set of texts, every list of keywords, every `MaxInt` and every `Excluded`; the only assumption is that a
text is a sequence of strings (`SourcesAssumption`). `PositionsAreExact` is `Spec => []PositionsExact`, which says nothing of the states between
two tokens. The invariant `TInv` adds what holds there:

* `Bounds`, where the position is in each mode. It is behind the end of the text only by the ends that were returned,
  since `StartToken` moves also where `advance` does not.
* `Skipping`: between tokens, `line_number` is the line of the next character and `column_current` its column, each under its condition;
  in a block comment `line_number` is already the line behind that character. `Scanned`: in a token,
  `line_number` and `column_start` are those of its first character, which is no newline, and `column_current` is as far from
  `column_start` as the scanner has come.
* `AllExact`, the property of each token. It stays true because both conditions can only become false (`FewerCounted`).

The lemmas `SameLine` and `NextLine` say what line and column are behind a piece of text without a newline, and behind one newline;
`ReturnStep` is the step every token ends with. That a token ends in the text needs its form: an operator, a name, a number with
its widths and an escape all stop in front of the character that ends the text. `TypeOK` includes that the kind of a token is a known
one: for operators this is `OperatorFound`, for numbers `SuffixFound`.

### Only model-checked

* The properties of `Expressions`, `GlobalConstants` and `Instances`, and `TokensMeant`. Their references (`Lowers`, `meaning`, the copies,
  the lexemes) are recursive, or are read off types that are: the provers cannot see into recursive operators, and
  what a recursive function gives for every input is an induction over data.
* `OutcomeMeant` and `CrashOnlyOnCycle` of `SourceLoading`, for the same reason (`Expand` is recursive).
* `Terminates` of `SourceLoading` and of `Tokens`: liveness.

## 12. Not modelled

* The recursive descent of the parser over the tokens of declarations, statements, expressions, types and
  directives: `SourceLoading` has its entry and its errors, `CodegenControl` and `TypeChecker` start from the statements it
  accepts, `Expressions` from the nodes it builds. It keeps no state between declarations but the tables of generic names.
* In the backend: `switch` with cases of several values, intrinsics and the library prefix, default values
  of fields, and the numbers local variables have at run time (their types are in `Lowering`).
* The layout of messages, colours, logging and the reading of a file as bytes: they keep no state.
* A text with the byte 0 or 255 in it, which the scanner takes for the end of the text and for an error.
* LLVM itself, the linker and the file system: any answer they can give.
