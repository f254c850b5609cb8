# A model of the mkscript interpreter

mkscript (`src/mksc`) is an interpreter, written in C, for a small object-oriented
script language. The program compiles one file into a syntax tree, links the classes
it found and runs the tree. There is one thread and nothing is stored between runs,
so neither concurrency nor recovery makes it hard. What does is what a *script* can put
in any order: a collection runs between any two statements while C functions hold
pointers; an exception unwinds a recursion of C functions that share one stack of
operands; tables are freed and used again with old data in them; names are compared
and classes are linked by their addresses.

The project has one TLA+ module per part of the program that has such a core, two
abstract specifications, TLC runs for each, and TLAPS proofs about all of them.

Contents: [the parts](#the-parts), [the modules and the code](#the-modules-and-the-code),
[the runs](#the-runs), [fairness and deadlock](#fairness-and-deadlock),
[what is proved](#what-is-proved), [only model-checked](#only-model-checked),
[where code and documents disagree](#where-code-and-documents-disagree),
[not modelled](#not-modelled), [plan](#plan).

## The parts

| part | files | state it keeps | operations | hard because |
|---|---|---|---|---|
| Managed tables | node.c, hash.c, vector.c (allocators), mk_gc.c (sweeps) | four chains of fixed-size tables with a count of free slots and a place to search from | allocate, mark, sweep | the chain is reordered while it is walked; the counts are trusted |
| Heap and collector | mk_gc.c, vm.c | items, hash tables, vectors, frames and their bits; the operand stack, the current frame, the exception object | every evaluator function that makes or links objects; scan, sweep | a collection at any statement, cyclic data, pointers in C variables |
| Evaluator | vm.c, vm_stack.h | the C stack, the operand stack, the exception object | one function per kind of expression and statement | return codes and operands must agree on all paths, the failing ones too |
| Symbol lookup and access | vm.c | (reads objects, frames, classes) | find a variable in the frame and its owner frame, in the parts of an object, in static instances | chains of NULL-able links, two walks that must agree |
| Hash table | hash.c | a sorted array of entries | insert, replace, find | binary search, growth, an array that outlives its table |
| Symbol names, memory pool | node.c | blocks of text, names in them | intern a name | comparison by address, blocks forgotten when full |
| Objects and linking | classObject.c, link.c, internalclasses.c, vm.c | static instances, the parts of an object | make and link them, evaluate initial values | order of addresses, initial values that run code |
| Modules | compile.c, vm.c, classReference.c | instances of modules in an object, aliases to their entries | import, use, read and assign by either name | addresses of entries are kept while tables change, constraints belong to places |
| Compiler | compile.c | operators that wait, the classes found | place an operator; open, fill and register a class | operator precedence on a mutable tree; errors noticed later |
| Vector | vector.c | an array and its size | get, set, insert, remove | growth |
| Built-in classes | class*.c | none of their own | `=`, `[]`, `each`, `invoke`, `to_s`, arithmetic, text | some call scripts back |
| Errors | error.c, errormessage.c | the exception object | raise | replaces an exception on its way |
| Item conversions | node.c | none | direct values, conversions | pure functions |
| Lexer, string parser | lex.c, string_parser.c, keyword.c | the input | next token | text |
| Files, console, command line, dump | classIO.c, classConsole.c, io.c, main.c, dump_node.c | C library's | input and output | - |

How they interact: the compiler asks the lexer for tokens, interns names and registers
classes in `vm->code->classes`. The linker walks that table and makes the static
instances, evaluating initial values. The evaluator walks the tree; it takes objects
from the managed tables, stores variables in hash tables, looks members up along the
parts of an object, and calls native methods, some of which (`each`, `to_s`, `invoke`,
`new`) call the evaluator back. At the start of each statement of a block it may call
the collector, which marks from the operand stack, the global table, the frames and the
exception object, and sweeps the four chains.

What makes each part correct, and where it is stated:

- managed tables: a slot has one holder at a time, the counts are exact, no table is lost
  (`NeverShared`, `FreeSpaceExact`, `ChainIntact`, `ImplementsPool`);
- collector: nothing reachable is freed, nothing unreachable stays, it ends
  (`ReachableInUse`, `GarbageFreed`, `CollectionEnds`);
- evaluator: each call leaves what its caller takes; no exception is lost; jumps stay
  inside their method (`Balanced`, `NoUnderflowWithLeftovers`, `NoExceptionLost`,
  `JumpsStayInside`); what it leaves is in use (`OperandsInUse`, *violated*);
- hash table: it is a map, searches end, constraints stay with the names they were
  declared for (`ImplementsDictionary`, `SearchEnds`, `DeclaredKept`, `FinalKept`);
- compiler: an accepted statement is the tree its tokens stand for (`TreeInOrder`,
  `PrecedenceKept`, `ErrorLeavesHole`);
- classes: names have one address, the hierarchy has no cycle, members are found where
  they should be (`Interned`, `Hierarchy`, `StaticMembers`, `Inherited`, `ReadableByHeirs`); a
  class's static instance has its superclass's (`SuperInstanceFirst`, *violated*);
- modules: an alias stays that of the right entry; access and `final` stay with the member
  (`AliasIntact`, `DeclaredAccess`, `MethodsKept`).

`PROJECT.json` lists the hazards of the code line by line with the properties that
cover each, and says why of those no property covers.

## The modules and the code

`PROJECT.json`, "map", gives the lines of each definition. In outline:

**ManagedTable** - the chain of tables. `Kind` chooses which of the four allocators it
is: they are the same walk, but the item and hash allocators move the table they use to
the head of the chain (`MoveToFront`), the frame allocator does not, and the vector
allocator neither counts a slot as taken nor moves its start. `AllocFromChain` and
`AllocFromNewTable` are the two ways `mk_allocate_vm_managed_...` ends; `Mark` is the
collector reaching a slot, `SweepTable` one table of the sweep. What is in a slot is an
opaque `holder`. **SlotPool** is what such a chain promises: slots are handed out, pinned
and reclaimed. `ImplementsPool` is the refinement.

**MkGc** - the heap. An action is what one evaluator function does between two points at
which a collection can run (a collection runs only at the start of a statement, vm.c:957):
`PushLocal`, `Assign`, `EnterMethod`, `NewDerived`, `Raise`, ... `native` is the part of
the C stack that holds pointers. The collector is the recursion of `mk_gc_scan_...`, its
pending calls in `todo`: `StartCollection` puts the roots there in the code's order, `Scan`
does one call, `Sweep` the four sweeps, which leave a freed frame all its pointers. The scan keeps the code's order because it matters: items set
their bit when their scan is done, hash tables, vectors and frames when it begins. A frame's last
result is what a call returns and is not set when the frame is made; `hasLast`, which the code
does not have, tells whether a statement has set it. `Return` pushes it if one has, or if the script is one
that makes use of such values (`"noresult"` of `Features`); `ReturnNothing` is the call as a
statement, which hands the unset value on to the caller's last result.

**MkVm** - the control flow. `ctrl` is the C stack: a record for each active
`mk_execute_...` call with how far it is and how high the operand stack was when it
began. `code` is what the last call returned. What a script does next is left open, what
the evaluator does with it is not. Of values only truth is kept, of the operand stack
only the height. `Features` says what the script makes use of.

**MkHashTable** - one table of variables; a search takes a step per comparison. The array
survives a sweep, and with it the extended values (constraints) in it. `Ask` is all that enters
or reads a variable: the parameters of a call (`Parameter`), members and local variables, with a
constraint (`Declare`), "super" of an object, entered without a value and a constraint first and
completed when the part above is made (`Reserve`, `CompletesSuper`), the aliases of `using`, over
what is there and without a constraint (`UseModule`), references and the assignments
they are made for (`Assign`), and plain reading. **Dictionary** is a map asked one
question at a time; `ImplementsDictionary` is the refinement.

**MkExpr** - `do_compile_expr_root` and `do_compile_expr` with what they call. Tokens
come in any order; `nodes` is the tree so far, `calls` the recursion, and in each call
`ops` is the list of operators that wait for their right side.

**MkClasses** - from the names of a script to the objects of its classes, in the phases
of a run: internal classes are registered, linked; the script's lines are compiled,
linked; the script runs up to the members of one object. `pool` gives names their
addresses, `Before` compares them; `Link` makes the static instance the enumeration
reaches next, `NewPart` the next part of an object. `FindVariableReference`,
`FindInstance` and `FindVariable` are the walks of vm.c.

**MkModules** - one class that imports and uses modules, and one object of it. Here the
tables keep their order and the constraint of each place, because both show: `Inserted` is
`mk_insert_item_hashtable` (a new entry keeps the constraint it finds), `Stored` the same
with the extended value set. `AppendVariable` and `AppendModule` make the members in the
order of addresses, `Use` enters one alias, and in phase "run" `Assign` is any assignment
to a member of the object or of a module. A module cannot import, so an alias never leads to an alias.

MC modules (`MCManagedTable`, `MCMkVm`, `MCMkHashTable`, `MCMkExpr`, `MCMkClasses`, `MCMkModules`)
declare the model values; `MkGc` is run as it is. `MCManagedTable` and `MCMkVm` hold two instances of
their module side by side, a behaviour being one of one or the other: a chain of items and
one of vectors, a script without leftovers on the operand stack and one with them. The modules are separate because the
code meets at narrow places: MkGc and MkHashTable take from ManagedTable nothing but
slots (object n is slot n), and MkVm and MkGc describe the same functions, one by what
they return and leave on the stack, the other by the pointers they hold.

Each module holds, beside the definitions of the code, mutated forms of some of them
(`StopsAtNextIndex`, `FindAbove`, ...). They are used by no action. `PROJECT.json`
names for each property the mutation with which TLC finds it violated, so that no
property holds whatever the code does.

## The runs

| run | checks | instance | what it shows |
|---|---|---|---|
| table_chains | TypeOK, ChainIntact, FreeSpaceExact, NeverShared, GrowsOnlyWhenFull, ImplementsPool of items; VectorsSharedOnlyWhenFull | items: 2 tables of 2 slots; vectors: 3 slots, counts up to 8; 2 holders (symmetric) | no slot has two holders, no table is lost when it is moved, none is added early; the vector allocator hands out a vector in use, but only when all are taken |
| gc_closure | TypeOK, ReachableInUse, GarbageFreed | 3 items, 3 hash tables, 3 frames, stack 2, C stack 4, no assignment | blocks that outlive their frame, called by `invoke` and by a variable's name |
| gc_array | ReachableInUse | 3 items, 4 hash tables, 1 vector of 1, 3 frames, C stack 4 | class and local variables, assignment, arrays and references to elements, exceptions with conditions that call |
| gc_object | ReachableInUse, CollectionEnds | 4 items, 4 hash tables, 3 frames, C stack 2 | objects with a superclass part, called by either part, also by `super` |
| gc_memberref | SuperclassPartKept *(violated)* | 4 items, 4 hash tables, 4 frames, C stack 3 | a reference to a member keeps the object's table but not its superclass part |
| gc_noresult | OperandsInUse *(violated)* | 3 items, 3 hash tables, 2 frames, C stack 2 | a body without a last result returns that of the slot's former frame, which may be freed |
| vm_scripts | TypeOK, Balanced, NoExceptionLost, JumpsStayInside of a script without leftovers; NoUnderflowWithLeftovers of one with them | 9 nested calls, 1 argument; all but array literals and raising conditions, and with them | operands, exceptions and jumps; operands are left behind but never missing |
| hash_map | TypeOK, Sorted, DeclaredKept, ImplementsDictionary, SearchEnds, FinalKept | 4 keys, "super" among them, 2 values, array 2 growing by 1 | the table is a map, through growth and reuse; constraints stay where they belong |
| expr_parse | TypeOK, RightEdge, TreeInOrder, PrecedenceKept, ErrorLeavesHole | all sequences of 6 tokens, operators `==`, `=`, `+` of priorities 5, 8, 13 | a statement that is accepted is the right tree, but for conditions that failed |
| classes_script | TypeOK, Interned, Hierarchy, StaticMembers, Inherited, ReadableByHeirs | scripts of 4 lines (`end` not counted), classes A, B and Object reopened, 2 members of 4 declarations, 2 blocks of 4 names | names, linking, objects, access |
| classes_super | SuperInstanceFirst *(violated)* | the same | a static instance made before its superclass's |
| modules_using | TypeOK, AliasIntact, DeclaredAccess, MethodsKept | 2 names of members, 2 imports of 3 modules, 2 usings, 5 declarations, 2 values, what a table may hold behind its end left open | aliases, access and `final` |

In vm_scripts each action of MkVm fires in one of its two scripts: those of operators and `if`
in the first, those of array literals in the second, the others in both. TLC's coverage of the run
lists the two under `MCNext`.

Why the bounds are enough:

- *tables*: moving a table from the middle to the front needs two; an allocation that
  skips a slot in use, wraps round, or fills a table needs two slots (three for vectors,
  where the search does not move). A second collection before the first slot is used
  again is within the bounds.
- *collector*: a collection has at most one object to overlook; what it takes to reach it is a
  chain frame - locals - item - frame of a block (closure), item - vector - item (array),
  or the two items of an object and their tables. Four items are the two parts of an object,
  a class and one more; C stack 2 to 4 is the depth at which a call inside an operand waits for a statement.
- *evaluator*: nine calls hold a method, a block, a try, a handler with its block, an
  expression in it and a call with its callee at once. The first script has `MaxHeight` above any
  height nine calls can reach, so that `Balanced` is not cut off; for the second, `LeavesHeight` bounds the
  height at which a statement begins, because there it grows without end. The proofs below have none of
  these bounds.
- *hash*: four keys and sizes 2, 3, 4 make the key's place the first, a middle and the last one,
  with and without growth, at every step of a search of three comparisons. One reference
  waits at a time.
- *expressions*: six tokens hold two operators, a sign, a condition and a pair of brackets;
  three priorities are what it takes for an operator to go between two that wait.
- *classes*: two classes and Object give three parts; four lines reopen a class, name a
  superclass defined later or never, and declare members in two classes; nine names in two
  blocks of four (the second not full) are given every order a script can give them. The object is made before
  members are assigned.
- *modules*: "super" and "owner" lie between the names, so that each kind of entry is
  moved up by each other; both modules that can be made have the second name, so that a
  conflict and a member hidden by a module occur; the third fails.

The three violations are findings: what the code does contradicts the language's documentation
(`wiki.doc/class.txt`, twice) or a comment of the code (vm.c:1007); `PROJECT.json` quotes them.

## Fairness and deadlock

`FairSpec` of MkGc asks weak fairness of `Scan` and `Sweep`, and that of MkHashTable of
`Search`: one thread runs the program, and a collection or a search that has begun is
carried on until it returns. Nothing is fair about what the script does. With it
`CollectionEnds` says that the recursion of the scan ends on cyclic data, and
`SearchEnds` that the halving does.

Deadlock is checked where the system has no end: the managed tables, the evaluator (which
ends in `Ended`) and the hash table. It is off for MkGc (a script may have used all the
slots the bounds give it), MkExpr (a behaviour is one statement, which ends accepted or
refused), MkClasses and MkModules (the script fails, or is over at its bound).

## What is proved

TLAPS proves these for every value of the constants that satisfies the module's
assumption; TLC evaluates the assumptions in the runs.

**ManagedTableProofs**, from `ManagedTableAssumption` (a kind, at least one slot and one
table, `Nil` is no holder). The inductive invariant is `TypeOK /\ ChainIntact /\
NewTablesEmpty`: a new table is numbered by the length of the chain, so the chain must be
a permutation of `1 .. Len(chain)` and the tables beyond it untouched. With
`FreeSpaceExact` (for the kinds that count) it gives that the slot `StopsAt` ends at is
free, from which follow `NeverShared`, `GrowsOnlyWhenFull` and the step simulation behind
`ImplementsPool`; for vectors, that the count never falls gives `VectorTableNeverGrows`, and the
search in a table that claims to have room gives `SharedOnlyWhenFull` (the run has it of its instance
for vectors, as `VectorsSharedOnlyWhenFull`).

**MkVmProofs**, from `MkVmAssumption`. The stack properties relate a call to the one it
returns to, so the invariant is about adjacent records of the C stack: `Fits(l, u)` says
which call may be above which and that the operands `l` will find are those it had and,
if `u` is one that has a result, that result; `Finds` says the same of the innermost
call and the code it has just been given. `Meets` compares heights with "at least" in
general and "exactly" for scripts that are `Clean`, that is, use neither array literals nor conditions of a
catch that may raise: the two things that leave operands behind. So one induction over all actions
gives `NoUnderflowAlways` (`NoUnderflow`, which the run has of its second script) without any
restriction, `BalancedAlways` for clean scripts
and `JumpsAlways`. `NoExceptionLostAlways` has a second argument: a step either throws on,
or takes the exception for its handler, or follows no throw and leaves all calls below the
innermost one, hence any try that is looking for its catch, as they are; it holds for scripts
without array literals (which drop an exception, vm.c:1907), raising conditions included.

**MkClassesProofs**, from `MkClassesAssumption` (internal classes name only earlier ones,
names of the three kinds are distinct). The invariant joins `GoodPool` (addresses in the
current block lie below the next free place, so a new name gets a new one), `Interned`,
`Hierarchy`, `Phases` (what is registered, linked and open in which phase) and `InOrder` (while
linking, every linked name lies before every unlinked one). From the last `SuperUnlessLater`
follows: whether the superclass's static instance exists when a class is linked is a
question of which name lies higher. That theorem says exactly when `SuperInstanceFirst`,
which the documentation promises and classes_super refutes, fails.
For the members it is joined by `Bare` (only Kernel of the internal classes gets any, so a
value class has none) and `Members`: an instance the linker has been at has what `Made`
says, the others have nothing, and during the enumeration a name has been linked exactly when
it does not lie higher (`StaticMembersAlways`). On `OneObject` (the class of part *i* was registered at
least *i - 1* classes before the last, so there are never more parts than classes; each part is
entered in the one before it and has what its class declares) rests `InheritedAlways`. Both
it and `ReadableAlways` need what the recursive function in `Path` is: `PathIs` proves that
there is a walk that defines it, `PathTyped` that it stays among the items, `HeirsRead`
that the class an item on the path belongs to is found from where the path began, and
`PathOfObject` and `LineageOfObject` that the parts, and their classes, are the whole of it.

**MkHashTableProofs**, from `MkHashTableAssumption` (sizes are positive; a key survives
being copied into an `int`, hash.c:361) and `NoneAssumption`. The invariant joins `TypeOK` and `Sorted`
with `Searched`: what the halving has left out holds smaller keys below `low` and larger ones
above `high`, and the bounds never pass each other by more than one. When a search
misses, the place it ended at is therefore the only one that keeps the order
(`MissIs`), which gives `SortedAlways`; in a sorted array a name has one entry, so that every
step is a step of the dictionary or none (`Implementation`). `DeclaredKeptAlways` and
`FinalKeptAlways` rest on `FInv`, whose first part is `DeclaredKept` itself; the others say what each
caller knows: that parameters and declarations are of names not declared final, that "super" gets its
constraint once, and that an assignment on its way belongs to a reference whose name was there, and not final, when it
was made. `SearchHalves` is what `SearchEnds` rests on besides fairness: while a search
goes on, each step ends it or leaves at most half of the entries, and nothing else of the table changes.

**MkModulesProofs**, from `MkModulesAssumption` (names of the kinds are distinct, a module
has finitely many members, `None` and `Outside` name neither an entry nor a module), proves
all four properties of the run, for any number of names, modules, usings and assignments.
Lemmas say what the two ways to enter a value do to a sorted table (`InsertedIs`,
`StoredIs`: every other entry is there as it was, and nothing else). On `TInv` (types,
how far the construction is, modules' tables hold no aliases) rest four invariants: `AInv`
(an alias leads to the entry of its name), `FInv` (what is not to be replaced is `final`
wherever its entry is), `RInv` (a member that was made has an entry with the declared
access) and `Entered`, which is about the loop of `mk_append_using_variable`: an entry that it
has passed, and whose name has neither been passed since nor assigned to, has its alias in the
object. When the loop is over that is `LastModuleWins`, which is no promise of the language but
what the code does where `wiki.doc/module.txt` asks for something else (below).

**MkGcProofs**, from `MkGcAssumption` and, in each theorem, `HeldElsewhere`. That an
object is in use says nothing about the next sweep, so the invariant `GInv` says that
there are sets of items, hash tables, vectors and frames that have the roots, are closed
under the pointers the *program* can follow and are in use (`Safe`); outside them slots may
be freed and used again, and stale pointers into them do no harm. With them goes what the code
needs of a C stack: which frame each pending call goes back to (`Stacked`, `Expected`,
`Kept`), and that the walk to the most derived part of an object ends (`Walks`, by a rank).
During a collection every mark is a promise: what a marked object points to is marked
or is among the pending calls (`ItemPromise` and its like, with exceptions for the
calls whose objects set their bit when they are done). When no call is pending all four
sets are marked, so the sweep takes nothing of them: `ReachableAlways`. In the other
direction, `MarksFound` says that what is marked or called on is in every set that
has the roots and is closed under all pointers, stale ones included, which with as
many rounds as there are objects is the set `GarbageFreed` speaks of.

`HeldElsewhere` says of a script what the theorems need, and what is known of the rest:

- it makes no use of the value of a call that left no last result: gc_noresult shows that
  this value may be a freed item;
- no array literal beside calls: with both, the vector is freed while its elements are
  evaluated (vm.c:1897; it takes two collections). The arrays of gc_array have simple elements;
- no assignment beside calls by a variable's name: with both, the frame of a block is freed while
  it is about to be called (vm.c:2029, below);
- beside objects no references to members (gc_memberref shows what they do), no assignment
  (with it a superclass part can be freed by way of a stale pointer, below) and no blocks. A block that
  outlives its frame leads the scan to the pointers the freed frame keeps, and may lead it to an object's
  table that way, as to a scope's. A freed frame keeps the mark of that scan too, so it is gone
  through but once, and in the cases looked at the object is then too new to be swept; the proof
  does not follow that argument, and no run has both.

`ScanShortens` is what `CollectionEnds` rests on besides fairness. A collection cannot be
measured by its marks alone: an item gets its bit when its scan is done, so that a circle of items
would be gone round for ever, and a frame that has its bit is gone through again for its previous ones.
`Ordered` says that items and frames, garbage included, form no circle
by those two pointers. The sweep clears an item's, but a freed frame keeps its previous one; a frame
made in its slot leads to frames that are in use, which lead only to such, so that no chain of stale pointers
ever comes back to where it began. So there is a weight for each pending call above that of all that its scan puts
in its place, and each step that does not end the collection marks a hash table, a vector
or a frame (`ToScan` falls), or leaves `ToScan` as it was and less weight pending (`Work` falls).

**MkExprProofs**, from `MkExprAssumption`. A lemma for each action says what it does to nodes,
calls and tokens, and `StepIs` sorts the twenty-five of them into the few things that can
happen to a tree: a node is added, an expression ends, an operator is placed. Over
that go the invariants, each on the one before: `TInv`, types and what each pending
call has in hand; `OInv`, pending calls began at ascending tokens; `EInv`, the operators that wait are
the right edge of a tree whose nodes no other call has (`RightEdgeAlways`); `HInv`, which conditions have their right
side (`ErrorLeavesHoleAlways`); `PInv`, what hangs below an operation binds as it must, for
every operation and not only those of accepted statements (`PrecedenceAlways`).

**MkExprTreeProofs** goes on from there to `TreeAlways`. While it is compiled a statement is a
forest, and `Forest` says of it four things. `Laid`: there are `lo` and `hi` such that each
node lies from token `lo[n]` to token `hi[n]`, what is linked to it lies in order inside of
that, and so does what a call has in hand in front of the token it is at; an operator that waits is
open to the right. `Attached`: each node is linked to another one or in somebody's hands.
`Sided`: how many links a node has, by its kind. `Made`: each name, number and call that was
read has its node, but for a call whose arguments are being compiled. One lemma per
action keeps it (`ForestBySign` to `ForestByRests`) until an error is met; after one, nothing
is claimed, nor does the property claim anything. At an accepted statement nothing waits and
no hands are left: a node inside of another one's span is smaller than it, hence what is under
a node lies in its span (`UnderLiesWithin`) and the largest node not under the statement
would have nothing it hangs on (`AllUnderOne`).

Each proof has the same outline: `Init` gives the invariant, each action keeps it (a lemma
per action or group of like actions), the invariant implies the property, and one PTL step
joins them.

## Only model-checked

The liveness properties `CollectionEnds` and `SearchEnds`: fairness and ENABLED are out of the
prover's reach. The fairness is all that is left to TLC: `SearchHalves` proves that the loop of a search,
and `ScanShortens` that a collection, cannot go on for ever.

Induction over data is done with the least counterexample (`LeastNatural`): what the
recursive functions of a module compute is shown by way of its smallest argument that does not have it.

## Where code and documents disagree

Three of these are runs: `gc_memberref`, `gc_noresult` and `classes_super`. The others are in the models as the code has them,
or lie in what the models abstract; no run is about them.

Compiler: a condition behind `if` that cannot be compiled is accepted without it, or the
loop at compile.c:1392 turns for ever (`autotest.rb:12` expects an error exit);
operators that wait are freed twice on an error (compile.c:1594); bad arguments of `@name(` are dereferenced as NULL (compile.c:1231-1249);
`(` and `{` have a priority and are accepted as binary operators; `+5` is negated like `-5` (compile.c:1248);
`a.` at the end of the file is accepted; a class body may end there without `end`.

Evaluator: `finally` is skipped when the try or its handler ends with return, break or an
exception (vm.c:817); a condition of a catch that raises leaves its operands and replaces
the exception (vm.c:756); an array literal swallows the exception of an element
(vm.c:1907), and its vector is freed by the second collection during its elements
(vm.c:1897); a block called by a variable's name is not compared with its arguments
(vm.c:2084); the frame of such a block is read before the arguments are evaluated and used
after (vm.c:2029): if an argument assigns to the variable, the second collection after
that frees the frame, and the call goes on in it.

A body that is empty or has only `if`, `while` and `try` returns what the former frame of its slot
left as its last result (vm.c:1008; `gc_noresult`); `wiki.doc/structure.txt:182-203` has such blocks.

Collector: a reference to a local variable made just before a collection outlives its hash table (new items
survive their first collection, what they point to need not). If a new object takes
the table over, and a frame that is used again still has the reference as its old last
result, the scan takes the object's table for a scope's, does not mark its superclass
part, and the next collection frees that. It takes scripts with objects and assignments,
which gc_object does not have.

Hash table: keys are compared in an `int` (hash.c:361). A parameter is entered without a
constraint (vm.c:1254; `Parameter` of MkHashTable) and takes over the one that a swept table
left in its array (mk_gc.c:260): it may refuse an assignment, though `wiki.doc/variable.txt:58-61`
says that a constraint is something a variable is given. An alias of `using` takes the place of a `final`
variable's value (vm.c:469; `FinalKept` names this exception).

Classes: static instances are made after the whole script, in the order of addresses, and not
where the class is declared (`wiki.doc/class.txt:17-20`); one that is linked before its
superclass never gets it (`classes_super`); a failing initial value is ignored while the exception object
stays set (link.c:86); a member that has no value yet is read from the superclass, or raises, though
`wiki.doc/variable.txt` says it is nil; who may write a member is not checked; a module is
accepted as a superclass; a comment says the memory pool's blocks have 4 kB, they have 2048 bytes; `import` of an unknown module
dereferences NULL (vm.c:347).

Modules (`wiki.doc/module.txt`): the text says that a member of a used module has the same
address by either name (63-72), but an assignment by its name alone replaces the alias
(classReference.c:74); that a conflict of names
between used modules is a compile error (74, 89), but the later module wins in silence
(vm.c:469). `LastModuleWinsAlways` says what remains, for names not assigned to. The text assigns
to such a member (70), but an alias is entered without a constraint of its own and is `final`
if it moves up an entry that is, say that of the import.
An `import` of a name the class already has is dropped in silence (compile.c:2224); `using` of what is no module dereferences it; `import` in a module makes
the compiler turn for ever (compile.c:2256); a reference to a member of an object with
aliases makes the collector read one as an item (mk_gc.c:77).

## Not modelled

- *Vector* (vector.c): its allocator is ManagedTable and what the collector does with it
  MkGc; the array operations themselves are loops over one C array.
- *Item conversions*, *arithmetic and string methods* (node.c, classInt.c, classFloat.c,
  classString.c, classNull.c): pure functions of one or two values, without state.
- *Lexer, string parser, keywords*: text, character by character. MkExpr and MkClasses
  begin at the tokens and lines.
- *Files, console, command line, debug dump*: calls of the C library. The console's call
  of `to_s` is in MkVm.
- In parts that are modelled: the static members of modules, statements with blocks in
  the compiler, parameters of methods with default values (MkVm takes a missing argument
  as a failure), the fatal code `FAILED` of an opcode that does not exist, removal from a
  hash table (never called), `mk_vm_is_class` and `mk_vm_has_module` (never called), names
  longer than a block of the memory pool, the limit of the operand stack.

## Plan

The order was: the tables everything is taken from, the heap and the collector, the
evaluator, then what they use (hash tables) and what comes before them (expressions,
classes, modules); proofs for the tables first, then for the classes, the evaluator, the hash table, the
modules, the expressions and the collector. What would come next, in this order: aliases as edges of the graph in MkGc; the
compilation of statements that hold blocks; pointers of native methods (`Array.each`) in
`native`.
