# A formal model of epex

epex interprets Apex: it parses classes and triggers, walks their trees, keeps
SObjects in an in-memory SQLite database and runs the tests it finds. This directory
holds TLA+ models of its core and of the language it interprets, the model-checking
runs on small instances of them, and proofs, checked by TLAPS, of what the core
guarantees for every instance. `PROJECT.json` is the index: components, runs, the
source lines behind each definition, findings, hazards and theorems. Line numbers
below are those of the sources.

## 1. The system

### Components

| Component | State it keeps | Operations | Right when |
|---|---|---|---|
| Record engine (`engine/engine.go`, `dml.go`, `id.go`, `db.go`) | schema, SQLite tables and rows, one id counter per object | Insert, Update, Delete, Upsert, Query (ensures tables), ResetDatabase | generated ids are free; a batch leaves what it got through and nothing else; a test starts with nothing |
| SOQL execution (`interpreter.go` 2080-2850, `engine/soql.go`) | none | turn a query into SQL, filter it by owner, run it, read child rows, check fields | the rows it returns are those the query means, within limit and access |
| Interpreter control flow (`interpreter/interpreter.go`) | the registers `env`, `thisObj`, `currentClass`, `callerSharingMode`, `execCtx`, `triggerCtx` | calls, constructors, blocks, loops, try, runAs, four signals, panics | each construct puts back what it changed, however its body ends |
| Trigger execution (`triggers.go`) | `triggerCtx` | fireTriggers, executeTrigger | triggers run around the engine call, with the objects of the statement |
| Test runner (`testrunner.go`) | verdicts | RunTests, runSingleTest | no test changes what the next one meets |
| Sharing and permissions (`context.go`) | `execCtx`, sharing modes | effectiveSharingMode, checkCRUDPermission, owner of inserts, filters of queries | a mode follows from the chain of calls; a refused statement has no effect |
| DML statements and Database methods (`interpreter.go` 1867-2068, `builtins.go` 551-800) | none of its own; SObjects are shared by reference | insert, update, delete, upsert in both forms | objects carry the ids of their rows; triggers and errors come in order |
| Expressions and values (`value.go`, visit methods of operators) | none | parse, evaluate and compare | operators get their operands; arithmetic keeps its width; equality, order and keys agree |
| Built-in methods (`builtins*.go`) | none | a library of pure functions | they agree with Apex's |
| Environments (`env.go`) | chain of scopes, static fields, fields of objects | Define, Get, Set | a name stands for what its program means by it |
| Class registry (`registry.go`) | classes, triggers | registration | nothing of a class is lost |
| Packages (`pkg/`) | packages, mocks | ResolveClass, BuildMergedRegistry | only global classes cross a namespace |
| Schema (`schema/`) | objects, fields, relationships | readers of metadata, lookups | relationships lead to the right object |
| Tracing (`tracer/`) | a list of events | record, render | entries and exits balance |
| Reports, command line, parsing (`reporter/`, `cmd/`, `apex/`) | none | input and output | out of scope |
| Generated parser (`parser/apex_parser.go`) | none | one method for each rule of the grammar | brackets nest; every operator has its level |

### How they interact

The program is sequential: one goroutine walks the tree and calls everything
else synchronously. A test method calls methods; DML in it fires triggers, which
are Apex code again and may do DML; DML and queries call the engine through
`EngineInterface`. What makes the code hard is therefore not concurrency but
three other things.

* **Reentrance.** A trigger runs in the middle of a statement, with the very
  objects the statement was given, and may insert them itself.
* **Two kinds of exits.** `return`, `break`, `continue` and `throw` are values
  that each construct looks at. Failures are Go panics; the constructs save
  registers in Go locals and restore them in straight-line code, so a panic that
  is recovered further out skips the restoring.
* **State that outlives a step.** Rows stay after a failed batch, ids held in
  Go values stay after a reset, registers stay after a test.

There are no messages, no timers, no persistence and no restart, so nothing in
the models is about these.

## 2. The modules

| Module | What it is |
|---|---|
| `RecordStore` | abstract: a set of records per object, changed one record at a time, in the way the kind of the call allows |
| `Engine` | the record engine; shown to implement `RecordStore` |
| `Dml` | EXTENDS `Engine`: statements, Database methods, triggers, permissions and owners, over the engine's own actions; shown to drive `Engine` only as its specification allows |
| `Interp` | control flow of the interpreter, trigger bodies and the test runner, over the registers |
| `Shapes`, `QueryGrammar`, `Grammar` | the language the parser accepts: shapes of right-hand sides, the rules of SOQL and SOSL, all other rules |
| `Visitors` | which part of the interpreter reads each node of a tree of `Grammar` |
| `Expressions` | the parser's precedence climbing, and what precedence means |
| `Values` | numbers, texts, maps; arithmetic, comparison, equality, keys, switch |
| `Soql` | a query from its tree to its answer, and what it means |
| `Lexical` | abstract: what a name of a program means |
| `Names` | how the interpreter finds it; shown to implement `Lexical` until a program confuses it |
| `Packages` | loading packages, resolving classes, merging registries and schemas |
| `Relations` | lookups between objects, the names of relationships, paths of parents |
| `MCEngine`, `MCDml`, `MCInterp` | values of the constants for TLC |
| `MCLanguage` | EXTENDS the modules from `Visitors` to `Relations`, side by side, with the values of their constants |
| `ListFacts` | lemmas on sequences, extremes, induction, and what recursive functions compute |
| `EngineProofs`, `DmlProofs`, `InterpProofs`, `NameProofs`, `ValueProofs`, `PackageProofs`, `QueryProofs` | theorems and their proofs |

An operator named `X_Something` or `M_X` next to an operator `X` is a plausible
wrong version of `X`. Nothing uses it; `PROJECT.json` names the property that
fails when it takes the place of `X`.

### Engine

`schema` is `Engine.Schema.SObjects`, `tables` the tables SQLite has, `rows` the
contents of the tables, `counters` the map of the id generator. A batch is a Go
loop, and each of its turns is one action (`InsertRecord`, `UpdateRecord`,
`DeleteRecord`, `UpsertRecord`), between a beginning (`Insert`, `Update`,
`Delete`, `Upsert`, which do or do not call EnsureTable) and `Finish` or the
failure of a turn. `call` is the loop in progress, `outcome` how the last one
ended. `Query` stands for all forms of queries, which write nothing but the
tables they ensure. `Reset` is ResetDatabase; its argument is the set of ids
that the test's instance, built before the reset (testrunner.go:72-86), still
holds. Two history variables say what the test has in hand: `held` (ids it can
put into a record) and `carried` (those of them not issued since the reset).

Of a record the model keeps the Id, how its name is spelt, and one other
column, `ext`, which may be absent, null, or unknown to the table. Names of
columns have no case in SQLite and have one in Go maps; that is why `spelt` is
there. Ids are pairs of prefix and number; a test may also write an id of its
own (`LiteralIds`). Left out: an Id that is null.

### Interp

`reg` holds the registers (`env` as the length of its chain of scopes, `thisObj`
as its class). `stack` holds the constructs in progress, each with what it
`saved`; `signal` is "run" while statements execute, or else what the body in
progress came to: one of five values, or one of two kinds of panics (the four
Apex errors and all the rest, which triggers treat differently). `Enter` begins
a construct (`Begun` says what it changes), `Leave` ends it (`Restores` says what
it puts back), `Unwind` takes one construct off the stack for a panic and puts
back nothing. `Catch` runs in whatever scope the panic left, as the code does.
A program is any nesting of constructs: nothing about a program is fixed but the
grammar (break and continue inside loops) and the sharing modifiers of classes.
`BeginTest`, `RunTest`, `EndTest` and `Crash` are runSingleTest; a panic in the
field initialisers of a test class is outside its recovering function, so it
ends the process.

Two history variables serve the properties: `should` in each frame is what the
registers would be if no construct had ever been cut off, `leaked` is the set of
registers that some construct cut off by a panic had still to put back.

### Dml

`objects` are the SObjects of a test, by reference: `id` and `OwnerId`, a field that
was set to null being there and one never set absent, which is what the code looks
at when it sets an owner (interpreter.go:1914). `calls`
is the stack of DML in progress; each goes through the phases check, before,
engine, after. In the phases before and after the code of a trigger may run
(`SetOwner`, `Call`, `TriggerThrows`); which events have a trigger is the
constant `Events`. `Proceed` checks permissions and sets owners in the code's
order, `CallEngine` copies the objects into `recs` (valueToRecords) after the
BEFORE triggers, `EngineTurn` hands the next copy to the action of `Engine`,
`EngineDone` writes ids back by index, `EngineFailed` throws (statement) or goes
on to the AFTER triggers (Database method). `Throw` drops any number of calls:
who catches, and where, is left open. `NextTest` is Reset with new objects.

Left out of `Dml`: System.runAs inside a trigger; other spellings of field names
(`Engine` has those of the Id); lists that begin with null, which have no object
name; an upsert by an external id (`Engine` has it); the result objects of the
Database methods.

### Grammar and Visitors

Each rule method of `apex_parser.go` is a definition of its name: its right-hand
side as a value, made of symbols, sets of tokens, sequences, alternatives and
repetitions. The method's code (prediction, matching, error recovery) is what
ANTLR makes of that right-hand side; what matters to the rest of the program is
which children a context can have. The labelled alternatives of `expression`,
`primary` and `value` have contexts, so they are rules.

`Visitors` walks down a tree, one child at a time (`Descend`), and says who looks
at the node: the registry, the visitor, the code that evaluates the first user of a
runAs or the assignments in a `new Account(...)`, the code that builds SQL, code that
takes the text, or nobody. The answers are read off the visit methods and
`extractQueryParams`. Where what becomes of a child depends on more than its rule,
`Ways` says in which ways it can be met: an expression as the value of another, as an
argument of such a `new`, within the left operand of an operator without a visit
method or on the left of `=`; a creator for each kind of type; fields that are static
and methods that another of their name hides. `lost` remembers where, and in which
way, the walk was dropped.

### Expressions

`Climb` is the rule method `expression(_p)` with the levels its `Precpred` tests
have; `Trees` is what precedence and associativity mean, by all the trees over a
string. Both give a tree as the set of the spans of its operands. `TypeOperand`
and `TypeOperator` type a string, one token at a time. `T` is a type and `x` a
variable; the parser sees two identifiers, which is why the cast is in the model.

### Values

`given` is a pair of values and an operator. The widths are constants: `IntHalf`
and `LongHalf` are half as many as there are Integers and Longs (2^31 and 2^63 in
Go), `Precise` is how far a double holds every integer (2^53). So TLC meets these
boundaries with small numbers, and the proofs hold for Go's; that they are ordered
as in Go is part of the assumption `Widths`. `ToFloat` rounds to the nearest double,
a tie to the even one: doubles beyond `Precise` lie `Unit(m)` apart, a power of two
from `Units`. Besides the finite doubles there are the infinities, -0.0, which the minus
sign makes of 0.0 (interpreter.go:668-670), and NaN, which `Math.sqrt(-1)` gives:
`FloatEqual` and `FloatLess` compare them as Go does. What arithmetic makes of two
Doubles is some Double, because no property is about its bits. A value that is a map
has the order in which Go's random traversal renders it as an argument.

The text of a value is a record of what it is the text of: digits, letters, the
entries of a map. A Double from `Exponent` on (10^6, for the format `%g` of
`value.go:167`) has a text with an exponent, unlike the Integer it equals. What
`ToLower` and `EqualFold` make of a text are two functions, `Lower` and `Folded`, that
need not agree on any letter, and `Rank` is the order of texts in lower case. A text
that is put together from two is kept as the two of them; nothing compares it.

### Soql

One object stands for all: its rows refer to each other, so that it is its own
parent, child and semi-join. `Conditions` is a set of trees closed under taking
parts, `Height` how high each is. `BuildLogical` makes the tokens of a condition,
`Shared` adds the filter of the owner to them, `Ask` runs the query, orders it in
any way the ORDER BY allows, takes the part LIMIT and OFFSET leave, adds child
rows, and checks fields afterwards. SQLite is external: `Verdict` reads the tokens
again, with three truth values, at the last OR outside parentheses, else at the last
AND, else at NOT. All of these are functions over `Conditions` or over texts. `Meaning` is the reference: the
condition evaluated as a tree, in which a literal is what it stands for. That is the
constant `StandsFor`: `buildValueExpression` (interpreter.go:2738-2792) hands over the
text as it is written, so a string with a backslash, which `VisitLiteral` unescapes, a
date formula such as `TODAY`, or a bound variable within a list (2891) is compared as
its own text. `Misread` has these literals (`WrittenOther`) among the conditions
that do not say what they mean. STUBS.md:171-172 has USER_MODE check the
permissions of the object too; the code checks only fields, and so does the model.

### Lexical and Names

`Names` has one chain of scopes (`env`), in which the scope of a method lies on
that of its caller, and fields, which a bare name writes in both places. Lookups
ignore case and definitions keep it (env.go:19-58): of a name in a scope there is one
value for each spelling it was defined under, and a lookup meets any of them first.
`Lexical` has scopes that end with their method, fields and static variables. The
mapping takes of each scope the names it declares (`declared`, a history
variable) and of each method the object it belongs to, which for a static method
is none although `thisObj` is still its caller's. The interpreter does not
implement `Lexical`; it does so up to the first of six things a program may do,
and `confused` says which one it did: assign a variable named like a field
("both"), call a method of an object whose fields have the names of variables
around ("captured"), write through an object a field written by its bare name before
("stale"), use a static variable by its bare name ("static"), read a field named
like a class ("class"), declare a variable where a field of that name was written
under another spelling ("respelt": `F = 1; Integer f = 2;` leaves two entries in one
scope, and Go's map order decides between them). Loop variables and catch variables are declared in scopes
as those of blocks are.

### Packages and Relations

`Packages` loads mocks in the order of the manifest and then the local package.
A class is its name and the modifier as it is written, because the code compares
the modifier's exact spelling. `ResolveClass` is the resolver's sequence of
lookups, `MergedRegistry` and `MergedFields` what the interpreter and the engine
get instead of it.

`Relations` has the lookups of all 34 standard objects and their child
relationship names. An object is in `registered` once it is used; a query
registers its object and the parents its path leads through
(`queryWithEnsure`). A name is resolved by the first lookup Go's map gives, here a
set of candidates. What a project's metadata gives is a member of `Projects`: lookups
of its own objects or of standard ones, and standard lookups described again, which
then take the place of the built-in ones (`builder.go:80-149`). The name of a parent is
a pair: the field's name without its suffix, and whether it ends in `__r`.

## 3. The runs

| Run | Shows | Distinct states |
|---|---|---|
| `engine` | seven properties of `Engine`, among them that it implements `RecordStore` | 98,242 |
| `interp` | four properties of `Interp` | 1,592,861 |
| `dml` | seven properties of `Dml`, among them that it drives `Engine` by its specification and that every statement ends | 704,611 |
| `language` | 21 properties of the modules of `MCLanguage` | 428,214 |
| `missing_table`, `queried_record`, `run_as_leak`, `throw_lost`, `constructor_sharing`, `upsert_unchecked`, `database_owner`, `sharing_or` | one counterexample each: section 5 | until found |

**engine.** Two custom objects with one initial and so with one key prefix; one
has its table at the start, the other gets it on first use. Two ids per object
and two records per batch: enough for a record that fails after one that did
not, for an id one object issues and the other meets, and for a second id that
equals the literal one, `<<"a0X", 2>>`. One value of the external id lets two
rows match an upsert. A third object, id or record would repeat these meetings.
Deadlock is checked: the engine can always begin a call or end one.

* `GeneratedIdIsFree`: a generated id meets a row only if the test brought that
  id in, or another object of the same prefix was issued it.
* `MissingTableMeansUnseen`: "no such table" only for objects that nothing
  inserted, upserted or queried.
* `IdsHaveASource`: ids of rows and of the test's records come from the
  generator or from outside, also after failures and resets.
* `InsertAddsItsHead`: however an insert ends, it has added one row per record
  it got through.
* `TestsStartClean`: a reset empties also the tables made on the way.
* `StoreRefinement`: each turn of each loop creates, changes, removes or rekeys
  one record, as the kind of the call allows. An update never creates a row, an
  insert never replaces one.

**interp.** Three classes, without a modifier, with sharing, and inheriting; one
user, one trigger context; three constructs at a time, four scopes. Three is
what the properties need: the construct that recovers, the one that is cut off,
and one between them or after them. Deadlock is not checked: a run whose fixture
panics stops for good (`Crash`), and so do behaviours that use up `MaxScopes`,
since every catch can leave a scope behind.

* `OnlyPanicsLeak`: a register that the running code finds other than it should
  was left so by a construct that a panic cut off. No value, in any nesting of
  loops, tries, calls, runAs and triggers, leaves one behind.
* `TestsPutBack`: between tests the scope, the instance and the class are those
  of the start. (The user, the trigger context and the caller's mode are not:
  `testrunner.go:106-110` puts back three of six.)
* `SharingFollowsCalls`: the effective sharing mode, computed from two registers,
  is the one the whole chain of calls gives.

**dml.** Two objects of one type, alone next to a null and both, in the other
order; triggers before and after insert and before update; one call inside the trigger of another;
three ids; owners that are never set, set to a user, or set to null by the test and
by triggers. So a trigger inserts what its statement is about
to insert, an insert fails at its second record, and a retry meets rows that the
first attempt left. The profile is denied everything, so that
a statement AS USER is refused in a runAs block and does outside one, where nothing is
checked, what it would do if permitted. Deadlock is checked.

* `OneObjectPerId`: two objects never carry the id of one row.
* `AfterSeesItsRows`: AFTER triggers see objects that carry the ids of rows with
  their data (for objects before the first null of a list: behind it
  `writeBackIds` is off by one, see the hazards).
* `RefusedChangesNothing`: no row changes while a statement AS USER is in
  progress that its user may not do.
* `InsertsHaveAnOwner`: a row an insert statement adds in a runAs block has one,
  unless code set the OwnerId of its object to null: only a missing key is filled in.
* `DrivesEngine`: every step is a step of `Engine` or leaves it alone, and no
  record carries an id that is not `held`.

* `EveryStatementEnds`: calls in progress come to their ends, through failures,
  refusals and throws, unless triggers begin new ones for ever.

**language.** The parts meet through values only, so they run side by side: the
variable `part` says which, and the others stay where they began. Deadlock is not
checked, because most parts stop: a string is full, a query is answered, the
packages are loaded.

* Visitors, all walks down all rules. `NothingElseIsDropped`: every statement, block,
  expression, condition and ordering is run or reaches the engine, unless it lies
  in one of the constructs that `Unsupported`, `Annotations` and
  `DroppedFromQueries` list, or in one of the places `NotEvaluated` lists: operands of
  operators without a visit method (768-786), arguments of a collection (1140-1207) and
  those of a `new Account(...)` that are no assignments (1236-1246), all users of a runAs
  but the first (1822-1824), values of static fields (261-264), hidden methods and
  constructors, and what `=` assigns to beyond names, fields and elements. `BracketsMatch`: what a rule matches can be nested.
* Expressions, all strings of up to seven tokens over an operator of each kind
  (left and right associative, tight and loose, one that is a prefix too), dots,
  `++`, casts, parentheses, `? :`. Seven hold three operators, or a cast in
  parentheses between two. `OperandsBindAsWritten`: each operator gets the operands
  its level gives it, unless a variable in parentheses is followed by what could be
  the operand of a cast.
* Values, all pairs of Integers from -4 to 3 and Longs from -16 to 15, with doubles
  that hold every integer up to 8 and every other one beyond: an Integer is always a
  double, a Long of five bits is not. The doubles are five finite ones, with exponents
  from 2 on, so that an Integer has the value of one, and -0.0, the infinities and NaN.
  The texts are those of a number, of -0.0, of NaN, of null and of true, some that
  differ by case only, one letter that EqualFold joins with another and ToLower does
  not (the long s), and one the other way round (the dotted I). `NumbersStayInRange`,
  `ResultIsTheWider`, `OrderIsTotal`, `EqualNumbersAreTheSame`, `EqualsItself`,
  `SlotsAndSwitchesFollowEquality`: each says where the rule holds and names the
  places where it does not, NaN and -0.0 among them.
* Soql, all tables of two rows over two texts, null, lookups and owners, 39
  queries, some with a literal that stands for another text than its own, by itself, in a
  list and in the condition of child rows. Two rows are what an order, a limit, a parent and its child need; three
  truth values are met with one null. `AnswersAsMeant`, `OwnedUnlessOr`,
  `DeniedIsNotShown`, `KidsAreItsOwn`.
* Names, two names, of which one is a field of two objects and one a static
  variable, a field of one object and a class; two spellings of each; two methods,
  one block, two variables. `LexicalUnlessConfused` is the refinement, `NamesMeanWhatTheySay` says it
  of what is read. Each confusion takes at most two methods, one calling the other.
* Packages, three packages of one class and two spellings of an object, in four
  namespaces of which two differ by case only. A rival, an own and a default package
  are three. `OnlyAccessibleClasses`, `OwnClassesFirst`, `RegistryAgreesWithResolver`,
  `FieldsSurvive`.
* Relations, the standard objects with a project that adds nothing or three lookups,
  of which one takes a child name that is taken and one describes a standard lookup
  again; two queries with paths of two
  parents, so that the second meets what the first registered.
  `RelationshipsAreUnambiguous`, `PathsReachTheirObjects`.

**Fairness and liveness.** The code is a walk over the program it is given, and
nothing in it has to happen at some time other than by the next line being
executed. `FairDmlSpec` says just that: `WF_dmlVars(Advance)`, where `Advance` is
what the code itself does next with the innermost call, its check, the engine's
turns, and going on when the code of a trigger is done. A trigger that computes for
ever is thereby excluded; one that begins calls and catches their errors for ever
is not, and is the second disjunct of `EveryStatementEnds`. Recursion through triggers is
bounded by the model (`MaxCalls`) and by nothing in the code, which is listed as a
hazard. `Interp` has
no liveness property: a program may loop for ever in any construct.

## 4. The proofs

TLAPS checks every step. The theorems hold for every value of the constants that
meets the assumptions:

* `EngineAssumption`: finitely many objects and literal ids, the bounds are
  natural numbers, the markers (`Null`, `Absent`, `Unknown`) are not values, and
  two objects share a prefix only if both are custom (`id.go:9-60`).
* `InterpAssumption`: each class has a modifier, `None` is no class, user or
  phase, the bounds are positive.
* `NamesAssumption`: objects have fields, `None` is no object, and the keys of static
  variables are told apart from each other and from names (interpreter.go:850 joins
  class and name by a dot, which no name contains).
* `Widths`: true of 2^31, 2^63, 2^53, 10^6 and the powers of two up to 2^10.
* `TextsAssumption`: the texts of strings in lower case have places in one order. It
  says nothing of which letters fold: `Lower` and `Folded` are any two functions, and the
  theorems say what becomes of strings on which they agree or part.
* `RelationAssumption`, `ProjectsAssumption`: no object has the empty name; a project's
  metadata gives each field of an object once, as files in one directory do, under a
  suffix `Id` or `__c`; a standard lookup that is described again refers to what it did
  or leaves that out.
* `SoqlAssumption`, `ConditionsAssumption`, `QueriesAssumption`: ids differ, null is no
  id, text or user; conditions are trees as the grammar makes them (lists and semi-joins
  stand behind IN and NOT IN, NOT has one operand), each higher than its parts; a literal
  stands for any values whatever; limits
  and offsets are natural numbers.
* `PackageAssumption`: packages are of the content that is loaded, and only the
  empty namespace is empty in lower case.
* `DmlAssumption`: each object has a type, lists begin with an object and fit a
  batch, users are values an owner may have.

**EngineProofs.** `EngineTypeCorrect`, `IdsAlwaysHaveASource`,
`GeneratedIdsAreFree`, `MissingTablesAreUnseen`, `TestsAlwaysStartClean`,
`InsertsAddTheirHead`, `EngineImplementsStore`. The
types are inductive by themselves. `GeneratedIdIsFree` is not: that a generated
id is free needs to know where every id of every row came from, and that the
number just issued is above all issued before. The inductive invariant is the
conjunction of `TypeOK`, `IdsHaveASource`, `GeneratedIdIsFree` and
`MissingTableMeansUnseen`; the proof goes turn by turn through the four loops,
over lemmas about what a table looks like with a row added, removed or renamed.
`InsertsAddTheirHead` adds `HeadCounted`, that in the middle of an insert the table has
as many rows as when it began plus the turns done; a turn adds one because its id is
free or the turn fails, and tables are finite because ids are.
`EngineImplementsStore` is the refinement, one lemma for each kind of turn. Of the
states it needs only the types and where ids come from: a row is a function of columns
other than its Id, which `RowsOK` says, so that a row that is rewritten is a record
changed and not two.

**InterpProofs.** `InterpTypeCorrect`, `NothingElseLeaks`, `EveryTestPutsBack`,
for nesting of any depth. `OnlyPanicsLeak` speaks of the innermost frame only;
to prove it one must know that every frame, when it ends, restores what the next
one should see. `IInv` therefore has a `Chain`: for each frame, the registers it
saved and the ones it should run with agree with those of the frame below it,
but for the leaked ones. `Bottom` says that the first frame, a fixture or a
test, saved what a test puts back and runs with the rest as they began; `Match` ties
the registers to the innermost frame; and once the class has leaked, so has the caller's mode.

`SharingIsTheChains`: the two registers the interpreter keeps give the mode that the
whole chain of calls gives. A further invariant, `Linked`, relates each frame to the
one below: a method of a class that states a mode has it, any other frame has the
mode of the frame under it, and the first has that of its class. By induction along
the stack (`ModesFollow`) the innermost frame has the mode of the last class that
states one, and `Match` carries it to the registers.

**DmlProofs.** `DmlImplementsEngine` proves that `Dml` implements `Engine`, for
any lists, triggers and depth. Its invariant `DmlInv` adds to the types `HeldIds`
(the ids of objects are among those the engine gave out) and `Driving` (while the
engine works, the innermost call is the one that works, and its copies carry
held ids, or ids of the loop in progress where the loop has been). From it,
`DmlTypeCorrect` and `DmlIdsAreFree`, the latter by citing the theorem about
`Engine` for the implementation. A second invariant, `Admission`, says of every
call past its check that it was not refused and that the objects of an insert
statement have owners, also in the copies the engine gets; it gives
`RefusedNeverChangesAnything` and `InsertsAlwaysHaveAnOwner`: a copy's owner is never
absent, so a row without one comes of a copy that says null, which only code writes.

`AfterAlwaysSeesItsRows` and `ObjectsHaveIdsOfTheirOwn` are about how objects and
rows keep together. The first rests on `Served`: while the engine works, its copies
are those of the objects of the innermost call, in their order, and the ones it is
done with have rows, an insert's with their data still. The second rests on two
invariants more. `Unique` says that the id of an object was generated under a name
the object is inserted by, besides that no two share one. `FreshIds` says what a
copy in the engine's hands may carry: the id of its object, or one generated on the
way that neither an object nor another copy carries. Without the second, the ids
written back at the end of an insert could be anything the engine pleases.

Both theorems state what they need of a program as hypotheses, constant formulas
that `MCDml` has TLC evaluate. `Paired`: `valueToRecords` leaves nulls out and
`writeBackIds` (interpreter.go:2041-2068) counts them, so in a list where an object
stands behind a null and others follow, an id goes to the wrong object: an upsert of
[r, null, q, s] gives q the id of s. That is the code's behaviour, and listed as a
hazard; the theorems are about lists where it cannot happen. `NoClash`: the engine
takes the object of a list from its first element (interpreter.go:1877), so a list
of mixed types inserts an SObject under another's name; objects of one type must not
be inserted under two names whose prefixes are equal.

**ListFacts.** Lemmas on Front, replacement and prefixes; the existence of a
maximum and a minimum; and `Induction` over 0..n for a set of numbers. The provers
cannot take an operator as a parameter of a theorem, so induction is stated for a set and
proved from the well-foundedness of strict inclusion. `HeightInduction` is the same for
things that have a height. `Recursion` says when a function that a definition gives in
terms of itself exists and satisfies its equation: the values it may take on are a set,
one for each argument, and its body looks at values of smaller height only. It takes the
body as a function of such functions, which is a set again.

**PackageProofs.** `NothingElseIsFound`, `OwnClassesComeFirst`,
`RegistryAndResolverAgree`, `FieldsAlwaysSurvive`: the four properties of `Packages`,
for any number of packages, any names and any manifest. They follow from the types
and from `LocalIsLast` (once loading is done, the last package is the local one and
has the default namespace); the work is in what a maximum and a minimum of a set
of positions are.

**NameProofs.** `NamesAreRead` and `NamesImplementLexical`: for any classes, fields,
methods, nesting and values, the one chain of scopes with its copies of fields does
what lexical scopes do, step by step, until the program does one of the six things
of section 2. The inductive invariant is `confused = {} => NameInv`, and its parts say why
the six matter. `Alone`: a scope holds a name it does not declare only if no scope
below has the name, for a bare assignment would have found that one. `Copied`:
such an entry equals the field of the one object that the methods above may mean by it.
`Clear`: no variable of a caller has the name of a field of the callee. `Chain` is the
types, in which each name a scope has is there under one spelling (a second one
would be "respelt"), and where the scopes of each method begin. Every operation keeps all four unless
it adds to `confused`; the end of a method is the
longest case, because the copies its scopes held end with them.

**ValueProofs.** `ResultsAlwaysFit`, `ResultsAlwaysWiden`, `EqualMeansSame`,
`ValuesEqualThemselves`, `OneOrderHolds`, `SlotsFollowEquality`, for any widths and so for
Go's. The first two go through the
cases of `Arithmetic` over `WrappedFits` (what wraps is in range) and `QuotientIsInt`. The
third needs two facts about rounding: a number up to `Precise` is its own nearest
double (`NearIsHeld`), and one beyond never rounds to less than `Precise`
(`FarStaysFar`), since `Precise` is itself a multiple of every distance of doubles
that may apply there. The others go through the kinds of doubles (`FloatFacts`,
`FloatOrder`, `FloatTexts`): numbers but NaN are ordered as their doubles are, strings by
the `Rank` of their lower case, and two numbers have one text only if they have one double
or are NaN (`NumberSlots`), the converse failing for Longs, for Doubles with an exponent
and for -0.0.

**QueryProofs.** First the schema. `NamesMeanOneLookup`: no name means two lookups,
over the whole table of standard objects and for any project. Two tables must agree: what
a lookup refers to (`StandardObjects`) and what its children are called
(`childRelationshipNames`). The provers go through them record by record: `Home` says
which object and field a child name of an object belongs to, and `ChildNamesFit` that
every entry of the table is where `Home` has it; so a name leads back to its lookup
(`ChildNamesTell`). `PathsAreFollowed` then follows with no hypothesis, by the inductive
invariant `RelationInv`: what is registered are objects with names.

Then the queries: `ConditionsAreAnswered`, `FilterHoldsUnlessOr`, `DeniedFieldsAreNotShown`,
`ChildrenAreItsOwn`, for any conditions, texts, users and queries. Rows, an order and
a limit are simple; that a text says what its condition means is not, because SQLite reads
tokens and not trees. The argument has four steps. (1) Texts nest: in the text of a
condition each prefix has at least as many opening parentheses as closing ones, and what
is put in parentheses shows no operator outside them (`TextsNest`, by induction over
height). (2) `Verdict` is compositional on texts that nest: of parts joined by one operator
it is the operator of their verdicts (`JoinedByOr`, `JoinedByAnd`, `VerdictOfEnclosed`), however the
parts are split, because the last operator is found where it was put. (3) So, by induction
again, rows that the text finds are rows that the condition holds of, unless it is one of
those that `Misread` lists (`ConditionsSayWhatTheyMean`); under a semi-join with a
missing lookup false and unknown may change places, which is no matter until something
negates them, hence `Loose`. (4) Such a text is not refused (`ConditionsAreTaken`). The
filter of the owner stands behind AND, so a text without an OR outside parentheses is
bounded by it (`FilteredRows`). `SoqlInv`, the inductive invariant, is the types of the
table and the user, and that there is no answer before there is a query. The recursive functions satisfy their
definitions by `Recursion`.

**Model-checked only.** These stay with TLC, for these reasons.

* `EveryStatementEnds`: liveness and ENABLED are out of the reach of these provers.
* `BracketsMatch`, `NothingElseIsDropped`: `Grammar` has RECURSIVE operators over
  right-hand sides, and no obligation of a module that reaches one gets to the SMT solver
  (`Visitors` and `MCLanguage` do). No constant and no bound is in them: the run meets every
  rule under every reader, so a theorem would say no more.
* `OperandsBindAsWritten`: `Expressions` has RECURSIVE operators. The rule method goes on from
  where its recursive call ended, so that it ends at all is a fact about its own
  results; it has no height to be a function over, as the conditions of `Soql` have, and a
  definition that had one would not be the parser's.

The properties of the runs that expect a counterexample are false of the code, and
section 5 is about them.

## 5. Where the code and its documents disagree

Each is a run that ends in a counterexample; `PROJECT.json` quotes both sides.

| Run | The code | The document |
|---|---|---|
| `missing_table` | update and delete do not ensure the table (`engine.go:90`) | README.md:60: used in DML, a table is created |
| `queried_record` | a queried record has its Id under "id", update and delete look for "Id" (`dml.go:42`) | README.md:58: field access has no case |
| `run_as_leak` | a panic out of a runAs block leaves its user (`interpreter.go:1860`) | STUBS.md:141: context is restored |
| `throw_lost` | a throw that ends a method becomes null (`interpreter.go:229`) | GUIDE.md:167: throw is supported |
| `constructor_sharing` | a constructor runs in the class of its caller (`interpreter.go:305`) | STUBS.md:147: with sharing enforces |
| `upsert_unchecked` | upsert AS USER checks nothing (`interpreter.go:1989`) | STUBS.md:164: same pattern for UPSERT |
| `database_owner` | Database.insert sets no owner (`builtins.go:578`) | STUBS.md:139: INSERT sets the owner |
| `sharing_or` | the filter of the owner is put behind the condition with AND, also where the condition is an OR (`interpreter.go:2173`) | STUBS.md:147: with sharing enforces |

## 6. The plan

Done: the engine and its abstraction, control flow with the test runner, DML with
triggers; queries, names, packages, values, the grammar and relationships; the
theorems above. Left, in this order:

1. Proofs: `OperandsBindAsWritten` for strings of any length, by a relation between
   positions and trees that `Climb` is shown to stay in. `DmlIdsAreFree` has its like for
   every other theorem about `Engine`, by the same citation.
2. `Dml`: results of the Database methods, spelling of fields, runAs of a queried
   user and inside triggers.
3. `Interp`: a property about finally blocks that a panic skips; the balance of
   the trace.
4. `SObjectTypeForID` over prefixes that objects share.

## 7. Not modelled

Input, output and formatting (command line, reporter, renderings of traces); the
lexer and, of the generated parser, error recovery and prediction tables, which
are the output of a tool over rules the model has; TYPEOF, aggregates and GROUP BY,
whose rows are SQLite's; string, date, math, JSON and other pure methods, which unit
tests serve better; lists, sets and maps as containers; the readers of metadata
files, manifests and mocks, whose results are inputs here; fields of standard
objects other than lookups; the tracer, an append-only list.
