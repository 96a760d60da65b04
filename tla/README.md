# A TLA+ model of dwarfidl

dwarfidl describes binary interfaces with the vocabulary of DWARF debugging
information. The library in `src/` reads such descriptions into DIEs (debugging
information entries), selects the types an interface is made of, and prints DIEs
as dwarfidl or as C++. This directory holds TLA+ models of the parts of the library
that have an algorithm worth the name, TLC configurations that check them on small
instances, and TLAPS proofs of every safety property that those runs check, for all values
of the constants.

Paths below are relative to the repository root; `target.cpp` stands for
`src/dependency_ordering_cxx_target.cpp`.

## The system

Everything runs in one thread, in memory, with nothing persisted. What is hard here is
not concurrency. It is worklists and maps that change while they are iterated over,
callbacks that learn their context from a member variable, containers that compare
DIEs by *type equality* while other code compares them with `==`, and loops that have
to end on cyclic types.

| component | source | state it keeps | operations |
|---|---|---|---|
| dependency closure | `target.cpp` 76-262, its header | `worklist`, `output_expanded`, `current_pair_transitively_closing_from`, `m_order_constraints`, `m_output_fragments` | `transitively_close`, `maybe_get_name`, `add_order_constraint`, `maybe_add_to_worklist` |
| ordered output | `target.cpp` 274-408 | the last two of those, `emitted`, `type_definitions_generated_by_name`, the position in the pass | `write_ordered_output` |
| C++ generator | `src/cxx_model.cpp` | none; member layout has `power`, `test_offset` | `decl_of_die`, `defn_of_die`, `decl_having_type`, `maybe_get_name` and others |
| DIE creation | `src/create.cpp` | the DIE tree, `postpone`, the recursion | `create_dies`, `create_one_die_with_children`, `create_one_die`, `find_or_create_die`, `make_attribute_value` |
| interface walk | `src/dwarf_interface_walk.cpp` | `out`, `dedup_types_out`, the recursion with its `currently_walking` sets | `gather_interface_dies`, `my_walk_type` |
| lexical conversions | `src/lang.cpp`, `src/dwarfprint.cpp` 159-173, the values in `src/create.cpp` 41-176 | two small automata | `unescape_ident`, `unescape_string_lit`, `escape_ident`, `escape_string_lit`, `opcode_to_string`, `make_attribute_value` |
| printer, new syntax | `src/dwarfprint.cpp` | none | `print_type_die`, `print_dies`, `dies_to_idl` |
| printer, simple syntax | `src/print.cpp` | none | unfinished |
| grammars, tools, superseded files, tests | `parser/`, `examples/`, `*.old`, `tests/` | - | - |

How they interact. A client (say `examples/dwarfhpp.cpp`, or liballocs) walks an
interface with `gather_interface_dies` and its own predicate. It constructs a
`dependency_ordering_cxx_target` with the pairs (declaration or definition, DIE) it wants,
calls `transitively_close` and then `write_ordered_output`. `transitively_close` runs the
generator for each pair; the generator calls back `maybe_get_name`, which records a
constraint against the pair at work and extends the worklist that the caller is iterating
over. The two calls share `m_output_fragments` and `m_order_constraints`; the second one
relies on the first having produced a fragment for whatever a constraint ends in.
`create_dies` is the other direction: from the parser's tree to DIEs. What
`gather_interface_dies` returns, the DIEs and the set of deduplicated types, is what
`print_dies` prints, and what it prints is what `create_dies` reads.

What makes each part correct:

* closure: one fragment for each class of type-equal DIEs reached, none missed; each
  dependency booked on the pair that asked; an end in spite of recursive types;
* ordered output: every fragment exactly once, after everything it depends on; giving up
  exactly on cycles; suppression of a fragment only for a namesake, at most one
  definition for a name;
* generator: the names its text uses are those it asks for; members laid out where DWARF
  has them;
* creation: every DIE of the text made, with all its attributes, whatever the order of
  references; an end when names do not resolve;
* walk: the types gathered are those reachable, one of each class, and the walk ends;
* printing: what the text of a gathered DIE refers to is printed too;
* printing and reading: names, strings and numbers survive, or change once.

## Modules

| module | what it is |
|---|---|
| `EmitKeys` | pairs of an emit kind and a DIE, and `compare_with_type_equality`. `TypeRank` maps each DIE to the place of its equality class in the container order, so two DIEs may be one key and still differ for `=` |
| `TopologicalEmission` | abstract specification: nodes of a graph are emitted one at a time, each after its successors; giving up is allowed only if nothing left is ready |
| `OrderedOutput` | `write_ordered_output`. A step is one visit of a pass |
| `OrderedOutputProofs` | theorems about it |
| `ReferenceClosure` | abstract specification: generate what is referred to, nothing else, nothing twice; close when no reference is open |
| `DependencyClosure` | `transitively_close`. A step is one call of `maybe_get_name`, or the start or the end of one fragment. The generator is a parameter: for each pair the references it asks for, and whether it aborts |
| `DependencyClosureProofs` | theorems about it |
| `CxxModel` | the generator as functions: for a DIE graph and a pair, the sequence of `maybe_get_name` calls |
| `DependencyOrderingTarget` | composes the last ones: `CxxModel` gives the requests, `DependencyClosure` and `OrderedOutput` are instances over shared variables, `CallWriter` is the client's second call |
| `DependencyOrderingTargetProofs` | theorems about the two calls together |
| `CreateDies` | `create_dies`; the recursion is a stack of activations, a step is one attribute, one call or one return |
| `CreateDiesProofs` | theorems about it |
| `InterfaceWalk` | `gather_interface_dies` and `my_walk_type`; a stack of activations again |
| `InterfacePrinting` | extends it by `print_dies`: which DIEs the text of `out` refers to, after its colons and in its attributes, and which it prints. It has no state of its own |
| `InterfaceProofs` | theorems about the walk, and about these references |
| `DwarfidlText` | names and attribute values printed and read back over and over: the escapes, `print_type_die`'s values, `make_attribute_value`, `lang.cpp`. A text is a token of the generated lexer |
| `DwarfidlTextProofs` | theorems about it |
| `SequenceLemmas` | what `FlattenSeq`, `SelectSeq` and the like do to the sequences of requests and to texts: lemmas for the proofs |
| `MemberLayout` | the member case of `defn_of_die`; a step is a member or one turn of the search for its alignment, and the compiler that reads the text is modelled beside it |
| `MemberLayoutProofs` | theorems about it |
| `MC*` | constants for TLC |

`PROJECT.json` maps every definition that models code to its lines. Definitions called
*Mutant* in their comment are plausible bugs (a dropped guard, identity in place of
equality, a missing reset); they are used by nothing, and each property is known to fail
when its mutant replaces the real definition.

Correspondence worth knowing:

* `given` in `OrderedOutput`, `given_job` in `DependencyClosure` and `text`, `root`,
  `aggregate`, `dies` elsewhere are the input of the call; they never change.
* `order_constraints_reversed` is a copy of the constraints at the start of the call, so
  it is an operator of `given`, not a variable.
* The scan that erases constraints (target.cpp 378-383) dereferences `end()` for the last
  key. Both outcomes are in the model: `Emit` is the one where whatever is there stops the
  scan, `ReadPastEnd` the undefined one. `Erased` states the scan's result and not its
  steps: `lower_bound` goes by key and the comparisons by `==`, which comes to the same as
  long as each key of the constraints is reached through one DIE. `WriterInput` says so and
  `WriterGetsLegalInput` says that the first call leaves such input; on other input the scan
  could stop early, which this model does not show.
* The same holds for the dangling parent references of `create.cpp` 352 (`CreateNext` and
  `ParentIsGone`) and for using END as a DIE (`SetAttribute` and `ReferToEnd`,
  `ChildOfEnd`).
* The name of a DIE is its first attribute (`MakeNew`), as it is where a text gives it
  before the brackets. See "Not modelled" for names within the brackets.
* All DIEs of a graph in `CxxModel` are of one language, where the code asks each DIE's
  compilation unit. References to C++ types (`reference`) are spelled like pointers but,
  as in the code, have no default expression.
* A member's location with more than one entry (`single` is false) gives the next member's
  start but no alignment of its own (cxx_model.cpp 709 and 749).
* Text, wording, warnings and debug output are left out. In particular the warning about
  duplicate C++ names (target.cpp 218-242) has no effect on the state.
* `scoped_resolve`, `get_concrete_type`, `summary_code`, `name_here` belong to libdwarfpp,
  whose source is not here. They are modelled from their uses: `scoped_resolve` finds the
  first DIE of a name in the nearest enclosing scope. `get_concrete_type` is the one type
  that every way out of a chain of typedefs and qualifiers leads to, stated by the sets
  closed under the chain (`WaysFrom`) and not by recursion, so that it can be reasoned
  about; likewise `Written`, the DIEs that a text has.

## Runs

All runs set `CHECK_DEADLOCK FALSE`: each models a call that returns or aborts, after
which nothing happens.

| run | module | checks | instance |
|---|---|---|---|
| `write` | `MCOrderedOutput` | type, order, conservation, exact erasure, stuck only on cycles, suppression, refinement, termination | all 4096 sets of constraints over three fragments, one of which can be reached through either of two equal DIEs; and all subsets of six fragments of namesakes with up to one constraint |
| `close` | `MCDependencyClosure` | type, one fragment for each class, exact booking, what may stay open, hand-over, refinement, termination | three pairs, each with any of eight request sequences, three sets of roots, an aborting generator |
| `calls` | `MCDependencyOrderingTarget` | the hand-over, the output in the order of what was asked for, every name declared, no cycle in C | some thousand DIE graphs over 13 DIEs, two pairs of them equal types of two units, in C, C11 and C++, with three sets of pairs |
| `passes` | `MCCreateDies` | type, nothing forgotten, complete when done, one pass suffices for names of the top, giving up only on unknown names, termination | three top-level DIEs with six attribute lists each and one inline or child DIE |
| `gather` | `MCInterfaceWalk` | type, one of each class, no walk within itself, closing, gathered = reachable, what printed lines refer to is printed, termination | eight types in every kind of cycle (two equal structures, a pointer, a function type, another structure in a namespace, a typedef, an enumeration and its base type), named or not, a variable, a function with other references, two orders, four predicates |
| `text` | `MCDwarfidlText` | names and strings come back, numbers that fit survive, what was read once is settled | names of up to three of eight characters, literals of up to three of seven, numbers of 5 bits where `unsigned int` has 3, flags, references, location expressions of up to two operations, some written by hand with too few operands or too many; three readings |
| `layout` | `MCMemberLayout` | exact search, re-layout of natural structs, termination | three-member structs of five types, pairs at fourteen offsets; `unsigned` of 6 bits, DWARF numbers of 8 |

Why the bounds are enough. Three nodes give every shape of cycle and of sharing that the
ordering distinguishes (self-loop, two-cycle, longer cycle, diamond by way of two equal
DIEs), and the proofs take over from there. Reference lists of two are enough for a
second reference to find the first one's effects. In `CreateDies` three DIEs allow a
reference to one that is itself postponed, mutual references, and one that never
resolves; a fourth, nested one gives recursion in both places it occurs. The walk tells
apart the reason for which it comes to a type (type, return, component, static member);
the instance has each of them on a cycle, and both of two equal types as the one that is
come to first. The escapes and the two automata look at one character at a time and at
most at the one before it, so three characters show every pair in every place; the seven
or eight are one of each kind they treat differently. Three readings show what happens to the
result of a reading that is itself the result of a reading. The widths of `MemberLayout`
keep what matters: `unsigned` is narrower than DWARF's numbers, both wrap within the
offsets tried, and the power reaches zero. The alignments of a natural struct's members
are the powers the search comes to, their offsets and sizes what `unsigned` and DWARF's
numbers hold; without that a struct that a compiler laid out need not come back. `MAXIMUM_SANE_OFFSET` is half of the range of
`unsigned`, in the code a quarter.

What they show. All of these properties hold. Notably: the writer's stale copy of
reversed constraints and its mix of `==` and key comparison do not lose a constraint; the
worklist that grows under the loop generates each class once; over the two calls nothing
is written before what its generation asked for; losing the grey set at return types does
not make the walk loop; the second look-up of `print_type_die`, "Just in case", is needed:
without it an offset after a colon may be of a DIE that is not printed; one postponed pass
suffices for references to the top of a text, though not for those to children of inline
DIEs; the three replacements of `escape_string_lit` are in an order that the decoder
undoes; the damage that reading does to wide numbers is done once.

Five runs end in a counterexample, each against one sentence of the source
(`findings` in `PROJECT.json` has the details):

* `own_decl`: a struct's definition is suppressed because its own declaration was written
  under that name;
* `tags`: `typedef struct S S;` loses the typedef or the struct;
* `nested`: an inline DIE that was postponed is used as END;
* `gaps`: padding is written after the member that needs it before (11 bytes of it in the
  run; `MAXIMUM_SANE_OFFSET` and more are a FIXME in the code and not in the run);
* `escape_end`: an octal or hexadecimal escape at the end of a literal is dropped.

Other behaviour met while modelling, in the models but without a run of its own.

In the target and the generator: the scan that erases constraints dereferences `end()`
(target.cpp 379); an incomplete type visited after a complete namesake fails the
assertion at target.cpp 355; a definition behind a typedef that must be complete is not
put on the worklist (target.cpp 148-151); a struct held by value only asks for a
declaration of it (cxx_model.cpp 742); nameless enumerations make `defn_of_die`
dereference a missing name (cxx_model.cpp 606); C++ subprograms fall through to the abort
(cxx_model.cpp 501-503).

In creation: a partially made DIE is left in the tree and can be referred to (create.cpp
228); children of a postponed DIE go under END (297); the pre-pass keeps the last DIE's
tag (337).

In printing and reading: strings keep their quotes and escapes when they are read, so they
grow with each round, since nothing calls `unescape_string_lit` (create.cpp 121); relative
references, which the printer writes, fail an assertion when read (160); a number that
does not fit `unsigned int` is read as the greatest that does, say the operand of `fbreg`
printed as 18446744073709551600; operands that a text does not give are uninitialised
(137); names that are words of the lexer, and some that begin with an underscore, do not
get past it, nor do the operators `and`, `or` and `not`; the optional set of types is
dereferenced for nameless types (dwarfprint.cpp 267). Beside a type printed by name,
`type_printed` stays false (260-262), so the type attribute is kept (291) and printed with
the offset of the very DIE it refers to (354-362): not looked up in the gathered set, and
without the warning. Enumerations and subranges print their type in this way only (280).
The sample output of the repository has it: `@0x2421d member _offset : long\ int` with
`type = @0x24d6d`, and no DIE of that offset (tests/dwarfprint/sample-output.txt 165-171).
The same goes for `containing_type`, `abstract_origin` and `object_pointer`.

## Fairness

Every module's `FairSpec` is `Spec /\ WF_vars(Next)`. A call runs in one thread until it
returns or aborts, so a step that can be taken is taken. No stronger fairness is assumed
and none of single actions. Liveness is checked by TLC only.

## Proofs

Each safety property of the passing runs is proved for all values of the constants, and so
are both refinements and the action property `Settled`. The assumptions are those named in
the modules, and TLC evaluates them in every run:

* `TypeRankAssumption`: type equality is an equivalence, its classes in a linear order;
* `InputsAssumption`: fragments are finite, one for each key, and constraints go from
  fragments to keys of fragments;
* `JobsAssumption`, `DieAssumption`: requests are finite sequences, concrete types are
  DIEs, void is nameless;
* `DiesAssumption`, `DieGraphsAssumption`: there are finitely many DIEs, and the graphs
  are those that programs have (`DieGraph`: types recur through names of aggregates only, no
  value holds one of its own type, a DIE has a C++ name where the generator can give it
  one);
* `EqualTypesAssumption`: equal types are spelled with equal types, which is what
  libdwarfpp's structural equality of types compares;
* `OutputsAssumption`: the client asks for each key once;
* `RootsAssumption`, `DieAssumption` of the walk: a variable has a type or none, a type a
  finite list of parts, and type equality is an equivalence;
* `AliasAssumption` of the printer: a typedef or qualified type has one type, chains of
  them end, equal types are made of equal types in the same order and are named alike;
  only enumerations and subranges have a type that no attribute gives (`implicit`), and other
  attributes refer to any DIEs (`other_refs`);
* `TextsAssumption`, `NoNodeAssumption`: the texts are trees, finite in each list, and the
  dummy compilation unit is none of their DIEs;
* `WidthAssumption`, `AggregatesAssumption`, `NoneAssumption` of the layout: `unsigned` has
  at least one bit and is no wider than DWARF's numbers, an aggregate has a finite list of
  members, and the values for "no size" and "no location" are not numbers of DWARF;
* `CharAssumption`, `LetterAssumption`, `KeywordAssumption` of the texts: letters, digits
  and the characters the escapes are made of are different characters, and words of the
  lexer are made of letters, digits and underscores. What else is a character is left open;
* `OperandsAssumption`, `NumbersAssumption`, `ValuesAssumption`, `HandWrittenAssumption`: an
  opcode has up to two operands (`addr` one), `UINT_MAX` is a natural number, values have the
  forms that `make_attribute_value` tells apart. Names, strings and lists of operations have
  any length.

`NamesDeclaredBeforeUse` has a hypothesis of its own, `NamesTellTypes`: type-equal DIEs
have one C++ name, and so have two types that `name_here` gives the same name. TLC finds it
true of the graphs of `calls`, and false of those of `tags`, where a struct and a typedef
share a name that C++ tells apart.

*Ordered output.* The inductive invariant has the type invariant and:

* emitted and remaining fragments partition the given ones (`FragmentsConserved`), which
  with one fragment for each key makes keys as good as fragments;
* the remaining constraints are those on keys not emitted (`ConstraintsExact`). This is
  what turns the code's test, "no unsatisfied constraint of mine is left", into the
  property's "all I ever depended on is emitted": without it `DependenciesFirst` is not
  inductive, since erased constraints are gone from the state;
* during a pass that removed nothing so far, every fragment already visited has a
  dependency on one that remains. At the end of such a pass it gives `StuckOnlyOnCycle`;
  `AcyclicNeverStuck` follows by applying acyclicity to the set that remains;
* what the name map holds comes from written fragments, and each complete written type is
  in it; from that `OneDefinitionPerName` and `SuppressedHasNamesake`. The former speaks of
  definitions only: that a declaration and the definition of one name are both written is
  what the comments of the code want, and `own_decl` shows that they are not.

The refinement maps fragments and constraints to their keys; visits that defer a
fragment, begin a pass or remember a name are stutters.

*Closure.* The inductive invariant says where each expanded pair is (on the worklist,
once, or generated), that the pair at work is the worklist's head, and that constraints
are exactly the dependencies of the requests made so far, by pair. The head stays on the
list while it is generated, which is why appending under the loop is harmless.

*Interface walk.* `IInv` has the type invariant, the three invariants `OneOfEachType`,
`NoTypeWithinItself` and `Closing`, and:

* `Called`: each activation is the call that its caller's loop has come to. Without it,
  `Closing` is not inductive: when a walk returns and the caller's loop goes on, what was
  just walked must be the part the loop was at;
* `RootsCome`: each root that the loop over grandchildren has passed is gathered, or is
  the activation at the bottom that has only been entered;
* `NothingElse`: every closed set with the roots has what is gathered *and* what is being
  walked. The second half is what a step adds to the first;
* `DoneIsOver`: nothing is on the stack in the end, so `Closing` leaves only its first
  alternative.

`GathersReachable` is stated without recursion, as the least closed set up to type
equality, which is what makes it provable here. `NoTypeWithinItself` needs that a type on
the stack that is being walked is in the gathered set, which is part of the type invariant:
the pre-visit's set does what the lost grey set would have done.

*Composition.* `Composed` says that until the client's second call the first call's
invariant holds (of the jobs a client gives it), and after it the second call's does, the
first is over, and every dependency of a fragment is among the constraints given to the
writer. The steps use the inductive steps of the other modules as they stand, by instances
of their proofs. The case that has content is `CallWriter`: what the closed closure leaves
is legal input (`ClosureLeaves`), with every request made and booked. `OutputOrdered` then
follows from the writer's `DependenciesFirst`, the conservation of fragments and the empty
map at the end.

*Names.* `NamesDeclaredBeforeUse` follows from the same invariant. A reference in the text
of a pair is among the requests of its generation, so it is recorded as a dependency,
closed over, and emitted first; and where the fragment it points to was left out, the
writer left it out for one of the same name, which by `NamesTellTypes` is spelled alike.

*No cycle in C.* `NeverStuck` has three parts. First, that the generator's recursion is
defined: `decl_having_type` calls itself on the DIEs a type is spelled with (`Spelling`),
which can be ranked in every graph of `DieGraph`, so that the recursive function of
`CxxModel` exists is shown by the least rank at which it would not. That gives `GeneratorAsks`, which
is what used to be assumed of the generator. Second, `DeclarationsAsk`: the generation of a
*declaration* asks only for names of DIEs spelled less deep, since a declaration of an
aggregate or an enumeration asks for nothing but its own tag; and by `EqualTypesAssumption`
equal types can be given the same rank, without which the containers' comparison by type
equality could still close a cycle. Third, the state: a stuck writer has fragments left,
each with a dependency on one that is left (`StuckHasCycle`, from the writer's invariant),
and `Composed` makes that dependency one of its generation. All such dependencies are on
declarations, as no request is for a type that must be complete. So there is a declaration
left, hence one of least rank, whose dependency has a lower rank: a contradiction. Nothing
but `OutputsAssumption` is assumed of the client's pairs, and nothing of the language.

*Printing.* `PrintedReferencesGathered` rests on the walk's `Closing` and `OneOfEachType`
at the end of the walk, and on `Printed` (what has been gathered or selected is what is
printed). The argument: if a type is in the gathered set up to equality, then so are the
type behind it if it is an alias, and so on to the end of the chain; equal aliases have
equal ends, so it does not matter which of the equal types the chain was followed from.
This is the step that needs the *second* look-up: the end found may be equal to a gathered
type without being it. That there is an end at all is proved from the sets closed under
the chain, without induction.

What the property says of a line depends on where the reference is. After the colon of a
gathered DIE's line, a name or an offset is that of a gathered type. A type attribute has
the offset of the DIE as it is in the file: only a type *equal* to it is in the text, and
TLC refutes the stronger statement. After the colon of a line that the walk did not follow,
the offset is of a printed DIE or there has been a warning. Of attributes there, and of
attributes other than the type, nothing holds and nothing is stated.

*Layout.* The invariant says, at each turn of the search, that `power` is a power of two or
has become zero, that `test_offset` is the first multiple of the power before it from the
current offset, in the arithmetic of `unsigned`, and that no smaller power has reached the
member's offset. What it needs of powers of two (the next is twice the one before, they
grow, the smaller divides the greater) comes from the library's theorem on the number of
subsets of a set, since nothing is known here of a recursive function on numbers.
`SameLayout` adds that the text so far ends where the compiler's layout says, and that for
a member with a natural place its own alignment is a power that the search comes to.

*Creation.* `IInv` has six parts:

* `Shape`: what every variable holds. DIEs are made under earlier ones and have a prefix
  of their attributes; an activation has as many of its inline DIEs, or attributes, as its
  position says; each activation is the call its caller has come to;
* `AllAccounted`: every tree that something *needs* (the text's top, a finished attribute
  list's inline DIEs, a whole DIE's children, what an activation's loop has passed) is
  made, pending, or being made. Children are the case that shapes it: they may also be
  waited for by the activation that has yet to come to them. `DoneIsComplete` follows
  since in the end there is nothing pending and nothing being made;
* `Once`: a tree of the top is pending at most once, and not if it is made or on its way.
  It needs that a tree has one place, which makes the tree of the activation at the bottom
  the only one of the top on the stack;
* `NamesInv`: once a tree of the top was come to, its name is under `real_parent`, whole
  or not, and what a later pass postpones refers to a name that none of them has. For
  this, `scoped_resolve` is shown to find a DIE of that name whenever there is one right
  under `real_parent`. Its recursion goes over positions, and that the recursive function
  exists follows from the least number for which it would not;
* `NeverSet`: no DIE has an attribute that names what nothing in the text has;
* `LaterPass`: if there has been a second postponed pass and all references are to the
  top, then some tree that is accounted for refers to what nothing has. By `NeverSet` it
  is never made, so the call does not end well.

The proof of `OnePassResolves` first failed, for a reason. Without the hypothesis
`RefersToTop` it is false: a DIE at the top whose first attribute is an inline DIE with
children is gone through again when its second attribute does not resolve; the inline DIE
is then made a second time, and a child of it that refers to a sibling made later is
postponed a second time. TLC shows two postponed passes on such a text.

*Names and values as text.* The two decoders are folds over the text. What a fold does is
reduced to its states along the text's prefixes (`FoldSteps`): the function of states is
shown to exist, and to be the fold's, by the least prefix for which it would not. The same
argument carries the two statements about texts of any length, in place of an induction:

* `EscapedIdent`: after the escapes of the first k characters, `unescape_ident` is in its
  first state and has written exactly those k characters;
* `LiteralDecoded`: the three replacements together are one replacement, of each character
  by an escape of its own (`EscapedAppend`; here the order of the three matters), and after
  the escapes of k characters `unescape_string_lit` is between two characters and has
  written those k.

`IInv` then has the forms of the values (`TypeInv`); that a text that waits to be read is
the value's text (`TextInv`); and `ValueInv`, what a value has to do with that of the file.
`Settles` says of a value that was read that its numbers fit `unsigned int`, that it has one
of the forms the reader makes, and that its location expressions have no dummy. `Kept` is
indexed by the number of readings: nothing is changed before the first, and later each
number of the file that fits is there and each other one became one that fits. `NamesReadBack`
is not inductive without `TextInv`, nor `SmallNumbersSurvive` without `Kept`: it looks at the
printed operands as one sequence, and only the operation and place of each says that it is
still the file's, next to uninitialised operands. Those come from a text written by hand that
leaves operands out: the first reading takes what was in the memory, which may not fit, the
second narrows it, and only then the value is settled. `ReadingSettles` is an action property;
it follows from `Settles` of the value before the step (`PrintedAgain`).

Only model-checked, and why: the liveness properties, `Terminates` of five runs, and nothing
else. Liveness is out of the prover's reach. The five properties of the runs that end in a
counterexample do not hold.

## Not modelled

* C++ identifiers: spelling, protection of keywords, prefixes (cxx_model.cpp 34-88,
  289-313). Names are compared, never spelled. Base-type names and the compiler probe
  behind them are answers of an external compiler. `cxx_is_complete_type` is called by
  nothing here.
* The printer of the simple syntax (`print.cpp`) is unfinished: mostly stubs.
* Of the printer of the new syntax, which attributes it drops, and layout. Opcodes, tags
  and attributes without a name, which it prints in hexadecimal or skips (dwarfprint.cpp
  84-85).
* In creation, a name given in the bracketed list after a reference. `create_one_die` sets
  attributes in the order of the list, so such a DIE cannot be found while an earlier
  attribute waits, and two of them that refer to each other would not resolve: what
  `CreateDies` shows of references, `OnePassResolves` and `GivesUpOnUnknownNames` before
  all, is about names before the brackets. The branch for a bare identifier (create.cpp
  268-284) is for trees that the grammar does not make.
* In the walk, the assertion about edges that are neither (dwarf_interface_walk.cpp 129).
* The grammars are input of a generator; the trees and the tokens it makes are inputs of
  `CreateDies` and `DwarfidlText`. That a printed literal is one token of the lexer, and
  what `is >> n` and boost's replacements do, is assumed from their documentation.
* The tools are examples of clients. `dwarfhpp` computes forward declarations and then
  erases all DIEs without output; `generate-ocaml-ctypes` ends in the `assert(false)` at 334
  once a subprogram is selected; `dwarfidldump` prints one tree.
* `old_dwarf_interface_walk.cpp` and `module.cpp.old` are kept in the repository and not
  built. Of the tests, `lang-make-dies` and `dwarfprint` only show how the library is used.
* libdwarfpp, libcxxgen, libsrk31cxx and libantlr3c++ are not part of this tree. DIE
  offsets are theirs: `create_dies` ignores those that a text gives.

## Plan

Done first, because the rest of the library feeds it: the two calls of the target, their
abstract specifications and proofs, their composition with the generator. Then creation,
walk and layout, as models checked by TLC. Then names and values as text, the printer's
references to types, and the proofs, component by component, the generator's recursion and
the texts last. What is left: names within the brackets in `CreateDies`, with the
properties that then need a hypothesis; the steps of the erasing scan, on input that the
first call does not leave; attributes that the printer drops (`dwarfprint.cpp` 308-327),
once there is a statement in the source of what it should print.
