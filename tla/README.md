# A verification of the Redis playground

`redis/` of this repository rebuilds the basic data structures of Redis in C++:
a counting allocator (`zmalloc`), a doubly linked list (`adlist`), a hash table
(`dict`) and dynamic strings (`sds`). Beside them the repository carries two
Python programs with state of their own: `common/tools/cpplint.py`, the style
checker of its build, and `thirdparty/gflags/gflags.py`, command line flags.
This directory holds TLA+ models of all six, the TLC runs that check them on
small instances, and proofs that TLAPS checks for all instances. Everything is
translated from the sources; the unit tests under `redis/test` say how callers
use the data structures.

Contents: 1 the system, 2 the modules, 3 the runs, 4 bounds, 5 fairness,
6 proofs, 7 what the models found, 8 what is not modelled, 9 the plan.

## 1. The system

| part | state | operations | used by |
|---|---|---|---|
| zmalloc | one static counter, `used_memory`; a size word in front of every block | `zmalloc`, `zremalloc`, `zfree`, `safe_zfree`, `zsizeof`; `zmalloc_oom` aborts the process | the other structures |
| adlist | `list` (head, tail, len, three method pointers), `listNode`, `listIter` | create, release, add at either end, delete, iterate, search, index, dup, rewind | callers |
| dict | `dict` with two `dictht` (bucket table, size, mask, used), `dictEntry` chains | create, add, find, expand, release | callers |
| sds | `sdshdr` (len, free) in front of the bytes of a string | new, dup, free, clear, cat, cpy, trim, range, case, compare | callers |
| hash, MurmurHash3 | none | `simpleHash`, `commonHash` | dict |
| plus | none | one addition | nobody |
| cpplint | over all files: filters, verbosity, error counts; for each file: the stack of open blocks and that of conditions, includes by branch, the function being counted, the lines suppressed | parse the command line, take up a file, process a line, finish a file, exit | the build |
| gflags | flags (value, default, times given, validators); registries: name to flag, flags and key flags by module, kind of getopt; while it parses: the flag files it is in, arguments, options | define, delete, assign, set default, move between registries, declare and adopt key flags, save, reset, `FLAGS(argv)` | Python programs |
| vendored libraries and scripts, build files | | | tests, build |

The C++ structures interact by plain calls in one thread: each lives in blocks
of the allocator, and the list and the dict call back the methods their callers
set (dup, free, match; the hash function). The only process-wide event is the
abort when malloc or realloc returns NULL, which may come out of any call that
allocates. cpplint and gflags are single-threaded too. cpplint works through its
files one after the other, with global state that outlives a file; gflags keeps
its registries for the whole life of a program and meets the outside in flag
files, which one run writes and another reads. Nothing runs in parallel, so what
is hard is this:

* *long sequences of legal calls*: every call trusts what calls long before left
  behind: a header, a length, a link (`listRelease` follows `next` `len` times
  without looking for NULL); in gflags a name that may by now stand for another
  flag; in cpplint a stack that a directive forty lines up has put back;
* *stale state*: `zremalloc` and `zfree` leave the caller's variable as it was,
  iterators outlive the nodes around them, lists by module keep flags that were
  replaced, filters that one file adds hold for the next;
* *one step of several failing*: a dup method that returns NULL in the middle of
  `listDup`, a default that does not parse, an option that raises after others
  have taken effect;
* *boundaries*: the terminator of strings, powers of 2, wrapping sizes, brackets
  and comments that go over lines, a name that starts another name, a confidence
  that is a rounded logarithm;
* *loops that must end*: flag files that name each other, the walks of the list,
  `CheckBraces` going up through a file.

What makes each part correct:

* zmalloc: the size word of each block is what libc reserved, the counter is the
  sum of the blocks, and callers never free a block twice.
* adlist: links, `len`, `head` and `tail` are one sequence read in both
  directions; no call follows a dangling pointer; iterators return each node
  once; search, index and dup return what they say; nothing leaks on any way out.
* dict: each entry is in one chain, that of its key's hash; a lookup finds the
  key; tables hold the buckets their mask reaches; release frees everything.
* sds: no access outside a block; `len`, `free` and the block's size agree; each
  call makes the string it says; the order of `sdscmp` is that of strings.
* cpplint: its picture of a file (blocks, branches, brackets, strings, comments)
  is that of the text, and an error is printed and counted exactly when
  suppressions, filters and verbosity let it through.
* gflags: names stand for the flags that own them, the lists by module follow,
  the help shows the flags that are there, and after `FLAGS(argv)` the values are
  what was given and the rest of the arguments is what getopt left.

`PROJECT.json` lists the components, the hazards with their lines, and the
source lines of every definition.

## 2. The modules

    Zmalloc  <-- INSTANCEd by --  Adlist, Dict, Sds         ListSeq       ByteStrings
       |                            |                          |               |
    ZmallocClient                AdlistCalls == implements == ListSeq          |
       |                                        Sds == implements ======= ByteStrings
    ZmallocProofs                                |
                                              SdsProofs

    CppLintText <- CppLintNesting <- CppLintIncludes <- CppLintRules <- CppLint <- CppLintChecks
    CppLintChecks <- CppLintProofs <- CppLintTextProofs
    GflagsText <- GflagsRegistry <- Gflags <- GflagsChecks <- GflagsProofs
    Adlist <- AdlistCalls <- AdlistProofs        Dict <- DictProofs
    Inductions <- ZmallocProofs, SdsProofs, DictProofs, AdlistProofs, GflagsProofs, CppLintProofs

(An arrow to the left is EXTENDS.)

**Zmalloc** A block is named by the address libc gives. `room` is libc's side
(bytes reserved, 0 when free), `header` the size word, `used_memory` the static
counter modulo `SizeMod` (2^w), `status` tells a running process from one that
`zmalloc_oom` has aborted. libc may place a block at any free address, and
`zremalloc` may move it or not. Each call is one action. The other modules
instantiate this one: where the C++ code calls `zmalloc` or `zfree` their action
has that conjunct, so the block discipline of every structure is checked against
the same allocator.

**ZmallocClient** Callers with pointer variables, as in `zmalloc_test.cc`. `done`
are the variables a careful caller does not read again (after `zfree(p)`, or
after `q = zremalloc(p, n)`).

**Adlist** `list`, `node` and `iter` are the structs by address; `values` are the
caller's allocated values, which a list with a free method frees. `Touching`
wraps the body of a call with the pointers it dereferences: if one of them is
NULL or freed, the call sets `undefined` instead. One action per call that does
not loop. Two auxiliary variables say what callers know: `owner`, the list a
node was added to, and `walk`, what an iterator has returned and has still to
return. Two rules bound the callers, and the code documents neither of them:
`MayDelete` (while an iterator is under way, delete only nodes it has returned)
and `Exclusive` (a list that frees its values is the only one to hold them).

**AdlistCalls** extends Adlist with the calls that loop: `listRelease`,
`listSearchKey`, `listIndex`, `listDup`. `call` holds the local variables of the
call in progress and one action is one pass of its loop, with the callback the
pass makes, so that a callback may fail and memory may run out at every point.
`listSearchKey` and `listDup` use the iterator actions of Adlist. Callers begin
the next call when the last one has returned.

**ListSeq** The abstract list: a sequence of values on which every call happens
at once. AdlistCalls implements it (`ImplementsSequences`); a list is hidden
while `listDup` is still building it and from the moment its release begins.

**Dict** One dict with its two tables. `bucket[t]` are the words of table `t`; a
word malloc returned and nobody wrote is `UNWRITTEN`, and reading it may give
NULL or `GARBAGE`. `dictCreate` and `dictRelease` run in steps (`call`), the
others in one. `Hash` is a constant: the hash functions a dictType may name. The
constant `Liberties` names calls the code is not ready for ("find absent",
"release expanded", "expand again"); in the runs callers make none
of them, and with the set empty `DictMemorySafe` holds; section 7 says what they would
meet. One more rule bounds callers: they give a dict its type before they
add or look up anything, because `dictAdd` and `dictFind` call `dt->type->hashFunction`
(`dict.cc:81-83`) without looking whether there is a type.

**Sds** `sh` is the header and the bytes behind each address, `var` what each
caller's variable holds. A byte never written is `JUNK`. `Write` stands for the
memcpy, the terminator and the two lengths that `sdscatlen` and `sdscpylen` share,
with `Grow` for `sdsMakeRoomFor`'s reallocation, and `Keep` for the memmove that
`sdstrim` and `sdsrange` share. Both set `undefined` when they would leave the
block. `sdstrim` is modelled with its two scans, which look at `buf[len]` too
and trim zeros whatever the cset is, because `strchr` finds the terminator of
the cset. `TrimCleared` says whether callers trim a string right after
`sdsclear`, which leaves the old bytes where the scans look.

**ByteStrings** The abstract strings. Sds implements it (`ImplementsStrings`), and
`CallsMakeTheirStrings` ties each call to the abstract one with its arguments.

**CppLintText** A line is a sequence of tokens (words, brackets, quotes, `//`,
`/*`); lines have the numbers the code gives them, line 0 being the marker it
puts in front of the file. Here are the cleaning of lines (comments of several
lines, of one line, strings) and the four searches for a matching bracket.
Regular expressions are translated into what they match in such a line.

**CppLintNesting** `_NestingState`: the stack of blocks, the stack of
conditions with the blocks each `#if` saved, classes, namespaces and the
comments at their ends, inline assembly. `Update` is the whole method.

**CppLintIncludes** Rules about whole files: kinds of headers and their order,
scopes of includes by branch (`_IncludeState`), headers missing for what is used
(which reads other files, `Disk`), header guards with the root of the
repository, copyright, encoding, the end of the file.

**CppLintRules** The rules about one line and those around it, each an operator
that returns its errors in the order of the code: function length
(`_FunctionState`), braces, spacing, access, casts, printf, explicit. Rules that look for
one pattern in one line and nothing else are tables, `RawPatterns`, `Patterns`
and `LanguagePatterns`: a token stands for a piece of text that the pattern
matches.

**CppLint** The program: `ParseArguments`, then for each file `SkipFile` or
`StartFile`, one `ProcessLine` for each line with every rule in the code's
order, `FinishFile`, and `Exit`. `Error` asks suppressions, filters and
verbosity in that order. `reported` keeps what was handed to Error for the file
in hand, which the code does not keep; `stderr` what was printed. `raised` and
`hung` are the two ways out the code does not intend.

**GflagsText** Arguments are records (dashes, name, whether `=` follows, value).
`GetOpt` is the external getopt, from how the code uses it. Values are texts or
lists; `ShortestUniquePrefixes` and the parsers are translated as functions.

**GflagsRegistry** A flag is a number: `decls` is what it was constructed with,
`state` what changes. `flags`, `byModule` and `keyFlags` are the three
dictionaries of each FlagValues, related by nothing but the code. Parsing
returns the new state and what was raised, because both happen.

**Gflags** A client program that makes its calls in turn and may catch any
exception. Calls that loop over a dictionary run in steps, a name at a time in
any order. `FLAGS(argv)` is a sequence of actions, one per argument, line of a
flag file, option: `ReadArgument`, `ReadLine`, `CloseFile`, `ExpandBooleans`,
`ParseOptions`, `ApplyOption`, `CheckAndReturn`, with its local variables in
`frame`. Two of its fields, `places` and `taken`, are history: where in argv the
arguments left stand, and where those stood that were taken out. A loop over a
dict that changes its size raises RuntimeError (`ContinuesOver`), which happens when
a registry is appended to itself or removed from itself. The module `gflags`
(`GFLAGS`) has key flags of its own, the special ones: whoever adopts it gets them,
in either order. `modules` is the set of modules that have a section in the help.
`Restart` begins the program anew, with the files it has written.

**CppLintChecks, GflagsChecks** hold the properties. **MCAdlist, MCAdlistCalls,
MCDict, MCSds, MCCppLint, MCGflags** give the constants and symmetry sets.
**Inductions** holds the lemmas the proofs share: induction over the naturals and
over finite sets, sums over finite sets, functions that go on step by step,
finite sets listed in the order of a number, loops over a sequence.
Definitions commented "Mutant" are faulty variants of the code kept beside the
definition they vary: each property is known to fail with one of them.

## 3. The runs

| run | states | what it shows |
|---|---|---|
| `zmalloc_client` | 338 | headers, counter and ownership, with realloc in place and moving |
| `adlist` | 67 142 | the fields of lists, nodes and iterators, and the places of iterators, under every order of single-step calls |
| `adlist_calls` | 1 069 264 | what the looping calls return and leave allocated, with a dup method that may fail at each node |
| `adlist_returns` | 282 144 | every looping call returns, or the process aborts; adlist implements ListSeq |
| `dict` | 110 328 | chains, lookups, table sizes and release, for careful callers |
| `sds` | 342 914 | memory safety, room accounting, terminators, order |
| `sds_strings` | 15 336 | sds implements ByteStrings |
| `cpplint` | 182 586 | the picture of a file, and what is printed and counted, for every short text of twelve kinds and many command lines |
| `gflags` | 180 348 | registries, help, values, command lines, flag files and saved flags, for ten client programs |
| `dict_find_other`, `gflags_reset`, `gflags_rest` | | counterexamples, see 7 |

The properties, by the hazards they are for:

* `HeaderTellsTheTruth`, `Accounting`: the size word and the counter after any
  sequence of calls. `PointersOwnBlocks`: a caller who mixes `zfree`,
  `safe_zfree` and `zremalloc` never holds a usable dangling pointer and loses
  no block.
* `IteratorsKeepTheirPlace`: a walk returns each node of its start once while
  nodes are added at both ends and returned ones deleted.
* `SoundBetweenCalls` has two parts. `WellFormed`: forward and backward walks of a
  list are the same nodes in opposite orders, exactly the nodes added and not
  deleted, and end at NULL. `UsedMemoryIsReachable`: the allocator's counter is
  what callers can reach.
* `NeverUndefined` (in each of the three structures): no NULL, freed or
  unwritten pointer followed, no double free of a value, no access outside a
  block.
* `LookupsAreRight` (`SearchFirst` and `IndexNth`), `DupRollsBack`,
  `ImplementsSequences`, `CallsReturn`: the looping calls.
* `TablesAreSound` (the parts `EntriesAreChained` and `TablesHoldTheirBuckets`,
  and types), `ExpandsToTheLeastPower`, `ReleaseFreesAll`: the dict.
* `HandlesOwnTheirBlocks`, `ReadAsStrings` (`WrittenAndTerminated` and
  `ComparesAsStrings`), `ImplementsStrings`, `CallsMakeTheirStrings`: the strings.
* `NestingIsOfKeptText`: at every line the stack of blocks is what it would be if
  the branches that do not count were not in the file, whatever way conditions
  and blocks overlap and whatever brackets the directives themselves hold.
  `ScopesAreBranches`: two headers are compared if and only
  if they stand in one branch, in text without inline assembly (whose lines are
  not searched for headers) and with conditions that the raw text and the text
  without strings agree on. `IncludesInOrder`: a header is reported if and
  only if it breaks the order of its branch, computed from the text alone.
* `BracketsMatch`: the searches for brackets, against a count or a stack over the
  whole text (`CloseExpressionCloses`, `TemplatesAccepted`,
  `TextInsideIsNested`). `TextIsOpaque`: what stands in a string or a comment
  does not change what the code rules see (`StringsOpaque`,
  `CommentLinesGone`).
* `NolintHolds`, `ErrorsAreShown` (`FiltersDecide` and `FnSizeIsShown`),
  `CountsAgree`: from an error to what is printed and what is counted. `Completes` (cpplint): each file of an
  ordinary kind is worked through, at a verbosity that is not negative.
* `SearchIsFull`, `NamesAreSafe`, `ListsFollowNames`: the three
  dictionaries of a registry, which come apart through overrides, deletions and
  moves. `HelpIsCurrent`: what the help then prints, the section of the special
  flags included: a flag is in one section only, one that a module defined and that
  still stands for its name is in the section of that module, and the only flag
  printed beside the one a name stands for is the special flag of that name (which
  happens: a program may have a flag `undefok` of its own). `PrefixesAreUnique`: abbreviations,
  found by comparing neighbours only.
* `RestIsReturned`: for each argument getopt left when it recognised all others,
  `FLAGS(argv)` returns the one that stood at its place before booleans were
  expanded. The code counts from the end of argv instead, which does not always come
  to the same (run `gflags_rest`, section 7). `RestIsUntouched`: it does whenever the options
  taken out stood one behind the other (`TakenInOrder`); and without flag files the
  arguments are those of the command line. `Completes` (gflags): `FLAGS(argv)` ends.
  `MultiHoldsWhatWasGiven`, `SavedIsRestored`: values over several command lines
  and over a restart.
* `TypeOK`: types of adlist and cpplint; those of zmalloc and sds are part of
  what is proved (section 6).

## 4. Bounds

* zmalloc: three addresses, so that a block can move while another is held; an
  empty request; `SizeMod` is above the largest total, so a wrong counter is
  never right by accident.
* adlist: four nodes are the least with an inner node whose neighbours are inner
  nodes of their own, and one iterator suffices because iterators do not see
  each other. With the looping calls: two lists share four nodes, so a list of
  two is copied in full and a list of three until malloc fails; values come in
  pairs of equal content, so that match by content and by address differ;
  indices go from -1 to past the end of most lists. `adlist_returns` has three
  nodes and two values, and no symmetry.
* dict: three keys, two of them in one bucket, and four entries; `simpleHash`
  puts all keys in one bucket, as the code's does; sizes 3, 4 and 5 round to
  the size there is and to the next.
* sds: rooms of 0 to 4 bytes (6 in the refinement run, with one variable), a
  NUL, a blank, an upper and a lower case letter, literals of one and two
  bytes, and range ends from -2 (-4) to 2 (3), so before, at and after both
  ends of most strings. `MaxRoom` bounds what `sdsMakeRoomFor` may ask for: a
  call that needs more is not made.
* cpplint: for each part, all texts up to a length over the lines that part
  tells apart: conditions with blocks (5 lines, so a condition in a condition with
  an `#else`), a directive with parentheses behind the head of a class (4), blocks (3), includes in conditions (4), comments of several lines
  (4), a function (6, at two verbosities), brackets (4 on one line), expressions
  that go over lines (3), NOLINT comments in a file followed by another, which may
  name a category that does not exist on the same line (3), header guards (3), one
  with a NOLINT within a comment, inline assembly with and without braces (4), a test
  shorter than its trigger at negative verbosities; and a file most rules object to, between a missing file, a
  file that is not C++ and one in another encoding, under 32 combinations of
  options. `NormalTrigger`, `TestTrigger` (250 and 400 in the code),
  `SmallClass` (24) and `NamespaceLines` (10) are small so that short texts reach
  them.
* gflags: ten programs, each all choices of a few calls: four calls that move
  flags between two registries and two modules, with names that meet (`v` is the
  short name of one flag and the name of another, `help` and `undefok` are also names of
  imported flags); a registry appended to itself or removed from itself; three changes of a bounded
  flag before a command line; multi flags of three types with a default over two
  command lines, saved after an illegal one;
  command lines of up to three of fifteen arguments, for getopt and gnu_getopt;
  two flag files with twelve contents that name each other, themselves and a
  file that is not there, or end in a `--flagfile` without a name; saving, starting again and reading. A text is a number if
  `MCNumber` says so.

The runs of the C++ structures have CHECK_DEADLOCK FALSE because an aborted
process does nothing more; the runs of cpplint and gflags look for deadlocks,
with a stutter allowed only at the end (`Ended`). A symmetry set is used where
addresses, values or variables are interchangeable and no liveness property is
checked.

## 5. Fairness

* `CSpec` (AdlistCalls): a call that was begun goes on (weak fairness of
  `CallGoesOn`): the library is sequential code, and the thread that entered the
  loop runs it. When every node address is taken, a copy that needs one more
  ends in the abort: malloc has to return something (weak fairness of `Abort`,
  under just that condition). Callers are under no obligation to call anything,
  and malloc may, but need not, fail while there is room.
* `Spec` (CppLint, Gflags): one thread that waits for nothing takes steps until
  the program ends (`[]<>Ended \/ []<><<TRUE>>_vars`). This is weak fairness of
  Next, because a step is possible wherever the program has not ended, which the
  search for deadlocks in the same runs shows; said without ENABLED, so
  that TLC need not compute it. The client of gflags may still make any call next.

## 6. Proofs

TLAPS checks these for every value of the constants that the named assumptions
(`ZmallocAssumption`, `AdlistAssumption`, `CallsAssumption`, `SdsAssumption`,
`DictAssumption`, `ProgramsAssumption`, `ModulesAssumption`, `NamesAreTexts`, `NamesAreSorted`; of cpplint `NestingAssumption`,
`IncludesAssumption`, `RulesAssumption`, `PatternsAssumption`, `CommandsAssumption`)
allow. Those of the C++ structures are about addresses and the caller's arguments: addresses differ from NULL and from each other, no size is so large
that the size word's prefix makes it wrap, there are finitely many nodes and
entries, NULL is no string or sequence, and the bytes are closed under a change of
case.
`ProgramsAssumption` says that a client program of gflags makes finitely many calls, to registries
and about modules that exist, and leaves the special flags alone ("Please do NOT use
_SPECIAL_FLAGS from outside this module", `gflags.py:2768`); `ModulesAssumption` that the
module importing gflags is one of them and none is called like the section of the
special flags. Those of cpplint say that
its limits are numbers, that each pattern of the three tables reports a category
cpplint has (only the length of a function reports `readability/fn_size`) with a
confidence of 0 .. 5, that verbosities are integers, and that filters, options and
files come in sequences. Three theorems have hypotheses of their own,
stated with them: the dict's are for careful callers (`Liberties = {}`), two of
them for tables a `size_t` can count (`TablesFit`), and two of the strings' for
callers who do not trim what they have just cleared (`~TrimCleared`).

* `Inductions`: the library states induction with an operator for the formula,
  which no installed prover can instantiate. Here a formula is the set of its
  instances: `NatSetInduction` takes a set of naturals, and a fact about all
  finite sets is proved by looking at the smallest counterexample (`SmallestSet`).
  On that rest the recursion of sums (`SumsExist`, `SumOver*`, with the fold of the
  community modules unfolded once) and `IterateExists`: a function that begins with
  a value and goes on by another function exists for every length. `ListExists`,
  `ListIsOnto` and `ListIsUnique`: a finite set whose elements have different numbers
  can be listed in the order of the numbers, and in one way only. `FoldKeeps`: what
  each step of a loop keeps holds at its end.

* `ZmallocProofs`: `HeadersTrue` (`Spec => []HeaderTellsTheTruth`).
  `HeaderTellsTheTruth` is inductive together with `TypeOK`: `zmalloc` and `zremalloc` write both records of a size, `zfree`
  clears both, and the assumption keeps `%` from touching the sum.
  `CounterCorrect` (`Spec => []Accounting`): the sum over the allocated blocks
  changes by the size of one block with each call, and a difference modulo
  `SizeMod` is a difference, wrapped or not. `OwnersOfBlocks` and
  `ClientImplements` (`ClientSpec => []PointersOwnBlocks`, `ClientSpec => Spec`): a
  caller's readable pointers and the blocks stay in step, and nothing the client
  does is more than the allocator's own actions.
* `AdlistProofs`, first part, the list alone: `TypeCorrect`, `MemorySafe` and `IteratorsCorrect` (`Spec =>
  []TypeOK`, `[]NeverUndefined`, `[]IteratorsKeepTheirPlace`). To count along `next`
  would need induction; instead the invariant says that there is a place, a
  number, for each node (`\E at : Ordered(at)`) such that `next` is the node with
  the place right above and `prev` the one right below (`Sorted`), and that an
  iterator has all it returned on one side of its next node and all it has to
  return on the other (`Walks`). A node added in front gets a place below all
  others, one added behind a place above, and a deletion changes no place. With
  `Kept` (what a list holds is allocated) and `Exclusive` (the callers' rule about
  the free method) this is inductive. `Ends` shows that listDelNode's four cases
  are told apart rightly: a node is the head if and only if it has no `prev`, and
  both ends at once if and only if the length is one; `DelNodeDoes` reduces them
  to one. `ListsWellFormed` (`Spec => []WellFormed`): the listing of a list's nodes
  in the order of their places is what `Forward` computes (`SortedIsPath`,
  `ForwardIsPath`), because both begin at the head and each element is the `next` of
  the one before; backward likewise. `NothingLeaks` (`Spec =>
  []UsedMemoryIsReachable`) adds `Accounts`: the counter is the sum of the sizes of
  the blocks, and every allocated node is some list's.
* `AdlistProofs`, second part, the calls that loop. The places stay; the invariant `MInv`
  adds `Locals`, what the local variables of the call in progress point to: its list
  is allocated, its iterator is the only one and walks that list, its node is one of
  the list's. While `listRelease` runs, its list has lost the nodes in front and its
  head dangles, so that `Sorted` does not hold of it: `Drains` says instead that
  `curr` is the least of the nodes that are left and `count` their number, which is
  why the loop may follow `next` without looking for NULL. This gives
  `CallsMemorySafe` and, with the accounts, `SoundAfterCalls` (`CSpec =>
  []NeverUndefined`, `[]SoundBetweenCalls`). `LookupsReturnTheRightNode` (`CSpec =>
  LookupsAreRight`): `Searches`, the nodes the iterator has returned do not match,
  and they are those in front of its next one; `Indexes`, `curr` is the node number
  `count` of the path. `FailedDupLeavesNothing` (`CSpec => DupRollsBack`): `Copies`,
  what is allocated is what was there when `listDup` began, the copy with its nodes,
  and the iterator; it holds through the release of the half-made copy, whose nodes
  go one by one. `ListsAreSequences` (`CSpec => ImplementsSequences`): only six
  actions change what callers see (create, the two adds, delete, the beginning of a
  release, the return of `listDup`), and each does to the listing of the nodes what
  the abstract call does to the sequence; all others leave every
  visible list untouched. For the copy, `Agrees` says that it holds duplicates of the
  first nodes of the original and that the iterator is at the next one, so that at
  NULL it holds them all.
* `SdsProofs`: `MemorySafe` (`Spec => []NeverUndefined`) and `Ownership`
  (`Spec => []HandlesOwnTheirBlocks`). Neither is inductive alone. The invariant
  `IInv` adds `Shapes` (types), `Bytes` (what is in a buffer) and
  `FullIsTerminated`: a string with no spare room ends in a zero. This is what
  keeps `sdstrim` inside its block: its right scan starts at `buf[len]`, and if
  that byte were not trimmed in a full string it would keep `len + 1` bytes, one
  more than there is room for. `sdsclear`, the only call that writes no
  terminator, leaves spare room if there were bytes to clear, and the zero in
  place if there were none. `PlacesIInv` does the common work: every call but
  `sdsfree` leaves a variable with a sound header in its own or a new block;
  `WritePlaces` and `KeepPlaces` reduce cat, cpy, trim and range to that.
  `sdsrange` is safe because callers keep its end within the string, a guard of
  the model's action. `Readable` (`Spec => []ReadAsStrings`): `Bytes` says that a
  string that is not empty is terminated and that what is below the terminator was
  written; the order of `sdscmp` is then compared at the first place where two
  strings differ, where `memcmp` stops too. `CallsAreRight` and
  `StringsImplemented` (`CallsMakeTheirStrings`, `ImplementsStrings`): the bytes
  each call leaves are the string the abstract call makes, for `sdstrim` because
  the two scans stop at the first and the last byte outside the set. After
  `sdsclear` they need not: the stale byte at `buf[0]` can be kept, which the run
  `sds` lets happen and the refinement excludes with `~TrimCleared`.

* `DictProofs`: `DictMemorySafe` (`Liberties = {}` implies
  `Spec => []NeverUndefined`): callers who never look up what is absent, expand
  twice or release an expanded dict are safe, with any keys, hash functions,
  addresses and table sizes. For this the chains need not be followed, and the
  invariant speaks of single pointers (`Pointers`): each bucket still to be read,
  each entry's `next` and the release's local variable is NULL or an allocated
  entry, and no two of them are the same entry; that is why a release frees none
  twice. `AddedIsThere` says that the bucket of a key that was added is not empty,
  so that `dictFind` meets no NULL, and `Tables` that `ht[0]` stays the table of
  four words `dictCreate` made. `NextPower` shows for every size that the loop of
  `_dictNextPower` ends, with a positive number. `ExpandsRightly`
  (`Spec => ExpandsToTheLeastPower`) says which one: a power of two exceeds its
  exponent, so that there is a least one that is big enough, and from the initial size
  on the loop doubles every power of two below it and stops there.
  `TablesSound` and `ReleaseFrees` (`[]TablesAreSound`, `ReleaseFreesAll`) are about
  the chains. Entries are added in front, so an entry's place changes and its
  distance to the end does not: the invariant says that there is a `rank` for
  each entry such that `next` is the entry of the same slot one below, rank 0 ends
  the chain, and a slot has one entry of each rank up to that of its bucket
  (`Ranks`). While a release is under way this holds for the slots it has not come
  to (`Pending`) and what is left of the chain in hand. `ChainPlaces` turns ranks
  into places: they count the same entries from either end. `OnlyItsBlocks` says
  which blocks there are besides entries, so that nothing is left when the last
  entry, table and the dict itself have gone. `TablesFit` is needed because
  `dictExpand` multiplies the size by 8 without looking: a product that wraps would
  give a table shorter than its mask says.

* `GflagsProofs`: seven theorems for all registries, modules, client programs,
  command lines and files. `SearchesAreFull` (`Spec => []SearchIsFull`): the
  invariant `RegistryInv` says that a name in a registry stands for a flag that
  exists and that has this name, long or short, so that looking at a flag's two
  names is looking everywhere. It needs to know that flags are only ever
  appended to `decls`, and that while `AppendFlagValues` is under way its names
  are still in the other registry. `NamesStaySafe` (`Spec => NamesAreSafe`): of
  all actions only a definition, one name of an append and a deletion change a
  dict (`HowNamesChange`), and the first two look at both names of the flag
  before they write one. `FilesAreNotNested` (`Spec => []NoFileWithinItself`):
  however flag files name each other, none is opened while it is being read;
  `FilesInv` adds that every file being read is in the list of files read,
  which is what `__GetFlagFileLines` looks at. The model keeps the recursion of
  that function as a stack of any depth, so the theorem is also why it stays as
  shallow as there are files.
  The other four are about what loops over sequences do. The model writes such a loop
  as a fold of the community modules, which is a `CHOOSE` of a recursive function over
  sets of indices. `FoldExists` shows that there is one, for the steps of all the
  loops at once (`Fold`), `FoldRuns` that it goes through the sequence from the
  front. Hence
  `WithoutContains` (what is left of a list when a flag is taken out),
  `DeclareGrows` (declaring key flags takes none out, also when it raises half way)
  and `GetOptLeaves` (if of the first p arguments alone getopt leaves none, then it leaves
  of all of them at most what is behind the first p).
  `ListsFollowTheNames` (`Spec => ListsFollowNames`): of all steps only a deletion
  shortens a list (`HowListsChange`), and a deletion forgets a flag if and only if
  no name in the dict is left for it, which takes `SearchIsFull`'s invariant.
  `HelpStaysCurrent` (`Spec => []HelpIsCurrent`) rests on `HelpInv`: every module with
  a flag in its list has its section, so no flag is left out, and the special flags
  carry the names they are registered under. `ListsInv` says that a flag is in the list
  of one module of a registry and that a registry of the client lists none of the special
  flags. So no two sections of modules print the same flag, and a name stands twice only
  where the section of the special flags repeats it, which is the exception the property
  states.
  `RestStaysUntouched` (`Spec => []RestIsUntouched`): `RestInv` follows the arguments
  through the call. Without flag files what was read and what was not are together
  what was given; rewriting booleans keeps each in its place. Then `Located` says
  that, as long as unknown options were taken out in order, there is a p such that
  behind the first p arguments none has been taken out, so each stands in the original
  arguments as far from the end as in those left (`LocatedFrom`), and of the first p
  getopt leaves none (`NoneIsLeft`). It lasts because a getopt that raises for an option
  has not come to the arguments behind it (`GetOptStops`), and taking that option out
  moves only what is behind it (`RemoveMoves`). At the end getopt leaves at most what is
  behind p (`GetOptLeaves`), and `LocatedReturned` concludes that the arguments
  `__call__` counts from the end of the original ones are those getopt left.
  `AbbreviationsAreUnique` (`Spec => []PrefixesAreUnique`), for any names in any number,
  one that stands in the list twice included. Two assumptions on `NameOrder`, which TLC
  evaluates, say what it is: names are sequences of letters (`NamesAreTexts`; the prover
  does not know this of strings), and `sort()` puts between two names only such as begin
  with what both begin with (`NamesAreSorted`). `SortedIsPlaced`: the list that
  `ShortestUniquePrefixes` goes through is part of that order, which is again a fold.
  `PlacedTogether`: so what a name shares with any other it shares with the neighbour on
  that side; hence it is enough to look at neighbours (`ShortestAre`), and the one number
  carried over, the letters shared with the name before, is right also where that name
  is the same or goes on where this one ends.

* `CppLintProofs`: six theorems for all files, lines, commands and patterns.
  `TypeCorrect`, `CountsAreRight`, `NolintIsKept`, `NoErrorIsLost` (`Spec => []TypeOK`,
  `[]CountsAgree`, `[]NolintHolds`, `[]ErrorsAreShown`) follow from one invariant,
  `LintInv`, and it from three kinds of lemmas.
  Each rule is looked at once, for what it may report: `Found(k)`, any number of errors
  on the line `k` it is given, with a category and a confidence that exist. Three kinds
  are different: an empty loop body is reported on the line of its semicolon and a long
  function with a confidence that depends on the verbosity (`FoundOn`), rules about the
  whole file report anywhere (`SomeFound`) and header guards where the NOLINT of a line
  is read on the spot (`Guards`). For the rules that go through a line from one place to
  the next (`Namespaces`, braces, the blocks) this takes that their recursion exists,
  which `OnwardExists` shows for all that only go right.
  `Error` is looked at once, for what it adds to the log (`ErrorReports`): whether the
  error is printed, and then one count more in each table. `LogOK` holds from one
  report to the next: what is printed has its type, the last filter that fits has let
  it through (`FilteredIsNotThrough` turns the loop over the filters around), the
  counts are numbers of errors printed (`SumBump`), and no error of the file in hand
  is on a line a NOLINT covers (`Held`).
  `Held` needs to know that the NOLINT of a line has been read by the time a rule
  reports there. The invariant says how far reading has come: `ReadTo`, the NOLINTs of
  all lines above the next one, which a line marked for the one below it needs, and
  `Marks`, that nothing but NOLINTs of this file suppresses anything. It also says that
  the three texts of a file have the same lines, with a marker in front and one behind
  (`Document`), that raw lines are those of the file but for comments that have been
  blanked, and that the stacks of blocks and of includes are sequences of what they
  should be. The rules about a file, behind the last line, then find all NOLINTs read.
  Filters have their signs (`Signed`) in every state with a file in hand, because a
  filter without one ends the program before.
  `TextIsHidden` (`Spec => []TextIsOpaque`) is about two searches. One is for quotes:
  a token within a string that is replaced leaves the quotes where they were, so that
  what is collapsed is the same (`StringsAreOpaque`). The other is for comments of
  several lines: by induction from the end of the file, what is taken out from a line on
  where no comment is open are the lines in comments, down to one that does not end
  (`CommentsTakenOut`). That a line is processed with the text so made is the invariant
  `TextKept`.
  `IncludesAreOrdered` (`Spec => []IncludesInOrder`) relates the section
  `_IncludeState` is in to the includes read so far. `SectionIs` says that it is the
  last section of the includes of the branch in hand, `ScopeOK` that the
  same holds of every branch kept on the stack of directives, so that `#else` and
  `#endif` find it again. A header is reported where its section comes before the one
  reached (`SectionGrows`), and where one without a directory stands right behind one
  with a directory (`ScopeGrows`). No other rule reports build/include_order, which the model assumes of
  the patterns it leaves open (`PatternsAssumption`) and the lemmas `Said...` show for
  the rest.
* `CppLintTextProofs`: three theorems about the picture of a file, for all lines of any
  tokens. `BracketsAreMatched` is `Spec => []BracketsMatch`. Of the state it needs only that the text is a `Document`; the rest is about the
  four searches. Each is run beside what defines its result. Within a line
  (`TextNested`) the search of `_GetTextInside` and the stack of `WellNested` differ by the
  bracket the search began with (`Over`), until the end is found or both see a mismatch
  (`Follows`); so the search finds nothing only if no text behind the bracket is nested up
  to its closing one. For a template (`TemplateFound`) the hypothesis is that the stack over
  the whole of it ends empty, so that no token of it is a mismatch (`RunMatches`): the
  search forward holds the openers whose closers are on the stack (`Mirrors`), the search
  backward holds the stack itself as it was at that place (`PreviousSound`), and each is
  left with its own bracket when it meets the other end, if no comma has ended it before.
  `CloseExpression` counts (`CloseIs`): one token changes what a text leaves open by at most
  one (`NetStep`), so that the count is positive until the first closing bracket that makes
  it zero (`FindEndIs`). Over several lines the running sum of the code is what the joined
  text leaves open (`FlattenNet`, `BetweenNet`), and the line where the sum is no longer
  positive holds that bracket, as the sum was positive on the line above.
  The other two speak of conditions. A text gives each line a level, the number of
  conditions open above it (`Levels`), and levels go up and down by one: a level reached
  is reached at an `#if` (`Climb`), one left is left at an `#endif` (`Fall`). By levels a
  condition lasts from its first line until the level is back at that line's, and "the
  first `#endif` of its level" in the properties' `EndOf` is where that happens.
  `ScopesAreOfBranches` (`Spec => []ScopesAreBranches`) has the invariant `ScopesKept`:
  every scope belongs to the directive that begins a branch, no two to the same; a header
  in a scope has that directive as the last of its level above it; and the stack holds,
  for each level, the scope of the branch begun last (`ScopesHeld`). Of all branches around
  a line the innermost begins last (`BranchIsLast`), which is `Branch`. A line within inline
  assembly is not searched, so the invariant also has to say that in a text without "asm" no
  block of the stack, nor of a stack kept for a condition, is one of assembly (`CalmNest`).
  `NestingFollowsKeptText` (`Spec => []NestingIsOfKeptText`) has `NestingHeld`: the stack is
  that of the lines kept, and for each condition open, `stack_before_if` is that of the
  lines kept above its first line and `stack_before_else` that of those above its second
  branch (`ConditionsHeld`). It is needed because the set of kept lines is not only added
  to: an `#else` takes back all lines since the `#if`, and an `#endif` all since the first
  `#else`. Three lemmas say that this is all it takes back: the lines kept up to a
  line are those kept above some line before it, and the line (`KeptOther`, `KeptElse`,
  `KeptEndif`); one line more is one step more of the stack (`BlocksOfNext`). `KeptIs`
  leads from levels to the definition of `KeptLines`.

Model-checked only: liveness (`CallsReturn`, `Completes`), which like ENABLED is beyond
the prover. Of gflags,
`SavedIsRestored` and `MultiHoldsWhatWasGiven` are true of the
programs of the run and not of all, so there is no theorem to prove. A program that
assigns what a parser would have written otherwise (`0x1` to an integer flag) saves that
text, and reads the number; the run saves values that came from a command line. One that
assigns to a multi flag, or that makes an
illegal value the default, catches the exception and puts the legal one back, has a
flag whose items are not those given.

## 7. What the models found

Three disagreements have a run of their own:

* `dict_find_other`: `getDictEntry` (`dict.cc:227`) returns the first entry of a
  bucket without comparing keys; `dictFind` of a key that was added returns
  another key's value when both share a bucket. `dict.h:55`: "use k to get v".
* `gflags_reset`: `Reset` (`gflags.py:1271`) puts the default of a multi flag
  behind what the command line gave, because `Unparse` parses the default while
  the flag still counts as present. `gflags.py:1269`: "Resets the values to the
  point before FLAGS(argv) was called."
* `gflags_rest`: with a string flag `level` and the arguments
  `--undefok=z,l --l x --z -l`, getopt does not know `--z`, which is taken out, and
  then not `-l`, for which the first argument that looks like it is taken out: `--l`,
  which getopt had taken for `--level`. Now it stops at `x` and leaves `x -l`, but what
  is returned are the last two of argv, `--z -l` (`gflags.py:1261`). `gflags.py:1258`:
  "unparsed_args becomes the first non-flag detected by getopt to the end of argv."

The models carry these too, as the code has them:

* dict: `dictFind` (`dict.cc:239`) dereferences the NULL that `getDictEntry`
  returns for an empty bucket, so that callers must know that a key is there
  (`Liberties` without "find absent"); `dictAdd` counts in a copy of the dictht and
  `used` stays 0 (`dict.cc:198`); `dictExpand` leaves a table that nothing initialises, which
  `dictRelease` follows (`dict.cc:218`).
* adlist, sds, dict: four rules that callers must know and nothing states are guards
  of the models: `MayDelete`, `MayDup`, the end of `sdsrange`, and the type a dict
  must have before its first entry.
* cpplint, errors: a NOLINT counts only once its line has been processed, so
  errors found earlier are printed in spite of it (`Early`); an unknown category of
  a GLOBAL_NOLINT is reported before the NOLINTs of the file before are forgotten, one
  of which can hide the error; a NOLINT within a comment of several lines counts if
  the header guard ends on its line; GLOBAL_NOLINT adds filters that hold for all later files, and without a category, or with `(*)`, it
  suppresses nothing; a filter without a sign ends in a ValueError instead of
  the usage; a negative verbosity makes the trigger of `_FunctionState.Check` a fraction,
  and a function below its trigger raises ValueError, for the logarithm of 0.
* cpplint, text: an `#endif` or `#else` too many raises IndexError; a blank line
  at the start of a block is never reported; an indented `{...};` in front of
  all other code makes `CheckBraces` loop for ever, and a root of the file
  system with `.svn` does it to `RepositoryName`; `CloseExpression` passes over
  an end on a line that opens another bracket; comments of several lines are
  blanked in the raw lines too, and the one that never ends is reported a line
  off; a directive between two quotes of which the first is in a comment is one for the
  includes and none for the blocks; directives within inline assembly are none for the includes.
* gflags, values: a value stays assigned, and a default stored, when a validator
  or the parser objects; multi flags are saved on one line that does not read
  back, and an illegal value kept by one raises TypeError on saving, or is saved letter by letter; `--nohelp` and `--help=false` print the help and exit.
* gflags, arguments: gnu_getopt returns the arguments as they were rewritten; an
  ambiguous abbreviation counts as an unknown flag, and an unknown option is
  taken out where something first looks like it; of values in files and on the
  command line the last one wins, though `ReadFlagsFromFiles` says the first; a line
  `--flagfile` is an argument, but the last of a file, without a line end, raises.
* gflags, registries: `AppendFlagValues` and `RemoveFlagValues` stop half way at
  a name they cannot take; a flag whose long name was deleted and whose short
  name is still there makes its validators raise KeyError; a registry appended to itself
  or removed from itself raises RuntimeError at the first change of its size; a flag
  named like a special one has its name in the help twice; adopting key flags
  goes by name and gets the flag that has replaced the one meant.

## 8. Not modelled

* MurmurHash3: arithmetic on 64-bit words; the dict depends only on its being a
  function. `plus` is one addition.
* cpplint: columns (indentation, line length in characters, alignment), which the
  tokens leave out; the wording and formats of errors; the usage text. Rules
  that match one pattern in one line are the three tables, of which the run gives one
  token each.
* gflags: help and XML as text (but for which flags are listed), the cache of
  usage strings, DEFINE wrappers that only choose a parser, floats, the modules
  found by walking the stack (a call names its module), nested exceptions'
  wording. getopt and `gflags_validators` are external.
* The vendored generators of gtest and gmock (`pump.py`, `ast.py`, ...) and the
  vendored libraries: nothing of this repository calls the former, and the latter are
  headers and archives.
* The list's `listSet*` methods and `dictGetRandomKey`, `dictDelete` are declared
  and not defined anywhere; rehashing is a TODO in the code. Skip lists, integer
  sets, zip lists and objects, named in the repository's README, do not exist yet.
* Aliased arguments (`sdscat(s, s)`), sizes near `SIZE_MAX`, strings beyond 2^31
  bytes.

## 9. Plan

Done, in this order: allocator, list, abstract list, dict, strings, abstract
strings, with proofs of the allocator's headers and the strings' memory safety;
the two Python programs; the proofs about flags, the dict's and the list's
memory; then the allocator's counter, the dict's chains and the refinement of
ByteStrings; the list's paths, its calls that loop and the refinement of ListSeq; the
lists by module, the help and the arguments of gflags; the errors of cpplint, from
the rules to the counts; the size `dictExpand` rounds to; what cpplint hides of
strings and comments, its order of includes, its searches for brackets, and its
stacks of scopes and of blocks; the abbreviations of gflags.

Next, proofs: every safety property of the runs that holds of all programs is proved;
a prover of liveness would be needed for the calls that return.

Next, models: an abstract map that Dict implements, within the calls its code is
ready for; MurmurHash3's blocks and tail at a reduced width.
