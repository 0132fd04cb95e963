# mulle-objc-compat in TLA+

`mulle-objc-compat` gives the Apple Objective-C runtime API (`class_addMethod`,
`sel_registerName`, `objc_allocateClassPair`, ...) to programs that run on the
`mulle-objc-runtime`. It is a thin layer: nearly every function does a short
sequence of calls into the runtime, and what can go wrong is the sequence: what
happens between two of the calls, what the second assumes about the first, who
frees what was allocated, and what the functions leave behind for each other.
This directory models those sequences, checks them with TLC and proves what
matters most about them with TLAPS.

## The system

| component | state (all of it lives in the runtime's universe) | operations | correct when |
|---|---|---|---|
| selectors (`selector.m`) | descriptor table, gift list | `sel_registerName`, `sel_getUid` | one selector per name, every allocation freed once |
| method dispatch (`class.m`, `method.[hm]`) | method lists, implementation fields, a cache per class, universe lock | `class_addMethod`, `class_replaceMethod`, `method_setImplementation`, `method_exchangeImplementations`, `class_getMethodImplementation` | changes are atomic for each other, none is lost, caches do not lie |
| class pairs and ivars (`class.m`) | class table, superclass, ivar lists, instance size | `objc_allocateClassPair`, `class_addIvar`, `objc_registerClassPair`, `objc_disposeClassPair`, `objc_duplicateClass` | ivars fit, do not overlap, are aligned, stay put |
| property and protocol lists (`class.m`) | lists per class | `class_addProperty`, `class_replaceProperty`, `class_addProtocol`, `class_copyMethodList`, `class_copyPropertyList`, `class_copyProtocolList`, `class_copyIvarList` | no entry twice, copies complete and in bounds |
| property attributes (`class.m`, `property.m`) | the attribute string of a property | writing it, `property_copyAttributeList`, `property_copyAttributeValue` | what is written is read back, within bounds |
| property accessors (`property.m`) | ivars of objects | `objc_setProperty` and four variants, `objc_getProperty` | retain/copy/atomic as asked, no reference lost |
| class hierarchy (`class.m`, `class.h`) | superclass links and ids of class and metaclass, caches, universe lock | `class_setSuperclass`, the queries of `class.h` | class and metaclass agree, caches follow |
| class registry (`class.m`) | class table, threads of the universe | `objc_getClass` ..., `objc_getClassList`, `objc_copyClassList`, `objc_disposeClassPair` | lists alive, written, counted |
| protocols (`protocol.[hm]`) | protocol table | `objc_allocateProtocol`, `objc_registerProtocol`, `objc_getProtocol`, `objc_copyProtocolList` | one struct per name, lists of the length told |
| forward handler (`runtime.m`) | a method per class and a default, one static method | `objc_setForwardHandler` | all classes have it |
| objects (`object.[hm]`, `ivar.h`) | isa, memory block, extra bytes | `class_createInstance`, `objc_constructInstance`, `object_copy`, `object_dispose`, `object_setClass`, ivar access | no access outside of the block |
| method signatures (`method.m`) | none | `method_copyReturnType` ... | substrings of the signature |
| Apple-style headers, version | none | | |

The components meet in the universe. `class_addMethod` needs the descriptor
`sel_registerName` has made; `method_exchangeImplementations` and
`class_replaceMethod` share the universe lock, `method_setImplementation` and all
lookups do without, `class_setSuperclass` and `objc_setForwardHandler` take it too;
the first message to a class runs `+initialize`; what is "gifted" is freed when the
universe is torn down, and must not be freed by anybody else. There are no callbacks into the library and nothing is persisted, so
there are no crashes to recover from, no messages and no timeouts. Hard are the
interleavings of threads (the library's documentation relies on the runtime for
thread-safety and asks for external synchronization of registration only), stale
caches, two-step checks, ownership of memory on the losing side of a race, and
arithmetic on offsets and strings.

The list of hazards, each at its line, is in `PROJECT.json`.

## Modules

| module | what it is |
|---|---|
| `Methods` | method dispatch under threads; the core |
| `AtomicDispatch` | what the callers of the lock promise each other: add, replace, exchange in one step. `Methods` implements it (`AtomicForLocked`) |
| `Selectors` | `sel_registerName` with allocation, the registration race, discarding and gifting |
| `SelectorRegistry` | the promise: ask, be answered at one instant, return. `Selectors` implements it |
| `IvarLayout` | class pairs, ivars and instance sizes, duplicates included |
| `ClassLists` | unlocked additions of properties and protocols; the two walks of the copies |
| `PropertyAttributes` | the attribute string: writer, scanner, size of the block |
| `UniverseTables` | the class and protocol tables: registration, listings and disposal under threads |
| `ClassHierarchy` | `class_setSuperclass` and `objc_setForwardHandler`, write by write, beside look-ups that fill caches |
| `Objects` | objects, their blocks, and accesses while `object_setClass` comes in between |
| `PropertyAccessors` | the five setters, their strategies and the reference counts |
| `MC<module>` with `MC<module>_<run>.cfg` | the instances TLC checks |
| `<module>Proofs` (`Methods`, `Selectors`, `IvarLayout`, `ClassLists`, `UniverseTables`, `ClassHierarchy`, `Objects`) | the theorems about that module |
| `PropertyProofs` | the theorems about `PropertyAccessors` and `PropertyAttributes` |

An operator marked "Faulty" in a comment is a plausible mistake in the definition
that follows it. With the mistake in place, one of the properties fails: that is
how the properties are known to depend on the code.

### Methods

`imp` is the `implementation` field of each method, `nMethods` how many entries
for a selector the lists of a class hold, `cache` the per-class caches, `lock` the
universe lock. A call in flight is a `pc` and a `frame`. Each access to shared
state in `_class_replaceMethod` and `method_exchangeImplementations` is a step of
its own (descriptor look-up, lock, look-up of the method, write or addition,
unlock), because `method_setImplementation` and lookups take no lock and can come
in between. `class_addMethod` and `class_replaceMethod` are the same code with a
flag; so here. `used`, `handedBack` and `dirty` are history variables: they
restrict nothing and only serve properties. Implementations are fresh when they
are brought, which is what lets `Conservation` count them.

The runtime's part is external: where methods are found (`Lineage` is the list of
a class and its superclasses), that adding a list empties the caches of the class
and its subclasses ("this invalidates", class.m:677), that a lookup fills the
cache, also with the forward handler. Categories and methods a class has twice
from its compilation are left out.

* `CoherentUnlessRewritten` is the strongest true statement about caches: an entry
  is wrong only about a method that was rewritten in place since all caches were
  last emptied (`class_replaceMethod` does not empty them).
* `OneMethod`, `Conservation`, `AtomicForLocked` and `ReplaceReturnsOld` are what the lock is for.
  `Conservation`: without `method_setImplementation`, an implementation that was
  ever passed in is at any time (lock free) in one place only, so nobody who
  chains to the old implementation loses it or shares it.
* `LockReleased`: every critical section ends.

### Selectors

`table` is the universe's descriptor table; `<<t, n>>` is the descriptor thread `t`
made for name `n`. `heap` and `gifts` track the two allocations and the gifted
signature of each. The size of the signature (16 arguments or more) decides who
owns it. Different names with one hash are allowed for by `Hash` but the instance
has none: the runtime aborts on collisions.

### IvarLayout

One step per call, since registration needs external synchronization. `layout[c]`
is the set of ivars of an instance, inherited ones included. The rounding is
spelled out with the code's bit mask (`And8`, for the `uint8_t` alignment), since
alignments need not be powers of two. `objc_duplicateClass` copies the ivar lists
and not the instance size; `undersized` is the history of the classes this
damages: duplicates of classes with ivars, and what is derived from them. `Fits`
and `NoOverlap` except those and no others, so that nobody else is affected.
That a class is derived from a registered one, and disposed of only when nothing is
derived from it, is the documented life cycle and an assumption of the model.

### ClassLists

Entries are appended to `lists[kind][class]`; a walk visits them latest first.
`BeginAdd...` is the search, `AddEntry` and `Rewrite` the write that follows it
without a lock. `CountEntries` and `CopyEntries` are the two walks of the
`class_copy...List` functions, which differ only in the kind of entry. Methods are
added in one step because `_class_replaceMethod` holds the lock.
`class_conformsToProtocol` looks at the class and its categories only, not at its
superclasses, so a subclass adds a protocol its superclass has a second time.

### PropertyAttributes

A string is a sequence of characters of which one is the comma and one the quote.
`AddProperty` writes it from a list, `BeginCopy` starts a scan, and each attribute is
a step, so that the bounds hold at every step and not just at the end. An unwritten
block reads as any of `Garbage`. What a list may contain is what
`copyPropertyAttributeString` asserts (class.m:750-757), `GrammarAssumption`: names
are not empty and have neither comma nor quote, values have no comma. Strings that
come from the compiler (`Text`) are under no such restriction. `PropertyProofs`
extends this module beside `PropertyAccessors`, hence names like `AttributesNext`.

### UniverseTables

The tables are the runtime's concurrent hash tables. Nobody locks them, so a walk
(`Visited`) meets everything that is there from its beginning to its end, and may
or may not meet the rest. `objc_copyClassList` and `objc_copyProtocolList` each
take two walks: one counts, one writes. `call` is what a thread is doing: `found`
is the table as its walk found it, `slots` the room there is, `list` what was
written, `count` what is answered. `learned` remembers the count a caller of
`objc_copyProtocolList` was told when its limit was too small, because that is what
it may come back with. The struct of a protocol is made by `objc_allocateProtocol`
and found by name; two threads may both make one. `objc_disposeClassPair` aborts
unless the caller is the only thread that holds the universe: `running` counts
them, and `ListsLive` says what that is good for. That nobody derives from, or has
an instance of, a class that is disposed of is not looked at here.

### ClassHierarchy

A class pair is two nodes. `class_setSuperclass` writes four links under the lock
and then invalidates the caches; each write is a step, because look-ups take no
lock and fill caches from half-moved links. `superid` of the metaclass is written
to the infraclass (class.m:461); `SuperidFollows` says that this does no harm.
`forward` is each node's forward method: not asked for yet, the compiled one, or the
static struct of `objc_setForwardHandler`, whose implementation is written before the
lock is taken (runtime.m:66). Whether the runtime copies the default into a new class
or asks for it later, and whether it caches the handler, cannot be read from the
repository: both are allowed for. Invalidation and the walk reach the classes that
are registered; `unreached` is the history of the allocated ones they passed over,
which `CachesFollow` and `ForwardIsDefault` except. `objc_setForwardHandler` empties
no cache: `outdated` is the history of the messages whose forwarding was cached when
the last handler was set, less those whose caches were emptied since. Of them
`ForwardIsDefault` says nothing; of every other message, and of the forward methods
themselves, it says that they are the new handler's. Nothing in the code keeps a
caller from making a cycle; `Rank` stands for a caller who does not.

### Objects

`block` counts the bytes from an object to the end of its memory. Each access reads
the isa (`BeginIvar`, `BeginIndexed`, `BeginCopy`) in one step and touches memory by
what it has read in a later one. Callers are assumed to do what the headers ask for:
one thread at a time calls `object_setClass` on an object, with a class that fits
into it, and nobody disposes of an object in use. Under that, stale isas are
harmless. `IvarsWithin` rests on it: what the model adds is that an access by the old
class is as good as one by the new. `object_copy` may be asked for any number of
extra bytes; `CopyWithin` says how far behind the original it then reads. `RoundUp`
in `object_getIndexedIvars` is not part of the allocation: `IndexedWithin` states
exactly how far beyond the block the indexed ivars can reach.

### PropertyAccessors

`Strategy` is what the five setters choose, `Switch` the switch of
`objc_setProperty`, whose cases fall through to the last. What the runtime does with
a strategy (`Take`, `Swap`, `ReadOld`, `WriteNew`, `GiveUp`) is external: an atomic
one exchanges the ivar in one step, a nonatomic one reads and writes it. Clients of
nonatomic setters exclude others; clients of atomic ones do not. `retained` counts
the references of properties and of setters in flight, and `origin` says of each copy
what it is a copy of.

## Runs

| run | instance | shows |
|---|---|---|
| `methods_all` | 2 fair threads, 2 classes, 2 selectors, 1 fresh implementation, all calls | `CoherentUnlessRewritten`, `LockReleased` |
| `methods_writers` | 2 threads, 3 fresh implementations, an override, an unregistered selector | `OneMethod`, `Conservation`, `AtomicForLocked`, `ReplaceReturnsOld` |
| `selectors_all` | 3 fair threads, 3 names (one wide, one compiled) | `NoDoubleFree`, `NoLeak`, `Published`, `RegistersAtomically`, `RegistersEventually` |
| `ivars_layout` | a root of 2 bytes, 2 classes to derive or duplicate, 3 names, a char and an object of size 8 (0 is refused), alignments 0 and 3 | `Fits`, `NoOverlap`, `OneIvarPerName`, `InheritedInPlace` |
| `ivars_aligned` | the same, alignment 0 | violation, see below |
| `lists_racing` | 2 threads that both add and copy, 2 classes, 2 names | `TypeOK`, `OncePerRegistrar`, `RewritesItsProperty`, `BlockExact` |
| `attributes_copy` | all strings of up to 5 characters, all lists of up to 2 attributes | `AttributesTypeOK`, `WithinBlock`, `RoundTrip`, `FindsFirst`, `Terminates` |
| `universe_all` | 2 threads, a compiled class and 2 others, 3 protocol structs for 2 names, buffers of up to 2 | `WithinBlock`, `ListsLive`, `ReportedWritten`, `SpareSlot`, `LearnedCountExact`, `IdentityAgrees` |
| `hierarchy_all` | 2 threads, 3 compiled classes and an allocated one, one selector, 2 handlers | `TypeOK`, `MetaParallel`, `SuperidFollows`, `CachesFollow`, `ForwardIsDefault` |
| `objects_all` | 2 threads, 3 addresses, words of 4 bytes, classes of 4, 8 and 6 bytes, 0, 4 or 8 extra bytes | `IvarsWithin`, `CopyWithin`, `IndexedWithin` |
| `accessors_all` | 2 threads, one ivar, 2 values, 5 copies, all setters | `ReferencesAccounted` |
| `accessors_plain` | one thread, `objc_setProperty` | violation, see below |

TLAPS proves every type invariant. The runs check again those that say more than
types: which frame goes with which label of an unlocked addition (`ClassLists`), that
the reader never gets past the terminator (`PropertyAttributes`), that only allocated
classes are registered and passed over (`ClassHierarchy`).

The bounds: two threads are enough for every race of this code, since each
critical section and each check-then-act involves one call and one intruder; the
registration race has three, so that two losers meet a winner. Two classes give
inheritance and override, and with two selectors an exchange and an addition meet
in one cache. Two names give a property that exists and one that does not. An
instance of 2 bytes makes an object's alignment of 8 matter, and 3 is an alignment
that is no power of two. Strings of five characters hold a quoted name with a value,
empty attributes and an unbalanced quote. Two classes that can come between two walks
are one more than the spare slot of `objc_copyClassList`; three structs for two names
let two threads make one for the same name; `MaxSlots` = 2 is less than the number of
classes and not less than that of names, so limits are both too small and large
enough. In `ClassHierarchy` the class that is moved can be below or above, registered
or not, between a class that implements the selector and one that does not; `Sent`
restricts the messages to that class (both sides), which is where the caches are the
most indirect. In `Objects` one class has a size that is no whole number of words and
one is larger than another; `Header` and `Word` are not the machine's, only their
relation matters. Five copies are all that two setters and an ivar can hold at once.
Every set is finite by its constant; no counter is cut off by a constraint, and all
runs check for deadlock.

Fairness: `Methods!FairSpec` is weak fairness of a thread inside its critical
section (no step of it waits for another thread) and of a lookup; the lock itself
is given no fairness, a mutex promises none. `Selectors!FairSpec` is weak fairness
of a thread inside `sel_registerName`, which waits for nobody.
`PropertyAttributes` assumes that the scanning loop runs.

### What does not hold

* `ivars_aligned` — `class_addIvar` stores the unrounded offset (class.m:606).
* `accessors_plain` — `objc_setProperty` stores a mutable copy whatever it is asked
  for, since the switch has no breaks (property.m:305), against
  test/04_property/accessors2.m:34-38.

More of what the models show of the code, without a run of its own:

* `class_replaceMethod` rewrites a method in place and leaves caches stale
  (class.m:715); `CoherentUnlessRewritten` excepts exactly those entries. It reads the
  old implementation and writes the new one in two steps (class.m:713): a
  `method_setImplementation` in between is lost. `ReplaceReturnsOld` holds for the
  callers of the lock only.
* `class_addMethod` answers `YES` for an unregistered selector without adding the
  method (class.m:737).
* `objc_duplicateClass` forgets the instance size (class.m:350); see `undersized`.
* A method added between the two walks of `class_copyMethodList` pushes one out
  that the class had all along (class.m:990): `BlockExact` is about the block.
* Attributes without any value leave an unterminated string (class.m:784):
  `RoundTrip` excepts them.
* `class_addProperty` takes no lock, whatever its comment at class.m:793 says:
  `OncePerRegistrar` allows one entry for each thread that adds, and no more.
* `objc_getClassList` answers the size of the buffer (class.m:530), and
  `objc_copyClassList` never writes a terminator into its last slot: callers can rely
  on the count (`ReportedWritten`) and on nothing else.
* `objc_setForwardHandler` does not reach classes that are allocated and not yet
  registered (runtime.m:74), though runtime.h:86-88 promises all present and future
  ones. It also empties no cache (runtime.m:55-77): if the runtime caches forwarding,
  registered classes go on forwarding the messages they have forwarded before to the
  old handler, until something else empties their caches. `ForwardIsDefault` excepts
  both (`unreached`, `outdated`), and no others.
* `object_copy` copies as many extra bytes as it is asked for, also when the original
  has fewer (object.m:66), and reads beyond the original then. `CopyWithin` bounds it
  by the bytes that are lacking.
* The metaclass keeps its old superclass id in `class_setSuperclass` (class.m:461).
* `objc_allocateProtocol` allocates the size of a pointer for the struct
  (protocol.m:66); the memory of the struct is not modelled.

## Proofs

TLAPS proves, for every value of the constants that satisfies the assumptions of
the module:

* `MethodsProofs`: `TypeCorrect`, `OneMethodTheorem`, `CoherenceTheorem`,
  `ReplaceReturns`, `Atomicity`, `Conserved`. The
  inductive invariant `IInv` adds to `TypeOK` that the owner of the lock, and
  nobody else, is at a critical label (`LockInv`), that a class has a method exactly
  when the field is not null (`PresentInv`), and what each label knows of its frame
  (`CallInv`): without `CallInv` nothing says that the method `AddList` adds is
  still absent. Coherence is then inductive relative to `IInv`; the work is in how a
  search changes when an implementation does (`SearchUnchanged`,
  `SearchRewritten`, `CoherentAddList`), for lineages of any length.
  `Atomicity` is the refinement of `AtomicDispatch`, step by step. Its invariant
  `ReadInv` says that what the lock's owner has read is still so when it writes.
  That is true only where `method_setImplementation` is not called: the hypothesis of
  `Atomicity`, and a guard in `Conservation` and `ReplaceReturnsOld`. `Conservation`
  speaks of states in which the lock is free; `PlaceInv` extends it into the critical
  sections: an implementation that was passed in is in one of the methods, or held by
  one of the calls, or handed back, and in one place only, also halfway through an
  exchange (`Table` shows the methods as if it had not begun).
* `SelectorsProofs`: `TypeCorrect`, `NoDoubleFreeTheorem`, `NoLeakTheorem`,
  `PublishedTheorem`, `RegistryTheorem` (the refinement). The
  invariant says for each descriptor which of the stages of its call it is in and
  what of it is allocated and gifted there.
* `IvarLayoutProofs`: `TypeCorrect`, `FitsTheorem`, `NoOverlapTheorem`,
  `OneIvarPerNameTheorem`, `InheritedInPlaceTheorem`, for all sizes and all 8-bit
  alignments; the arithmetic is `RoundUpBound`, that the code's rounding never goes
  down.
* `ClassListsProofs`: `TypeCorrect`, `RewriteFindsIt`, `CopyIsExact`,
  `AtMostOncePerRegistrar`, `OnceWhenSynchronized` (with one thread that adds, which
  is what the documentation asks for, nothing is declared twice). Lists only grow and
  entries keep their names, so what a frame remembers of a list stays true
  (`FrameInv`). Counting needs `CountInv`: the declarations of a name together with
  the additions of it in flight are at most as many as threads that add, since nobody
  begins to append what is there. `OncePerRegistrar` forgets the additions in flight
  and is not inductive.
* `UniverseTablesProofs`: `TypeCorrect`, `WithinBlockTheorem`, `ListsLiveTheorem`,
  `ReportedWrittenTheorem`, `SpareSlotTheorem`, `LearnedCountTheorem`,
  `IdentityTheorem`. The invariant says of each call what it
  knows of the tables (`CallInv`). The argument behind it is one of growth: a class
  goes only when its caller is idle and holds the universe alone, so none goes while a
  listing is in flight, and protocols never go. Hence what a walk has found is still
  there when it ends, it meets at least that, and counts are lower bounds of later
  walks; the rest is the arithmetic of cardinalities.
* `ClassHierarchyProofs`: `TypeCorrect`, `MetaParallelTheorem`, `SuperidTheorem`,
  `ForwardTheorem`, `CachesTheorem`. `LinkInv` says that the links of every class are
  in order but for the one that is being moved, and of that how far the move has come;
  `LockInv` makes it at most one. `ForwardInv` says who may still have the compiled
  forward method when the static one is the default, and `FreshInv` which function a
  cached forwarding can be that is not `outdated`. `CachesTheorem` speaks of a
  search that recurs along superclass links. Every link lowers the rank, also halfway
  through a move, so the recursion is well founded and its function exists
  (`SearchEnds`, `FindIsSearch`). What remains is which steps change what a search
  finds: `WayInv` says that superclasses lie higher and that none of an
  allocated class is unallocated, `HandlerInv` that a null handler is never installed,
  and `CacheInv` that a cache is wrong only while some thread is between its first
  link and its invalidation (`StaleLabel`), or in a class the invalidation passed over.
* `ObjectsProofs`: `TypeCorrect`, `RoomTheorem`, `IvarsTheorem`, `CopyTheorem`,
  `IndexedTheorem`. The invariant is that every object has room for its class
  (`RoomForClass`) and that what a frame has read of an object, at whatever class it
  had then, fits into its block (`CallInv`), which no change of class can undo.
* `PropertyProofs`, accessors: `TypeCorrect`, `ReferencesTheorem`, `StoresTheorem`. The
  references of a value are the ivars and the threads that hold it; that a setter has
  an ivar to itself unless all are atomic is the invariant that keeps `ReadOld` and
  `WriteNew` apart from others' writes.
* `PropertyProofs`, attributes: `AttributesTypeCorrect`, `BlockTheorem`,
  `RoundTripTheorem`, `FindsFirstTheorem`, for strings, names and lists of any length.
  For `WithinBlock` the invariant `BoundInv` is an account: each attribute that was
  copied is paid for by its own characters and by the comma that ends it, so the block
  is large enough before the string is parsed. For the other two, `ReadInv` says that
  the reader stands behind the first `k` pairs of the written string and has copied
  exactly these (or has found none of them to match); the lemmas under it say that the
  part the reader is at is one pair (`PartIsPair`) and that parsing undoes writing
  (`ParsePair`), quoted or not.

The library's induction theorems take an operator and cannot be used here. Where a
definition is recursive over numbers the proofs use that `<` is well founded on
`Nat`: the least number at which a set of numbers has a gap gives the contradiction,
and the function the definition chooses is shown to exist from the functions on
initial segments (`UpTo`, `Iterates`).

The assumptions are the named `ASSUME`s of the modules: sentinels differ from
values, a lineage begins with its class, hashes are ids, alignments fit 8 bits,
ivars lie within the instance size of their class (`Objects`), superclasses have a
lower rank (`ClassHierarchy`: a caller who makes no cycle), attribute lists are as
`copyPropertyAttributeString` asserts, and sets of threads, ivars, classes and structs
that are counted are finite.

Only model-checked: liveness (`LockReleased`, `RegistersEventually`, `Terminates`),
which the prover does not do. All safety properties of the passing runs, invariants
and action properties, are theorems.

## Plan

1. (done) `Methods`, `Selectors`, `IvarLayout`, `ClassLists`, `PropertyAttributes`.
2. (done) `UniverseTables`, `ClassHierarchy`, `Objects`, `PropertyAccessors`, and their
   proofs.
3. (done) Proofs of everything else the runs check but for liveness: `ClassLists`,
   `PropertyAttributes`, the caches of `ClassHierarchy`, and the refinement,
   `Conservation` and `ReplaceReturnsOld` of `Methods`.
4. `class_copyIvarList`: the two walks of `ClassLists` over lists that do not grow any
   more, and a sort by offset.

## Not modelled

The runtime itself is not in the repository; its descriptor table, lists, caches,
class table, gift list and property strategies are modelled from how `src/src` uses
them. Argument checks that return at once and change nothing, messages on `stderr`,
and the contents of signatures are left out: `method_copyReturnType` and its siblings
copy what the runtime's signature scanner finds. Most of the headers are license
texts, declarations and empty Apple-style placeholders; what behaviour they have
(inline functions of `class.h`, `object.h`, `method.h`, `protocol.h`) is in the
modules where it takes part in something, and the remaining one-line getters are not:
they read a field of a runtime struct. The copies of methods, protocols, categories
and property lists in `objc_duplicateClass`, and the isa links it sets
(class.m:335-341), are left out because what the runtime makes of them is not visible
here. The components without a module, or with a part left out, are listed with their
reasons in `PROJECT.json`.
