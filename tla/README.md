# Verification of PMEM-RTS-Cache

TLA+ specifications of PMEM-RTS-Cache, the TLC configurations that model-check them,
and TLAPS proofs of their central properties. Paths are relative to the repository.

## 1. Inventory

The repository is a C prototype of a search-engine cache in persistent memory
(PMDK's libpmemobj, whose headers it carries). There are no test files: what the
program says of itself is in comments, in return-code conventions and in the checks
of `main` (`src/pmem.c`). The program runs on one thread; its difficulty is in
crashes, in aborts that can come out of any libpmemobj call, in nested
transactions, in macros that expand to loops around the code, in fixed-width
counters and in return codes that three layers read differently.

| Component | State | Operations | Interacts with |
|---|---|---|---|
| libpmemobj transactions `include/libpmemobj/tx.h`, `tx_base.h` | stage of the thread, open blocks, undo log, objects allocated and freed, failure behavior | `TX_BEGIN/END/ONABORT/ONCOMMIT/FINALLY`; `TX_ADD*`, `TX_SET`, `TX_MEMCPY`, `TX_NEW`..., `TX_REALLOC`, `TX_FREE`; abort, commit, recovery at open | every persistent component |
| libpmemobj pools and objects `base.h`, `types.h`, `iterator.h`, `lists_atomic.h`, `atomic.h`, `pool_base.h` | open pools, a cached pool per thread, type numbers, atomic lists | `D_RW`/`D_RO`, open, close, `POBJ_FOREACH*`, `POBJ_LIST_*`, `POBJ_NEW/REALLOC/FREE` | every dereference of a persistent pointer |
| Persistent hash map `src/map/hashmap_tx.c` | `struct hashmap_tx` (coefficients, count, pointer to an array), `struct buckets`, chains of `struct entry` | create, insert, remove, get, lookup, count, foreach, cmd (rebuild, debug), init, check | called by the cache, possibly inside its transaction; calls `rand` |
| Persistent queue `src/queue/queue.c` | `front`, `back`, `capacity`, slots of entry oids | new, enqueue, dequeue, size (`queue_free` is declared, never defined) | static, called by nothing |
| Cache `src/cache/cache.c` | `struct Cache` (list ends, capacity, map), `struct CacheEntry` | new, get, set; internal add, delete | hash map calls nested in its transactions |
| Cuckoo filter `src/dual_domain/filter/{cuckoo_filter,bucket}.c`, `util.h` | count, power, buckets of four 8-bit fingerprints; tables `masks`, `alt_hashes` | new, free, reset, lookup, insert, insert_unique, delete | hashing, `rand`; driven by `main` |
| Scalable cuckoo filter `scalable_cuckoo_filter.c` | array of filters | new, free, reset, insert, insert_unique, lookup, delete | cuckoo filter |
| Hashing `src/dual_domain/hashing` | a running hash value | FNV-0/1/1a at 32 and 64 bits for buffers and strings, murmur, fingerprint | the filters |
| Random `src/random/random.h` | a 31-bit buffer of bits | `lcg64_temper`, `rand_bool` | cuckoo filter |
| OpenCL `src/hash_ss` | device, source file, program | `create_device`, `build_program`; a kernel | OpenCL, the file system |
| tf-idf `src/dual_domain/tfidf` | none (an empty header) | - | - |

What makes each of them correct, and why it is hard to test:

* **Transactions.** A block is a `setjmp`, a loop and a switch on the *thread's*
  stage. Every call of the code that nests a transaction relies on it that
  control never comes back from a block that aborted, at whatever depth; the macros
  that snapshot and store in one go rely on it that a failing snapshot aborts.
* **Pools and objects.** An oid is turned into an address through a cache per thread
  that other threads invalidate with a counter, which is read twice. The loops
  over objects and lists are `for` headers around a body that may change what is
  looped over.
* **Hash map.** Calls are atomic and durable by themselves; inside a client's
  transaction they stand or fall with it. The hard part is what a crash or an
  abort *between two stores* leaves: a store to a location that is not in the undo
  log survives it. `hm_tx_rebuild` relinks every entry of the map, in a second
  transaction after the first has committed, or nested in the client's, and
  swallows its own abort. Several inserts, removes and rebuilds inside one client
  transaction mix objects that are freed at once with objects that are freed at
  commit. Halving an array of one bucket asks for none, and `hash` divides by the
  number of buckets.
* **Queue.** A bounded FIFO, atomic against crashes, whose counters wrap at the
  word size and whose full test is an *equality*: one step past the capacity would
  never be noticed. A dequeued slot keeps the oid of a freed entry.
* **Cache.** Creating it nests `hm_tx_create`; whether that can succeed depends on
  *where* the TOID lives that is passed down. `cache_get` and `cache_set` keep a list and
  a map that are to hold the same entries, and snapshot neither's neighbours.
* **Filters.** Counts, capacity and membership (no false negatives) under
  relocation; return codes of three layers that disagree about what success is;
  sizes, masks and indices that have to fit each other and the allocation.
* **Hashing, random numbers.** Arithmetic that must wrap at the width of its type and
  lose nothing: an error is visible only in collisions.
* **OpenCL.** Any call may fail, and not every failure is looked at: a read that falls short
  is not noticed.

The hazards are listed one by one, with their lines and the properties that cover
them, in `PROJECT.json`.

## 2. Modules

| Module | Role |
|---|---|
| `TxBlocks` | the control flow of `TX_BEGIN ... TX_END` in `tx.h` |
| `TxNest` | abstract: nested transactions; `TxBlocks` refines it |
| `PmemTx` | what transactions do to memory, as operators on a record `[mem, undo, fresh, doomed]`: `Store`, `TxAdd`, `TxAlloc`, `TxFree`, `Commit`, `Recovered`, `Rollback` |
| `TxStores` | the functions of `tx_base.h` and macros of `tx.h` that snapshot, store, allocate and free, each of which may fail |
| `PoolAccess` | `pmemobj_direct_inline` with its cache per thread, threads, pools that are closed and opened elsewhere, restarts |
| `TypeNumbers` | the layouts of the repository's headers, expanded by the macros of `types.h` |
| `PoolWalks` | the loops of `iterator.h` and `lists_atomic.h` over a pool that their bodies change |
| `Queue` | `src/queue/queue.c` |
| `FifoQueue` | abstract: a bounded FIFO with atomic calls; `Queue` refines it |
| `HashmapTx` | `src/map/hashmap_tx.c`, alone and inside a client's transaction |
| `TxMap` | abstract: a transactional map; `HashmapTx` refines it |
| `Cache` | `cache_new` and why it aborts |
| `CacheOps` | `cache_get`, `cache_set`, `cache_add`, `cache_delete` on a cache that a client has built |
| `CuckooFilter` | the cuckoo filter and its buckets |
| `FilterResults`, `FilterContract` | what a caller sees of a filter: results, and the abstract filter that gives them; `CuckooFilter` refines it |
| `FilterSize` | the sizes `cf_new` computes, the tables of `util.h`, what lies inside the allocation |
| `FilterMain` | `main`, on top of `CuckooFilter` |
| `ScalableFilter` | the scalable filter, on top of `FilterResults` |
| `Words` | machine words as sets of bits, with their arithmetic |
| `HashFunctions`, `Hashing` | the FNV and murmur functions at full width; clients that hash piece by piece |
| `RandBool` | `rand_bool` and its tempering |
| `ClContext` | `create_device` and `build_program` |
| `Pmemobj` | `PoolAccess`, `PoolWalks` and `TxStores` side by side |
| `Helpers` | `ScalableFilter`, `FilterSize`, `Hashing`, `RandBool` and `ClContext` side by side |
| `PmemTxLemmas`, `QueueProofs`, `HashmapProofs`, `CuckooProofs`, `CacheProofs`, `TxBlocksProofs`, `PmemobjProofs`, `HelpersProofs` | lemmas, inductive invariants and theorems |
| `MCQueue`, `MCHashmapTx`, `MCCacheOps`, `MCCuckooFilter`, `MCFilterMain`, `MCTxBlocks`, `MCHelpers` | instances for TLC |

Composition: `Queue`, `HashmapTx`, `CacheOps` and `TxStores` are written with the
operators of `PmemTx`; `CacheOps` uses the map as `TxMap` promises it; `FilterMain`
extends `CuckooFilter`, `ScalableFilter` uses the results `FilterContract` promises.
`Pmemobj` and `Helpers` put modules that share no state into one run: a
variable `part` chooses one of them in the initial state and the others stay where
they are, so their states add up and do not multiply.

**Persistent memory.** `mem` maps locations `<<object, field, index>>` to values.
A plain store changes `mem` at once, logged or not. A crash, or an abort of the
outermost transaction, gives back `Recovered`: the objects of the transaction
disappear, logged locations get their logged values, *everything else keeps
what was stored to it*. So forgetting a snapshot is visible in the model. Rules of the
library that matter here: the first snapshot of a location wins, objects of the
running transaction need no snapshot, `TX_FREE` of such an object takes effect at
once and of any other at commit, an abort in a nested transaction unwinds
the outermost one.

**Declared functions.** The library behind the headers is not in the repository. A
definition that stands for one of its functions is mapped to the function's
declaration, with the comment that says what it does, where the header has one, and is
marked external where it has none. What is translated is the code the headers do
contain: macros and inline functions.

**Actions.** One action is one libpmemobj call that can fail, or a group of them
without a store between, together with the plain stores that follow it. A
crash or an abort can therefore come at every point where the undo log or the
allocator could be caught in the middle. `pc` says where the running call is and
`f` holds its locals. The loops that search a chain take one turn per action.
Every action is enabled by the code's own conditions; `TxAbort` can replace any
action that makes a libpmemobj call, and `Crash` any action at all.

**TxBlocks.** A block is a record of the sections it has, the place control is in, and
the sections it has run. `Switch`, `EndOfSection` and `Default` are the turns of the
`while ((_stage = pmemobj_tx_stage()) != TX_STAGE_NONE) switch (_stage)`;
`TX_BEGIN` may fail before the WORK section; `TX_END` of a failed inner block aborts
the outer one and jumps to its loop. Blocks with any subset of the optional sections
nest in each other, as `queue.c` (no ONABORT) and `hashmap_tx.c` write them.

**TxStores.** `Goes` is a call that succeeds, `FailsAborting` one that ends the
transaction, `FailsReturning` one that returns its error because of a flag or of
`POBJ_TX_FAILURE_RETURN`. `unsaved` remembers what a macro has stored to without the
snapshot it asked for.

**PoolAccess.** A call of `pmemobj_direct_inline` takes the steps between which another
thread can act: the comparison with the cached pool and the counter (`Compare`), the
second reading of the counter (`Record`), the lookup (`Lookup`). The close of a pool
first raises the counter and then takes the pool out of the table. A client does not
close a pool that is in use.

**PoolWalks.** Objects are numbered in the order of `pmemobj_next`; a ring is the
sequence that starts with `pe_first`. A loop is its `for` header: `FirstOf`, the
test in `Enter`, `StepsOf`. Its body may allocate, free, reallocate, insert, remove and
move anything but the object that the loop goes on from (`Anchor`): the current
one, or the next one in a SAFE loop, which is the rule that makes a SAFE loop what
it is. `number` comes from `TypeNumbers`, where `__COUNTER__` starts anywhere.

**HashmapTx.** `outer` says that the client has a transaction open (as `cache_get`
and `cache_set` do). `TxEnd` commits only when it is the outermost `TX_END`.
`hm_tx_get`, `hm_tx_lookup`, `hm_tx_count` and `hm_tx_foreach` change nothing and
are operators. `hash` wraps its 64-bit sum (`Word`) before the two remainders.
`rand()` is a free choice from `Rands`, drawn until `a` is not 0 as
in the code. The seed, `hm_tx_debug` (printing) and the type test of
`hm_tx_check` are left out; `hm_tx_init` only seeds `rand` and belongs to
`Crash`. Of `hm_tx_cmd` the rebuild is an action; its other commands change nothing and
return 0 or `-EINVAL`. What `hm_tx_foreach` returns, the result of the last callback, is
left out. `create_hashmap` ends the process in its `TX_ONABORT`, which is a `Crash`.

**Queue.** `queue_new` uses the atomic allocator `POBJ_ALLOC`: the object appears
constructed or not at all. The slots are not written by the constructor (`Garbage`).

**Cache.** The only thing modelled of the two TOIDs that are passed down is whether
their address is in the pool. `TX_ADD_DIRECT` aborts on one that is not.

**CacheOps.** `cache_new` creates nothing, so the cache is one that a client has built
as the code expects it: sentinels at head and tail, the entries between them in the
map (`Built`). What the code does then is kept as it is: `cache_set` links an entry and
never tells the map; `cache_get` puts the first 16 bytes of an entry into the map as
an oid (`FirstBytesOf`: `ZeroOid` or `Stray`, by the entry's value and by four bytes of padding
that `TX_NEW` does not set); `cache_add` links a copy of the
first entry; the neighbours' links are stored to without a snapshot. Each store to an
object that a rollback keeps is a step of its own: the two of `cache_delete`
(`Unlink`, `Relink`) and the one of `cache_add` (`Link`), and the commit comes after them
(`End`), so that a crash or an abort can leave head->next on an entry that the rollback
took away. The allocator may choose any free oid (`FreeOids`), also one that such a link
still leads to. `torn` becomes true when a rollback gives back other links than the
last commit's. A dereference of what is no object leads to `pc = "undefined"`. The value that
`cache_get` is asked for never reaches the caller, as `value = &val` assigns the
parameter; it is not part of the model.

**CuckooFilter.** Indices are 32-bit words of which the code uses only the bits under
a mask, so an index is the set of its bits; `&` is intersection and `^` symmetric
difference. Fingerprints are a set of constants without 0, the empty slot (the code
adds 1 to a remainder). Four things in the code make this filter differ from the
textbook, and the module keeps all of them:
`cf_new` and `bucket_new` assign to their own copy of the caller's pointer, so what the
caller's structure holds is uninitialized (variable `ready`: NULL, or memory that
reads as zero; any other pointer leaves the language. `count` is any word of `Counts` and
wraps as a `size_t`. `bucketPower` is the constant `BucketPower`, at least 1: with 0
`cf_reset` writes past the allocation, which is left to `FilterSize`); `index_bucket` reads the
zeroed array of pointers as an array of buckets, so pointer i overlaps buckets 2i and
2i + 1 and `buckets[i] != NULL` depends on their contents; `bucket_insert` and
`bucket_delete` return 0 for success and their callers take non-zero for it;
`fp = bucket->fp[j] = oldFp` overwrites a fingerprint instead of exchanging it.
`init` of `util.h` is never called, so the masks are all 0 and every index is 0: the
variable `mask` starts as 0 or as what `init` would store. `hash >> 32` on a 32-bit
value is undefined; `HashBits` is whatever it gives. `cf_free` is defined only where
the pointers it reads are null, and leads to `pc = "undefined"` otherwise.

**FilterSize, HashFunctions, RandBool.** Numbers are words of 32 and 64 bits, as sets of
bits, so that shifts, masks, wrapping and truncation are those of the code; nothing is
scaled down.

**ScalableFilter.** `scf_new` fills a structure of its own, so the caller's stays zero
unless an option passed to it keeps the address of that structure; both
happen. `malloc` does not zero it, so that where neither the option nor `scf_new` sets
`filters` the step is undefined. The load factor (a quotient by a power that may be 0) is a free choice.
After an undefined step (NULL dereferenced, a store past the array) nothing is said.

**ClContext.** A call of the C library or of OpenCL may succeed or fail; what the code does
not look at (a failing `fseek`, a short `fread`, a `malloc` that gives NULL) goes on as the
code goes on, to a size of 0 or -1 or to a store that is undefined. What is in the buffer is
not part of the model: the code drops the result of `fread` and hands the whole buffer to
OpenCL, so there is no property of its bytes to check (a hazard is listed).

## 3. Runs

| Run | Module, config | Checks | Distinct states |
|---|---|---|---|
| queue | `MCQueue` | `TypeOK`, `RollbackExact`, `NeverOverfull`, `LiveWindow`, `ImplementsFifo` | 32 740 |
| hashmap | `MCHashmapTx` | `TypeOK`, `RollbackExact`, `IndexInBounds`, `MapWellFormed`, `ReadsAgree`, `ImplementsMap` | 122 370 |
| hashmap_live | `MCHashmapTx`, `MCHashmapLive.cfg` | `CallsReturn` | 57 493 |
| cache_new | `Cache`, `MCCache.cfg` | `FreshPoolCreates` | (violation) |
| filter | `MCCuckooFilter` | `TypeOK`, `StoredWhereLookedFor`, `InsertOutcome`, `ResetForgets`, `DamageConfined`, `ImplementsContract` | 158 612 |
| filter_main | `MCFilterMain` | `CountMatches` | (violation) |
| main | `MCFilterMain`, `MCMainEnds.cfg` | `PassesByChance`, `MainEnds` | 199 524 |
| tx_blocks | `MCTxBlocks` | `SectionsInOrder`, `ControlFollowsStage`, `BlocksEnd`, `ImplementsNest` | 290 233 |
| cache_ops | `MCCacheOps` | `TypeOK`, `RollbackExceptLinks`, `MapLeadsToEntries`, `GotAtMostOnce`, `FirstIsLive` | 250 936 |
| cache_set_get | `MCCacheOps`, `MCCacheSetGet.cfg` | `FirstCanBeGot` | (violation) |
| pmemobj | `Pmemobj` | `DirectIsCurrent`, `WalkVisitsOnce`, `StoresRollBack` | 1 047 685 |
| helpers | `MCHelpers` | `InsertedIsFound`, `OthersKept`, `NeverGrows`, `FilterFits`, `PiecewiseAgrees`, `OneOctetTells`, `EachBitOnce`, `ReturnsBuilt` | 2 564 |

Three runs expect a violation of the one property they check (*Findings*).

What the properties say:

* `SectionsInOrder` - a finished block has run WORK, then of the sections it has one of
  ONCOMMIT and ONABORT, never both, then FINALLY, each once. `ControlFollowsStage` -
  control is in a section only while the thread's stage is that section's, all
  enclosing blocks wait in WORK, and after an abort no WORK section at any depth goes
  on. `BlocksEnd` - every block ends. `ImplementsNest` - the pool's outcome is that
  of nested transactions: committed exactly when nothing failed.
* `StoresRollBack` - whatever mixture of snapshots, stores, allocations, reallocations
  and frees a transaction made, its abort gives back every object and value, except
  where a macro went on after a snapshot that failed or was told not to take one.
* `DirectIsCurrent` - an address is computed from where the pool is mapped *now*,
  whatever other threads open and close. It answers the suspicion in the comment of
  `cache_new` that a pointer of an earlier mapping is used.
* `WalkVisitsOnce` - every loop runs its body exactly once for each object that stays
  in its list or type from beginning to end, whatever the body does.
* `RollbackExact` - at every step of every call the undo log takes the pool back to
  exactly the last outermost commit.
* `NeverOverfull`, `LiveWindow` - the counters never get further apart than the
  capacity; between calls the slots from front to back hold different entries, and
  these are all that is allocated (no leak, no dangling slot in use).
* `IndexInBounds` - the array in use has a bucket, and an index computed at the
  start of a call is valid for the array the last store of the call goes to.
* `MapWellFormed` - between calls chains end, each entry is in the slot its key
  hashes to, keys are unique, `count` is right, every pointer leads to an
  allocated object and nothing else is allocated. Inside a client's
  transaction this is said of the pool without the objects its commit will free.
* `ReadsAgree` - get, lookup, count and foreach describe the same contents.
* `ImplementsFifo`, `ImplementsMap` - each call, with every crash and abort in it, is
  one step of the abstract queue or map, or none. For the map the abstraction
  follows the entry in hand during a rebuild, so that a rebuild is a stutter.
* `CallsReturn` - every call comes to its end.
* `RollbackExceptLinks` - in the cache an abort or a crash at any step, between the plain stores
  and after them too, gives back all but the links of the list.
  `MapLeadsToEntries` - the map leads to no freed entry, also when the links are torn.
  `FirstIsLive` - as long as no rollback tore the links the first entry is allocated. `GotAtMostOnce` - a key that was got is gone:
  what the misread oid costs.
* `StoredWhereLookedFor` - however often `cf_reinsert` moved fingerprints, each one
  stored is that of an inserted key and lies in a bucket where that key is looked
  for. `InsertOutcome` - a `cf_insert` that returns 1 stored its key, and a key that is
  not found after its `cf_insert` met a full bucket. `DamageConfined` - an insert makes
  unfindable only keys that share a bucket with its own. `ResetForgets` - a filter of four
  pointers is empty after `cf_reset`. `ImplementsContract` - what callers see.
* `PassesByChance`, `MainEnds` - `main` reports success only if no insert counted as one
  and the `count` that it never set wraps to 0 with the last of as many increments as the table
  has words: for a filter that starts at 0, only for an empty table. And it returns
  for every table.
* `InsertedIsFound`, `OthersKept`, `NeverGrows` - after an `scf_insert` that
  returns 1 the key is looked up with success, although both misread the codes of the
  filters; an insert leaves the filters before the last alone; none ever adds a filter.
* `FilterFits` - the filter is the smallest that has the capacity asked for, with the
  exceptions of 0 and of more than 2^31; every index lies inside; after `init` all
  fingerprints have different `alt_hashes`; `cf_reset` and `cf_free` stay inside
  from a capacity of 5 and 9 on.
* `PiecewiseAgrees` - shift-and-add hashing in any pieces is multiplication at once.
  `OneOctetTells` - inputs that differ in one octet do not collide; no fingerprint is 0.
  `EachBitOnce` - the bits of a word are handed out once each, and tempering can be
  undone. `ReturnsBuilt` - whatever fails on the way, `build_program` returns only with a
  program that was built for a device that was found, and keeps neither file nor buffer.

### Bounds, and why they are enough

* *Queue*: capacities 0, 1, 2 and 4 with eight values of `size_t`, so that the
  counters wrap many times; capacities divide `Word`, because for the others `slot =
  counter % capacity` jumps when the counter wraps, which takes 2^64 calls (a hazard
  is listed). As many entries as the largest capacity; a TX_NEW that finds no room
  aborts.
* *Map*: three keys of which two collide at one bucket size or another, three
  entries, three arrays (a rebuild inside a client's transaction needs the old one, a
  new one and a third for the next rebuild), arrays of one and two buckets,
  `MaxBuckets` the room of the pool (a larger request fails as TX_ZALLOC does), and
  coefficients, `P` and `Word` small enough that the 64-bit sum wraps. The
  thresholds `MIN/MAX_HASHSET_THRESHOLD` (5 and 10 in `hashmap_internal.h`) are
  scaled to 0 and 2 and `INIT_BUCKETS_NUM` (10) to 1, so that growing, shrinking
  to the point of asking for no bucket, and a rebuild to the same size all
  happen with three entries. One value suffices for `Vals`: results are compared with
  `Null`, keys and return codes, and removing returns what was inserted under that key.
* *Cache*: caches built with no key, one and two; capacities without room for another,
  with room for one and ample; four entries, since a set takes two, and the pool may run out
  of them, which ends in an abort. Entries are interchangeable (`SYMMETRY`; no liveness is
  checked). Key and value 0 occur because the sentinels are zeroed and a zero oid is null.
* *Filter*: four pointers, two keys with one fingerprint and two with one
  index; buckets of two slots and three kicks (4 and 10 in the code) so that buckets fill
  up and the loop of `cf_reinsert` ends both ways; `count` starts with any value of a word of
  three and wraps in both directions. The runs of `main` use the code's own 4 slots and 10 kicks, a
  word of eight, and first counts of 0 (the violation) and of 0, 4, 5 and 7, the last of which one
  word takes to 0.
* *TxBlocks*: three nested or successive blocks, with all eight sets of sections: an
  abort passes from the third through the second to the first.
* *pmemobj*: two threads, two pools, three addresses and two closes: a pool can be
  closed and come back elsewhere while another thread is between any two steps, and
  its old address may by then be the other pool's. Three objects of
  two types, two lists, three changes during a loop. Three objects of one field for the transactional stores (two are
  copied between, a third is room for a reallocation).
* *helpers*: every power of two of 32 bits and its neighbours as a capacity; five octets,
  so that murmur has a group of four and a rest; all seeds of `rand_bool` that
  matter to carries; measured sizes from -1 to 3.

Fairness. `HashmapTx!FairSpec` has weak fairness on the steps of a call in progress,
where a step that cannot succeed aborts: the thread that runs a call goes on
running it. Nothing makes a client call, commit or abort. Crashes are allowed
and end the call. `TxBlocks!FairSpec` has weak fairness on the steps of a thread inside a
block, none on beginning blocks or aborting; a WORK section ends after a bounded number
of blocks (`MaxBlocks`). `FilterMain!FairMain` says that the one thread of the program
runs on.

Deadlock is checked in `queue`, `hashmap`, `hashmap_live`, `cache_new`, `tx_blocks` and
`pmemobj`. It is switched off where the system really stops: `main` returns, a
freed filter takes no call, an undefined step has no next, `build_program` returns or
exits.

Mutants. Each property has a variant of a definition of the code under which TLC
finds it violated (`PROJECT.json`, `mutants`): a dropped snapshot, a full test that is
off by one, a cache that compares only the uuid, a SAFE loop that reads its next
object too late, a `default` that does not process, a section that falls through, `+` in
place of `^`, a mask one bit short, a relocation that goes on once more, a device taken in
spite of an error. They are defined
next to the operator they change.

### Findings

`cache_new` always fails. It passes the address of its local variable `hashmap` to
`hm_tx_create`, which snapshots it with `TX_ADD_DIRECT(map)`
(`src/map/hashmap_tx.c:319`); an address outside the pool aborts the
transaction. The comment at `src/cache/cache.c:7` attributes the abort to loading an
existing pool and to the pointer to the persistent cache; run `cache_new` shows
it on a pool just created with that pointer inside the pool, and `DirectIsCurrent`
that an oid of an earlier mapping leads to the present one.

`cf_insert` and `main` disagree about success. The 0 that `bucket_insert` returns for
success is taken for failure (`src/dual_domain/filter/cuckoo_filter.c:104`). An insert
that stored nothing increments `count` and returns 0; the first insert of a filter
fills a bucket with copies and returns 1. `cf_delete` misreads `bucket_delete` in the
same way (line 152). The comparisons of `main` at `src/pmem.c:147` and `:157` fail
(run `filter_main`; `PassesByChance` shows that a table with a word gets through only by
a wrap of the `count` that `main` leaves uninitialized).

A key that was just set cannot be got. `cache_set` makes an entry, links it with
`cache_add` and never puts it into the map (run `cache_set_get`); the `main` that
`src/pmem.c` keeps in comments gets a key right after setting it.

## 4. Proofs

All theorems are checked by TLAPS for every value of the constants allowed by the
named assumptions of the modules (`QueueAssumption`, `HashmapAssumption`, `CacheAssumption`,
`FilterAssumption`, `TablesAssumption`, `BlocksAssumption`, `AccessAssumption`,
`WalkAssumption`, `ScalableAssumption`, `CapacityAssumption`, `OctetAssumption`,
`SizeAssumption`), which TLC evaluates in the runs. The assumptions say
what the code's types and the library say: names of different things differ, the null oid and the sentinels are no entries, counts are natural numbers, a
pool is finite (`IsFiniteSet(Entries)`), and it holds fewer entries than a `size_t` counts,
since an entry takes more than one byte (`Cardinality(Entries) < Word`). Types are
those that the headers declare, octets are 0 to 255, capacities words of 32 bits, and an
`Option` passes an array of at least one filter.

Of the properties that the runs check these are theorems:

| Component | Theorems | Inductive invariant |
|---|---|---|
| transactions | `ControlFollowsStage`, `SectionsInOrder`, `ImplementsNest`, `StoresRollBack` | `BInv`, `RanInv`, `SInv` |
| pools | `DirectIsCurrent` | `AInv` |
| walks | `WalkVisitsOnce` | `WalkInv` |
| queue | `TypeOK`, `RollbackExact`, `NeverOverfull`, `LiveWindow`, `ImplementsFifo` | `QInv`, `RInv` |
| map | `TypeOK`, `RollbackExact`, `IndexInBounds`, `MapWellFormed`, `ReadsAgree`, `ImplementsMap` | `LogInv`, `MapInv`, `SeesInv` |
| cache | `TypeOK`, `RollbackExceptLinks`, `MapLeadsToEntries`, `GotAtMostOnce`, `FirstIsLive` | `PoolInv`, `ChainInv` |
| filter | `TypeOK`, `StoredWhereLookedFor`, `InsertOutcome`, `DamageConfined`, `ResetForgets`, `ImplementsContract` | `CInv`, `DInv`, `OInv` |
| `main` | `PassesByChance` | `MainInv`: that of the filter, with the place in the program |
| filter sizes | `FilterFits` | `FilterInv` |
| scalable filter | `InsertedIsFound`, `OthersKept`, `NeverGrows` | `ScalableInv` |
| hash functions | `PiecewiseAgrees`, `OneOctetTells` | `PieceInv`, `HashInv` |
| random numbers | `EachBitOnce` | `RandInv` |
| OpenCL | `ReturnsBuilt` | `BuildInv` |

These are all the safety properties of the passing runs. Almost none of them follows from
its own truth before the step. How each argument goes:

* **`PmemTxLemmas`.** For each operator, what it changes and that it leaves
  `Recovered` alone: a store if its location is *covered* (logged, or in an object of
  this transaction), a snapshot and a free always, an allocation if the
  object was not there. `Commit` makes `Recovered` the memory; a rollback is final.
* **Stores (`StoresGiveBack`, `PartsStoresRollBack`).** One lemma for each operator says
  what it does to the promise that a rollback gives back `before` outside `unsaved`: a store
  keeps it when its location is covered or in `unsaved`. The macros that store in spite
  of a failed snapshot pay by adding to `unsaved`; a reallocation is an allocation and a
  free, whichever object they meet. `SInv` adds that with no transaction running the
  memory is its own rollback, which a beginning transaction starts from.
  `PartsStoresRollBack` carries the result to `Pmemobj`.
* **Queue, counters (`QueueTypeCorrect`, `QueueRollbackExact`, `QueueNeverOverfull`).**
  `QInv` adds that the *durable* image
  satisfies the bounds too (a rollback goes back to it, which `RollbackExact`
  makes precise) and what each program point knows: between the guard and `back++`
  there is room, between the guard and `front++` there is an entry, and the position
  is a slot of this queue. Lemma `Distance` is the modular arithmetic of the counters,
  for every word size and capacity, also those that do not divide it.
* **Queue, slots (`QueueRing`, `QueueLiveWindow`, `QueueImplementsFifo`).** `RInv` adds that
  the slots from front to back of the durable image hold different entries and that nothing
  else is allocated, and what a call has changed of it so far. The three theorems
  have the hypothesis `InStep`: every capacity divides the word size, as powers of
  two do. It is a limit of the code and not of the proof: for other
  capacities the slot jumps when a counter wraps, after 2^64 calls. The refinement maps
  the durable image to a sequence; an enqueue appends to it and a dequeue takes its
  head (lemmas on the positions modulo the capacity).
* **Map, log (`HashmapRollbackExact`).** `hm_tx_insert` and `hm_tx_rebuild` take snapshots in
  one step that later steps rely on. `LogInv` therefore says for every program point
  which stores still to come are covered: the slot and `count` after
  `InsertLog`; every slot of the old array, `hashmap.buckets` and the new array
  (as an object of the transaction) throughout the rebuild loop. It is independent of what
  the chains look like, so it needs no assumption on the hash function.
* **Map, chains (`HashmapMapInvariant` and the theorems from it).** A chain is not
  described by walking it but by a *rank*: there is a function from entries to
  numbers that falls along every `next`, each entry of the map is pointed to exactly once,
  by a slot or by an entry of the same slot, and lies in the slot that its key hashes to
  (`Linked`). That is what an insert, a removal and each turn of the rebuild
  preserve, with an entry in hand or loose where the program is between two stores
  (`Split`, `Loose`). `MapInv` says it of the memory *without what the commit will free*,
  and of the durable image, so that aborts and crashes preserve it. Bounds of indices,
  uniqueness of keys and `count` are parts of it. That walks end and that get, lookup and
  foreach agree follows by taking an entry of least rank for which they would
  not: the recursive functions of the module are unfolded once per step.
* **Map, refinement (`HashmapImplementsMap`).** `SeesInv` adds that outside a transaction
  what is visible is what is durable, and what a scan has already passed (no entry with
  the key). Each of the actions is then a step of `TxMap` or a stutter: the link of an
  insert and the unlink of a removal are the calls, the rebuild changes nothing.
* **Cache, pool (`CachePool` and the four theorems from it).** `PoolInv` says which locations
  there are and what each may hold; that the undo log holds nothing but oids of the map,
  so that all of the last commit comes back but links; that an entry the map leads to
  is there, has that key and is not doomed; and that a call only ever takes entries out of
  the map. It makes no claim on the links: after an abort they may hold anything of
  their type, and lead to what is no object or to a new one, and the theorems hold for such
  pools.
* **Cache, list (`CacheChain`, `CacheFirstIsLive`).** Until a rollback tears the links, the entries
  that were built and not deleted form one ring with the sentinels, in both
  directions (in one only between the two stores of a delete, `HalfDeleted`), though not
  all of it is reached from `head`: `cache_set` puts new entries before it that point into the
  ring, and nothing in the ring points to them (`ChainInv`). `ChainBack` says the same of the
  last commit, which a rollback that tears no link gives back. The map leads to entries of the ring only, so that a delete closes the
  ring behind it and the entry that `head` points to is never the one freed.
* **Filter, places (`CuckooStoredWhereLookedFor`, `CuckooTypeCorrect`).** `CInv` adds to
  `StoredWhereLookedFor` the fingerprint that `cf_reinsert` has in hand: it belongs to the
  bucket it is about to be stored in. Lemma `HomesPaired` shows that `alt_index` leads
  from each home of a key to the other, for every mask and table, because the
  symmetric difference with a fixed set is an involution on masked indices; it is what
  the mutant with `+` breaks.
* **Filter, damage (`CuckooDamageConfined`, `CuckooResetForgets`).** `DInv` adds
  that the fingerprint in hand in `cf_reinsert` is all the time that of the
  key being inserted (the swap keeps the new one and drops the old), so that both buckets
  it visits are homes of that key; lemma `FoundElsewhere` does the rest. For the
  reset, that the buckets of a filter of four pointers are those four.
* **Filter, results (`CuckooInsertOutcome`, `CuckooImplementsContract`).** `OInv` adds that
  a relocation which has made a turn has left the key's fingerprint in one of its
  homes. The refinement then follows operation by operation: what callers see of
  the buckets is which keys are found (`FoundNext`).
* **`main` (`MainPassesByChance`).** `MainInv`: every word inserted in a filter that is there has moved
  `insertedWords` (its `cf_insert` returned 0) or, by one and modulo the word, `count`, and a
  `cf_delete` that returns 0
  leaves `count` as it is (`MovedBy`). So at the end `count` is still the `insertedWords` that
  the comparison at `:147` found it to be, and the last comparison lets it pass only if both
  are 0: all words have then moved `count`, from its first value to 0.
* **Pools (`AccessDirectIsCurrent`).** For any number of
  threads, pools, addresses and closes. What has to be known between calls is that a
  thread whose recorded counter is current and whose cache names a pool has that
  pool's base, if it is open and not being closed. `AInv` adds what a thread in the
  middle of a call knows: the pool of its oid is not being closed. `PartsDirectIsCurrent`
  carries it to `Pmemobj`.
* **Walks (`WalksInvariant`, `PartsWalkVisitsOnce`).** For any number of objects and lists, any
  starting number of the types and any changes in the body. `WalkInv` says which objects
  the loop has *passed*: those before its variable in the order it follows, by
  number in a pool and by position in a list, or before the next variable in a SAFE loop. The
  objects seen are, each once, those passed; an object that stays is either passed or
  ahead, since no allocation, reallocation, insertion or move changes the order of
  the others (lemma `Embedded` and those after it), and the anchor stays where it is. So when
  the variable is null, all that stayed have been seen. A SAFE loop that read its next
  object too late would have no anchor.
* **Blocks (`BlocksControlFollowsStage`, `BlocksSectionsInOrder`, `BlocksImplementNest`).** For
  any depth and any sections. `BInv` adds that without a block
  there is no transaction and no failure; `RanInv` which sections every waiting block
  has run, by its place. The refinement to `TxNest` has one step per
  action: beginning and ending blocks are steps of nested transactions, sections and
  switches are stutters; that a block which ends has not failed, or that all enclosing ones
  end with it, follows from the invariant.
* **Scalable filter (`ScalableInvariant` and three theorems from it).** `ScalableInv` adds to
  `InsertedIsFound` which arrays there can be: none, an array with at least one filter, or an
  empty one, but that only after an allocation failed. An insert that returns 1 went to
  the last filter, and a lookup goes through all of them.
* **Filter sizes (`FilterInvariant`, `SizeFilterFits`).** A word is the set of its one-bits, so
  numbers are compared by their highest differing bit and the functions of `util.h` become
  facts on sets: the doubling shifts of `next_pow_2` fill all bits below the highest, adding
  1 then carries through to the bit above, and `trailing_zeros` is the lowest bit. From these
  follow the size, the masks and the bounds of all indices for each capacity below 2^32.
  The 256 `alt_hashes` are FNV hashes of one octet each and differ for the reason given next.
* **Hash functions, collisions (`HashOneOctetTells`).** Each step of the functions is
  injective on words: a xor with a fixed set and an odd multiplication (the lowest
  differing bit survives the sum with a shifted copy) as well as `x ^= x >> k` (the highest
  differing bit survives). So two hashes that differ stay different under equal octets,
  and differ after one octet that does. For `HashInv` the octets and the length are any.
* **Hash functions, multiplication (`HashPiecewiseAgrees`).** The operators of `Words` fold
  over sets of bits. That a fold exists and what it is for one bit more is shown by a least
  counterexample; that addition with carries is commutative and associative then gives the
  same sum in any order of terms. The FNV prime is the sum of bit 0 and of the shifts
  that the code adds, so that its sum of shifts is the product, overflow included. `PieceInv`
  adds that a client's hash is the fold over all its octets so far, and folding two sequences
  one after the other is folding them joined.
* **Random numbers (`RandEachBitOnce`).** Each of the four steps of the tempering leaves some
  bits of the word alone, and from these the step is undone bit group by bit
  group. `RandInv` relates the bits handed out to those of the word and to `gcount`.
* **OpenCL (`ClReturnsBuilt`).** `BuildInv` says for every point of `create_device` and
  `build_program` what is known of the device, the file, the buffer and the program.

Only model-checked: liveness (`CallsReturn`, `BlocksEnd`, `MainEnds`), which TLAPS cannot
prove under fairness.

## 5. Limits

Sections 2 to 4 describe what is done. What could follow, and what cannot:

* `CacheOps` uses the map as `TxMap` promises it. `HashmapImplementsMap` proves that the
  promise is kept; a cache composed with `HashmapTx` itself, step by step, would
  also show the two sharing one undo log.
* Liveness is out of the reach of TLAPS and stays with TLC.
* The theorems on the slots of the queue have the hypothesis `InStep`, and `ImplementsFifo`
  with them: without it they are false of the code, after 2^64 calls.

### Not modelled

* tf-idf: an empty header.
* `murmur_hash_fp` and `int2bin` (`hash_funcs.h`): the one passes an integer where a
  pointer is read, and the other is called only by it.
* The OpenCL kernel, which squares each element on its own, `common_sampling.h`, which
  names a type, and `opencl_defines.cpp`, declarations for an editor.
* Headers of libraries that nothing calls (`libpmem2.h`, `libpmemset.h`,
  `libpmempool.h`, `libpmemblk.h`, `libpmemlog.h`, `librpmem.h`, `libpmem.h`), and of
  libpmemobj what nothing uses: reservations (`action.h`), locks, callbacks and user
  buffers of a transaction, `ctl.h`, defragmentation. There is no code in them.
* The `main` that `src/pmem.c` has in comments, printing (`hm_tx_debug`, the messages of
  `main`), and the placeholder table of `main`: one word and 19 null pointers, at which
  `strlen` stops the program; the model runs `main` on tables of words.
* `sz_new` in `hm_tx_rebuild` wraps for a length near 2^60; the model bounds
  arrays by the room of the pool. A hazard is listed.
