-------------------------------- MODULE ObjDict --------------------------------
(***************************************************************************)
(* zero_topic_core/obj_dict/obj_dict.c and obj_dict_mempool.c: a fixed     *)
(* array of entries under one semaphore, values in blocks of a memory pool *)
(* or of the heap, a version and a reference count per entry.              *)
(*                                                                         *)
(* A call takes the semaphore, works in steps that other tasks can see (a  *)
(* publisher of topic_bus.c reads the entries without the semaphore), and  *)
(* gives it back.                                                          *)
(***************************************************************************)
EXTENDS Integers, FiniteSets

CONSTANTS Tasks,         \* the tasks that call the dictionary
          Calls,         \* which of AllCalls they make
          Keys, ZeroKey, \* the keys; 0, a legal key, is what memset leaves
          MaxKeys,       \* entries in the array
          Data, Lens,    \* the bytes and lengths a caller can write
          PoolBlocks,    \* blocks of the memory pool, {} without a pool
          HeapBlocks,    \* blocks os_malloc can return
          BlockSize,     \* OBJ_DICT_MEMPOOL_BLOCK_SIZE
          WordMod,       \* 2^(width of atomic_uint_fast32_t)
          LockTimesOut,  \* whether a call can hold the semaphore beyond 100 ms
          Null, NoKey, Absent, Torn

AllCalls == {"set", "get", "retain", "release", "cleanup"}
Slots    == 1 .. MaxKeys
Blocks   == PoolBlocks \cup HeapBlocks
Word     == 0 .. WordMod - 1

ASSUME DictAssumption ==
    /\ Calls \subseteq AllCalls
    /\ ZeroKey \in Keys /\ NoKey \notin Keys
    /\ MaxKeys \in Nat \ {0}
    /\ WordMod \in Nat \ {0, 1}
    /\ Lens \subseteq Nat /\ BlockSize \in Nat
    /\ PoolBlocks \cap HeapBlocks = {} /\ Null \notin Blocks
    /\ Torn \notin Data
    /\ LockTimesOut \in BOOLEAN
    /\ Absent # Null /\ {Absent, Null} \cap [data : Data \cup {Torn}, len : Lens \cup {0}, version : Word] = {}

VARIABLES entries,  \* dict->entries: key, value pointer, value_len, version, ref_count
          used,     \* the blocks in use: pool flags and the heap's allocations
          mem,      \* what each block holds; Torn while and before it is written
          lock,     \* the count of dict->lock
          call,     \* the call each task is in
          pins,     \* the key each task has retained and not yet released
          answer    \* what the obj_dict_get of each task returns, Null outside of one

dict == <<entries, used, mem>>
vars == <<dict, lock, call, pins, answer>>

(***************************************************************************)
(* Entries and blocks.                                                     *)
(***************************************************************************)
Live(s) == entries[s].value # Null

\* atomic_fetch_add on a counter of its width; n = WordMod - 1 subtracts one.
Plus(w, n) == (w + n) % WordMod

\* A search loop that stops one entry early.
HoldingButLast(k) == {s \in 1 .. MaxKeys - 1 : Live(s) /\ entries[s].key = k}

Holding(k) == {s \in Slots : Live(s) /\ entries[s].key = k}

\* The loops of __find_entry and __find_free_slot stop at the first match.
First(S) == CHOOSE s \in S : \A r \in S : s <= r

FreedNever(b) == used

\* obj_dict_mempool_free ignores a block that is not its own; without a pool the
\* block goes back to the heap.
Freed(b) == IF PoolBlocks # {} THEN used \ (PoolBlocks \cap {b}) ELSE used \ {b}

\* A pool that does not mark its blocks.
AllocatableUnmarked(n) ==
    IF PoolBlocks # {} /\ n <= BlockSize THEN PoolBlocks ELSE (HeapBlocks \ used) \cup {Null}

\* The pool first, the heap when the pool is full or the value too long for a block;
\* os_malloc may fail.
Allocatable(n) ==
    LET pool == PoolBlocks \ used IN
    IF pool # {} /\ n <= BlockSize THEN pool ELSE (HeapBlocks \ used) \cup {Null}

(***************************************************************************)
(* Calls.                                                                  *)
(***************************************************************************)
Idle == [pc |-> "idle", op |-> "none", key |-> NoKey, data |-> Torn, len |-> 0,
         slot |-> 1, old |-> Absent]

Goto(t, l) == call' = [call EXCEPT ![t] = [@ EXCEPT !.pc = l]]

Init ==
    /\ entries = [s \in Slots |-> [key |-> ZeroKey, value |-> Null, len |-> 0,
                                   version |-> 0, ref |-> 0]]
    /\ used = {}
    /\ mem = [b \in Blocks |-> Torn]
    /\ lock = 1
    /\ call = [t \in Tasks |-> Idle]
    /\ pins = [t \in Tasks |-> NoKey]
    /\ answer = [t \in Tasks |-> Null]

Begin(t, c) ==
    /\ call[t].pc = "idle"
    /\ c.op \in Calls
    /\ call' = [call EXCEPT ![t] = [c EXCEPT !.pc = "take"]]
    /\ UNCHANGED <<dict, lock, pins, answer>>

BeginSet(t) ==
    \E k \in Keys, d \in Data, n \in Lens :
        Begin(t, [Idle EXCEPT !.op = "set", !.key = k, !.data = d, !.len = n])

BeginGet(t) == \E k \in Keys : Begin(t, [Idle EXCEPT !.op = "get", !.key = k])

\* A task retains one key at a time and releases what it retained.
BeginRetain(t) ==
    /\ pins[t] = NoKey
    /\ \E k \in Keys : Begin(t, [Idle EXCEPT !.op = "retain", !.key = k])

BeginRelease(t) ==
    /\ pins[t] # NoKey
    /\ Begin(t, [Idle EXCEPT !.op = "release", !.key = pins[t]])

BeginCleanup(t) == Begin(t, [Idle EXCEPT !.op = "cleanup"])

\* The first step under the semaphore, by call.
Entry(op) == CASE op = "set"     -> "find"   [] op = "get"     -> "read"
               [] op = "retain"  -> "retain" [] op = "release" -> "release"
               [] OTHER          -> "sweep"

\* os_semaphore_take(lock, 100) answers 1 when it decremented and 0 when it timed
\* out; the callers only test for "< 0", so both go on.
Take(t) ==
    /\ call[t].pc = "take"
    /\ \/ lock > 0 /\ lock' = lock - 1
       \/ lock = 0 /\ LockTimesOut /\ lock' = lock
    /\ Goto(t, Entry(call[t].op))
    /\ UNCHANGED <<dict, pins, answer>>

Give(t) ==
    /\ call[t].pc = "give"
    /\ lock' = lock + 1
    /\ call' = [call EXCEPT ![t] = Idle]
    /\ answer' = [answer EXCEPT ![t] = Null]
    /\ UNCHANGED <<dict, pins>>

(***************************************************************************)
(* obj_dict_set.                                                           *)
(***************************************************************************)
FindEntry(t) ==
    LET found == Holding(call[t].key) IN
    /\ call[t].pc = "find"
    /\ call' = [call EXCEPT ![t] =
          IF found = {} THEN [@ EXCEPT !.pc = "claim"]
          ELSE [@ EXCEPT !.pc = "trim", !.slot = First(found)]]
    /\ UNCHANGED <<dict, lock, pins, answer>>

\* A claim that leaves the counters of the slot's former key.
ClaimKeepsCounters(t) ==
    LET free == {s \in Slots : ~Live(s)} IN
    /\ call[t].pc = "claim"
    /\ IF free = {}
       THEN Goto(t, "give") /\ UNCHANGED entries
       ELSE /\ call' = [call EXCEPT ![t] = [@ EXCEPT !.pc = "trim", !.slot = First(free)]]
            /\ entries' = [entries EXCEPT ![First(free)] = [@ EXCEPT !.key = call[t].key]]
    /\ UNCHANGED <<used, mem, lock, pins, answer>>

\* A fresh slot keeps nothing of what it held before.
ClaimSlot(t) ==
    LET free == {s \in Slots : ~Live(s)} IN
    /\ call[t].pc = "claim"
    /\ IF free = {}
       THEN Goto(t, "give") /\ UNCHANGED entries
       ELSE /\ call' = [call EXCEPT ![t] = [@ EXCEPT !.pc = "trim", !.slot = First(free)]]
            /\ entries' = [entries EXCEPT ![First(free)] =
                  [@ EXCEPT !.key = call[t].key, !.version = 0, !.ref = 0]]
    /\ UNCHANGED <<used, mem, lock, pins, answer>>

\* What key k holds, as obj_dict_get would return it.
Actual(k) ==
    IF Holding(k) = {} THEN Absent
    ELSE LET e == entries[First(Holding(k))] IN
         [data |-> mem[e.value], len |-> e.len, version |-> e.version]

\* A write that takes a new block even when the length stays.
TrimAlways(t) ==
    LET c == call[t]   e == entries[c.slot]   resize == e.value # Null IN
    /\ c.pc = "trim"
    /\ IF resize
       THEN /\ used' = Freed(e.value)
            /\ mem' = [mem EXCEPT ![e.value] = Torn]
            /\ entries' = [entries EXCEPT ![c.slot] = [@ EXCEPT !.value = Null, !.len = 0]]
       ELSE UNCHANGED dict
    /\ call' = [call EXCEPT ![t] =
          [@ EXCEPT !.pc  = IF c.len = 0 THEN "stamp" ELSE "alloc",
                    !.old = IF c.len = 0 THEN Absent ELSE Actual(c.key)]]
    /\ UNCHANGED <<lock, pins, answer>>

\* A value of another length is freed, whoever still uses it; length 0 ends there.
TrimValue(t) ==
    LET c == call[t]   e == entries[c.slot]   resize == e.value # Null /\ e.len # c.len IN
    /\ c.pc = "trim"
    /\ IF resize
       THEN /\ used' = Freed(e.value)
            /\ mem' = [mem EXCEPT ![e.value] = Torn]
            /\ entries' = [entries EXCEPT ![c.slot] = [@ EXCEPT !.value = Null, !.len = 0]]
       ELSE UNCHANGED dict
    /\ call' = [call EXCEPT ![t] =
          [@ EXCEPT !.pc  = IF c.len = 0 THEN "stamp"
                            ELSE IF resize \/ e.value = Null THEN "alloc" ELSE "copy",
                    !.old = IF c.len = 0 THEN Absent ELSE Actual(c.key)]]
    /\ UNCHANGED <<lock, pins, answer>>

AllocValue(t) ==
    /\ call[t].pc = "alloc"
    /\ \E b \in Allocatable(call[t].len) :
          IF b = Null
          THEN Goto(t, "give") /\ UNCHANGED dict
          ELSE /\ used' = used \cup {b}
               /\ mem' = [mem EXCEPT ![b] = Torn]
               /\ entries' = [entries EXCEPT ![call[t].slot] = [@ EXCEPT !.value = b]]
               /\ Goto(t, "copy")
    /\ UNCHANGED <<lock, pins, answer>>

\* The memcpy, in two steps.  (A null pointer, possible only when two tasks are
\* inside, faults: the task goes no further.)
CopyBegin(t) ==
    LET b == entries[call[t].slot].value IN
    /\ call[t].pc = "copy"
    /\ b # Null
    /\ mem' = [mem EXCEPT ![b] = Torn]
    /\ Goto(t, "copying")
    /\ UNCHANGED <<entries, used, lock, pins, answer>>

CopyEnd(t) ==
    LET c == call[t]   b == entries[c.slot].value IN
    /\ c.pc = "copying"
    /\ b # Null
    /\ mem' = [mem EXCEPT ![b] = c.data]
    /\ entries' = [entries EXCEPT ![c.slot] = [@ EXCEPT !.len = c.len]]
    /\ Goto(t, "stamp")
    /\ UNCHANGED <<used, lock, pins, answer>>

StampNeverWraps(t) ==
    /\ call[t].pc = "stamp"
    /\ entries' = [entries EXCEPT ![call[t].slot].version = @ + 1]
    /\ Goto(t, "give")
    /\ UNCHANGED <<used, mem, lock, pins, answer>>

Stamp(t) ==
    /\ call[t].pc = "stamp"
    /\ entries' = [entries EXCEPT ![call[t].slot].version = Plus(@, 1)]
    /\ Goto(t, "give")
    /\ UNCHANGED <<used, mem, lock, pins, answer>>

SetStep(t) == \/ BeginSet(t)   \/ FindEntry(t) \/ ClaimSlot(t) \/ TrimValue(t)
              \/ AllocValue(t) \/ CopyBegin(t) \/ CopyEnd(t)   \/ Stamp(t)

(***************************************************************************)
(* obj_dict_get.                                                           *)
(***************************************************************************)
ReadValue(t) ==
    LET found == Holding(call[t].key)   e == entries[First(found)] IN
    /\ call[t].pc = "read"
    /\ IF found = {}
       THEN Goto(t, "give") /\ answer' = [answer EXCEPT ![t] = Absent]
       ELSE /\ call' = [call EXCEPT ![t] = [@ EXCEPT !.pc = "meta", !.slot = First(found),
                                              !.data = mem[e.value], !.len = e.len]]
            /\ UNCHANGED answer
    /\ UNCHANGED <<dict, lock, pins>>

ReadMeta(t) ==
    LET c == call[t] IN
    /\ c.pc = "meta"
    /\ answer' = [answer EXCEPT ![t] = [data |-> c.data, len |-> c.len,
                                    version |-> entries[c.slot].version]]
    /\ Goto(t, "give")
    /\ UNCHANGED <<dict, lock, pins>>

(***************************************************************************)
(* obj_dict_retain, obj_dict_release and obj_dict_cleanup_unused.          *)
(***************************************************************************)
\* A reference flag in the place of a counter.
AddRefAsFlag(s, n) ==
    entries' = [entries EXCEPT ![s].ref = IF n = 1 THEN 1 ELSE 0]

AddRef(s, n) == entries' = [entries EXCEPT ![s].ref = Plus(@, n)]

Retain(t) ==
    LET found == Holding(call[t].key) IN
    /\ call[t].pc = "retain"
    /\ IF found = {} THEN UNCHANGED <<entries, pins>>
       ELSE AddRef(First(found), 1) /\ pins' = [pins EXCEPT ![t] = call[t].key]
    /\ Goto(t, "give")
    /\ UNCHANGED <<used, mem, lock, answer>>

Release(t) ==
    LET found == Holding(call[t].key) IN
    /\ call[t].pc = "release"
    /\ IF found = {} THEN UNCHANGED entries ELSE AddRef(First(found), WordMod - 1)
    /\ pins' = [pins EXCEPT ![t] = NoKey]
    /\ Goto(t, "give")
    /\ UNCHANGED <<used, mem, lock, answer>>

SweepIgnoresRefs(t) ==
    LET s == call[t].slot   e == entries[s] IN
    /\ call[t].pc = "sweep"
    /\ \/ UNCHANGED dict
       \/ /\ Live(s)
          /\ used' = Freed(e.value)
          /\ mem' = [mem EXCEPT ![e.value] = Torn]
          /\ entries' = [entries EXCEPT ![s] = [key |-> ZeroKey, value |-> Null, len |-> 0,
                                                version |-> 0, ref |-> 0]]
    /\ call' = [call EXCEPT ![t] =
          IF s = MaxKeys THEN [@ EXCEPT !.pc = "give"] ELSE [@ EXCEPT !.slot = s + 1]]
    /\ UNCHANGED <<lock, pins, answer>>

\* One turn of the cleanup loop.  Whether the value is old enough is left open: the
\* caller chooses timeout_us and time is not modelled.
Sweep(t) ==
    LET s == call[t].slot   e == entries[s] IN
    /\ call[t].pc = "sweep"
    /\ \/ UNCHANGED dict
       \/ /\ Live(s) /\ e.ref = 0
          /\ used' = Freed(e.value)
          /\ mem' = [mem EXCEPT ![e.value] = Torn]
          /\ entries' = [entries EXCEPT ![s] = [key |-> ZeroKey, value |-> Null, len |-> 0,
                                                version |-> 0, ref |-> 0]]
    /\ call' = [call EXCEPT ![t] =
          IF s = MaxKeys THEN [@ EXCEPT !.pc = "give"] ELSE [@ EXCEPT !.slot = s + 1]]
    /\ UNCHANGED <<lock, pins, answer>>

TaskStep(t) ==
    \/ SetStep(t)     \/ Take(t)         \/ Give(t)
    \/ BeginGet(t)    \/ ReadValue(t)    \/ ReadMeta(t)
    \/ BeginRetain(t) \/ BeginRelease(t) \/ Retain(t) \/ Release(t)
    \/ BeginCleanup(t) \/ Sweep(t)

Next == \E t \in Tasks : TaskStep(t)

Spec == Init /\ [][Next]_vars

(***************************************************************************)
(* Properties.                                                             *)
(***************************************************************************)
Values == [data : Data \cup {Torn}, len : Lens \cup {0}, version : Word]

CallState == [pc : {"idle", "take", "give", "find", "claim", "trim", "alloc", "copy",
                    "copying", "stamp", "read", "meta", "retain", "release", "sweep"},
              op : AllCalls \cup {"none"}, key : Keys \cup {NoKey},
              data : Data \cup {Torn}, len : Lens \cup {0}, slot : Slots,
              old : Values \cup {Absent}]

\* Only obj_dict_cleanup_unused has no key.
KeyedCall(c) ==
    c.op \in {"set", "get", "retain"} \/ c.pc \in {"find", "claim", "retain"} => c.key \in Keys

\* Types; in particular the counters wrap within their width.
TypeOK ==
    /\ entries \in [Slots -> [key : Keys, value : Blocks \cup {Null}, len : Lens \cup {0},
                              version : Word, ref : Word]]
    /\ used \subseteq Blocks
    /\ mem \in [Blocks -> Data \cup {Torn}]
    /\ lock \in Nat
    /\ pins \in [Tasks -> Keys \cup {NoKey}]
    /\ answer \in [Tasks -> Values \cup {Absent, Null}]
    /\ call \in [Tasks -> CallState]
    /\ \A t \in Tasks : KeyedCall(call[t])

\* No key is in the array twice: between finding that a key is absent and claiming a
\* slot for it, no other call brings it in.
UniqueKeys == \A s, r \in Slots : Live(s) /\ Live(r) /\ entries[s].key = entries[r].key => s = r

Inside(t) == call[t].pc \notin {"idle", "take"}

\* What call t found out under the semaphore: that no entry holds its key, that its slot
\* is the only one to hold its key, that the slot has a value or has none.
LookupHolds(t) ==
    LET c == call[t] IN
    /\ c.pc = "claim" => Holding(c.key) = {}
    /\ c.pc \in {"trim", "alloc", "copy", "copying", "stamp", "meta"} =>
          /\ entries[c.slot].key = c.key
          /\ \A s \in Slots : Live(s) /\ entries[s].key = c.key => s = c.slot
    /\ c.pc = "alloc" => ~Live(c.slot)
    /\ c.pc \in {"copy", "copying", "meta"} => Live(c.slot)

OneInside ==
    /\ lock = IF \E t \in Tasks : Inside(t) THEN 0 ELSE 1
    /\ \A t, u \in Tasks : Inside(t) /\ Inside(u) => t = u

\* One call at a time is past the semaphore, and what it found out there stays true until
\* it gives the semaphore back.
LookupsHold == OneInside /\ \A t \in Tasks : LookupHolds(t)

Owned == {entries[s].value : s \in {r \in Slots : Live(r)}}

\* No two entries share a block, no entry points to a block that was freed, and the
\* pool has no block in use that no entry points to.
BlocksOwned ==
    /\ \A s, r \in Slots : Live(s) /\ entries[s].value = entries[r].value => s = r
    /\ Owned \subseteq used
    /\ used \cap PoolBlocks \subseteq Owned

\* Without a pool, the heap has no block that no entry points to.
NoBlockLost == used \subseteq Owned

Editing == {"alloc", "copy", "copying", "stamp"}

\* The dictionary as its callers see it: a key being written holds its former value
\* until the write is complete.
Committed == [k \in Keys |->
    IF \E t \in Tasks : call[t].pc \in Editing /\ call[t].key = k
    THEN call[CHOOSE t \in Tasks : call[t].pc \in Editing /\ call[t].key = k].old
    ELSE Actual(k)]

Store == INSTANCE KeyedStore WITH store <- Committed

\* Every obj_dict_get returns bytes, length and version of one and the same write, the
\* last one; a write is seen whole or not at all, and so is a failed one, which leaves
\* the key without a value.
IsKeyedStore == Store!Spec

\* The reference count of a live entry is the number of tasks that retain its key.
RefExact == \A s \in Slots : Live(s) =>
    entries[s].ref = Cardinality({t \in Tasks : pins[t] = entries[s].key})

\* A value that some task retains is neither freed nor moved, although writes of its
\* key and cleanups go on.
RetainedStays == [][\A t \in Tasks, s \in Slots :
    /\ pins[t] # NoKey /\ pins'[t] = pins[t]
    /\ Live(s) /\ entries[s].key = pins[t]
    => entries'[s].value = entries[s].value /\ entries'[s].key = pins[t]]_vars
================================================================================
