---------------------------- MODULE ObjDictProofs ----------------------------
(***************************************************************************)
(* Proofs about obj_dict.c for any number of tasks, keys, entries and      *)
(* blocks: TypeCorrect; DictConsistent, the lock discipline and what it    *)
(* buys; BlocksHaveOneOwner and NothingLeaks; CountsAreExact and           *)
(* RetainedIsKept; StoreIsAtomic, the refinement of KeyedStore.  All but   *)
(* the first assume that nobody holds the semaphore for longer than the    *)
(* 100 ms the callers wait for it.                                         *)
(***************************************************************************)
EXTENDS ObjDict, FiniteSetTheorems, FunctionTheorems, WellFoundedInduction, TLAPS

\* A search that finds anything finds an entry.
LEMMA FirstIn ==
    ASSUME NEW S \in SUBSET Slots, S # {}
    PROVE  First(S) \in S /\ \A r \in S : First(S) <= r
<1>1. S \subseteq Nat
  BY DictAssumption DEF Slots
<1>. DEFINE less == {ss \in Nat \X Nat : ss[1] < ss[2]}
<1>2. less = OpToRel(<, Nat)
  BY Zenon DEF OpToRel
<1>3. IsWellFoundedOn(less, Nat)
  BY <1>2, NatLessThanWellFounded, Zenon
<1>4. PICK x \in S : \A y \in S : ~ (<<y, x>> \in less)
  <2>. HIDE DEF less
  <2>. QED  BY <1>1, <1>3, WFMin, Zenon
<1>5. ASSUME NEW y \in S PROVE x <= y
  <2>1. x \in Nat /\ y \in Nat
    BY <1>1, <1>4
  <2>2. y < x => <<y, x>> \in less
    BY <2>1
  <2>3. ~ (y < x)
    BY <1>4, <2>2 DEF less
  <2>. QED  BY <2>1, <2>3
<1>. QED  BY <1>5 DEF First

-----------------------------------------------------------------------------
(***************************************************************************)
(* Type correctness.                                                       *)
(***************************************************************************)
EntryType == [key : Keys, value : Blocks \cup {Null}, len : Lens \cup {0},
              version : Word, ref : Word]

PCs == {"idle", "take", "give", "find", "claim", "trim", "alloc", "copy",
        "copying", "stamp", "read", "meta", "retain", "release", "sweep"}

\* What a found entry looks like.
LEMMA HoldingType ==
    ASSUME TypeOK, NEW k, Holding(k) # {}
    PROVE  /\ First(Holding(k)) \in Slots
           /\ entries[First(Holding(k))] \in EntryType
           /\ entries[First(Holding(k))].value \in Blocks
           /\ entries[First(Holding(k))].key = k
<1>1. First(Holding(k)) \in Holding(k)
  BY FirstIn DEF Holding
<1>. QED  BY <1>1 DEF Holding, Live, TypeOK, EntryType

\* What a key holds is a value of the store.
LEMMA ActualType ==
    ASSUME TypeOK, NEW k
    PROVE  Actual(k) \in Values \cup {Absent}
<1>1. CASE Holding(k) = {}
  BY <1>1 DEF Actual
<1>2. CASE Holding(k) # {}
  <2>. DEFINE e == entries[First(Holding(k))]
  <2>1. e \in EntryType /\ e.value \in Blocks
    BY <1>2, HoldingType
  <2>2. mem[e.value] \in Data \cup {Torn}
    BY <2>1 DEF TypeOK
  <2>3. [data |-> mem[e.value], len |-> e.len, version |-> e.version] \in Values
    BY <2>1, <2>2 DEF Values, EntryType
  <2>. QED  BY <1>2, <2>3 DEF Actual
<1>. QED  BY <1>1, <1>2

\* Freeing a block takes at most that block out of use.
LEMMA FreedType == ASSUME TypeOK, NEW b PROVE Freed(b) \subseteq used
BY DEF Freed

\* The constants the initial entries and calls are made of; counters wrap within Word.
LEMMA Constants ==
    /\ 0 \in Word /\ 1 \in Slots /\ MaxKeys \in Nat /\ ZeroKey \in Keys
    /\ \A v \in Word : Plus(v, 1) \in Word /\ Plus(v, WordMod - 1) \in Word
BY DictAssumption DEF Word, Slots, Plus

\* A call and its fields.
LEMMA CallFields ==
    ASSUME NEW c \in CallState
    PROVE  /\ \A l \in PCs : [c EXCEPT !.pc = l] \in CallState
           /\ c.pc \in PCs /\ c.op \in AllCalls \cup {"none"} /\ c.key \in Keys \cup {NoKey}
           /\ c.data \in Data \cup {Torn} /\ c.len \in Lens \cup {0} /\ c.slot \in Slots
BY DEF CallState, PCs

\* The updates the actions make to a call keep it a call.
LEMMA CallUpdates ==
    ASSUME NEW c \in CallState, NEW l \in PCs, NEW s \in Slots
    PROVE  /\ [c EXCEPT !.slot = s] \in CallState
           /\ [c EXCEPT !.pc = l, !.slot = s] \in CallState
           /\ \A o \in Values \cup {Absent} : [c EXCEPT !.pc = l, !.old = o] \in CallState
           /\ \A d \in Data \cup {Torn}, n \in Lens \cup {0} :
                 [c EXCEPT !.pc = l, !.slot = s, !.data = d, !.len = n] \in CallState
<1>1. [c EXCEPT !.slot = s] \in CallState
  BY DEF CallState
<1>2. [c EXCEPT !.pc = l, !.slot = s] \in CallState
  BY DEF CallState, PCs
<1>3. ASSUME NEW o \in Values \cup {Absent} PROVE [c EXCEPT !.pc = l, !.old = o] \in CallState
  BY ZenonT(30) DEF CallState, PCs
<1>4. ASSUME NEW d \in Data \cup {Torn}, NEW n \in Lens \cup {0}
      PROVE  [c EXCEPT !.pc = l, !.slot = s, !.data = d, !.len = n] \in CallState
  BY ZenonT(30) DEF CallState, PCs
<1>. QED  BY <1>1, <1>2, <1>3, <1>4

\* A task outside the dictionary.
LEMMA IdleType == Idle \in CallState
BY Constants DEF Idle, CallState

\* A step of one task within its call, which keeps its key and does not begin to need one.
LEMMA StepType ==
    ASSUME TypeOK, NEW t \in Tasks, NEW c \in CallState,
           call' = [call EXCEPT ![t] = c], c.op = call[t].op, c.key = call[t].key,
           c.pc \in {"find", "claim", "retain"} => call[t].key \in Keys
    PROVE  call' \in [Tasks -> CallState] /\ \A u \in Tasks : KeyedCall(call'[u])
<1>1. call' \in [Tasks -> CallState]
  BY DEF TypeOK
<1>2. KeyedCall(c)
  BY DEF TypeOK, KeyedCall
<1>3. \A u \in Tasks : call'[u] = IF u = t THEN c ELSE call[u]
  BY DEF TypeOK
<1>. QED  BY <1>1, <1>2, <1>3 DEF TypeOK

\* A step that only moves on.
LEMMA GotoType ==
    ASSUME TypeOK, NEW t \in Tasks, NEW l \in PCs \ {"find", "claim", "retain"}, Goto(t, l)
    PROVE  call' \in [Tasks -> CallState] /\ \A u \in Tasks : KeyedCall(call'[u])
<1>. DEFINE c == [call[t] EXCEPT !.pc = l]
<1>1. /\ c \in CallState /\ call' = [call EXCEPT ![t] = c]
      /\ c.op = call[t].op /\ c.key = call[t].key /\ c.pc = l
  BY CallFields DEF TypeOK, Goto, CallState
<1>. QED  BY <1>1, StepType

\* Entering a function of the dictionary.
LEMMA BeginType ==
    ASSUME TypeOK, NEW t \in Tasks, NEW c \in CallState, Begin(t, c),
           c.op \in {"set", "get", "retain"} => c.key \in Keys
    PROVE  TypeOK'
<1>. DEFINE d == [c EXCEPT !.pc = "take"]
<1>1. d \in CallState /\ KeyedCall(d) /\ call' = [call EXCEPT ![t] = d]
  <2>1. d \in CallState /\ d.pc = "take" /\ d.op = c.op /\ d.key = c.key
    <3>1. d \in CallState
      BY CallFields DEF PCs
    <3>. QED  BY <3>1 DEF CallState
  <2>. QED  BY <2>1 DEF KeyedCall, Begin
<1>2. call' \in [Tasks -> CallState]
  BY <1>1 DEF TypeOK
<1>3. \A u \in Tasks : call'[u] = IF u = t THEN d ELSE call[u]
  BY <1>1 DEF TypeOK
<1>4. \A u \in Tasks : KeyedCall(call'[u])
  BY <1>1, <1>3 DEF TypeOK
<1>. QED  BY <1>2, <1>4 DEF TypeOK, Begin, dict

Begins(t) == BeginSet(t) \/ BeginGet(t) \/ BeginRetain(t) \/ BeginRelease(t) \/ BeginCleanup(t)

\* Whichever function is called, its arguments are of their types.
LEMMA BeginsType ==
    ASSUME TypeOK, NEW t \in Tasks, Begins(t)
    PROVE  \E c \in CallState : Begin(t, c) /\ (c.op \in {"set", "get", "retain"} => c.key \in Keys)
<1>1. CASE BeginSet(t)
  <2>1. PICK k \in Keys, d \in Data, n \in Lens :
          Begin(t, [Idle EXCEPT !.op = "set", !.key = k, !.data = d, !.len = n])
    BY <1>1 DEF BeginSet
  <2>. DEFINE c == [Idle EXCEPT !.op = "set", !.key = k, !.data = d, !.len = n]
  <2>2. c \in CallState /\ c.key = k
    BY IdleType DEF CallState, AllCalls
  <2>3. Begin(t, c)
    BY <2>1
  <2>. QED  BY <2>2, <2>3
<1>2. CASE BeginGet(t) \/ BeginRetain(t)
  <2>1. PICK k \in Keys, op \in AllCalls : Begin(t, [Idle EXCEPT !.op = op, !.key = k])
    BY <1>2 DEF BeginGet, BeginRetain, AllCalls
  <2>. DEFINE c == [Idle EXCEPT !.op = op, !.key = k]
  <2>2. c \in CallState /\ c.key = k
    BY IdleType DEF CallState
  <2>3. Begin(t, c)
    BY <2>1
  <2>. QED  BY <2>2, <2>3
<1>3. CASE BeginRelease(t) \/ BeginCleanup(t)
  <2>. DEFINE c == [Idle EXCEPT !.op = "release", !.key = pins[t]]
              d == [Idle EXCEPT !.op = "cleanup"]
  <2>1. c \in CallState /\ c.op = "release"
    BY IdleType DEF CallState, AllCalls, TypeOK
  <2>2. d \in CallState /\ d.op = "cleanup"
    BY IdleType DEF CallState, AllCalls
  <2>3. Begin(t, c) \/ Begin(t, d)
    BY <1>3 DEF BeginRelease, BeginCleanup
  <2>. QED  BY <2>1, <2>2, <2>3
<1>. QED  BY <1>1, <1>2, <1>3 DEF Begins

\* Every step keeps the types.
LEMMA TypeStep == TypeOK /\ [Next]_vars => TypeOK'
<1>. SUFFICES ASSUME TypeOK, [Next]_vars PROVE TypeOK'
  OBVIOUS
<1>0. /\ entries \in [Slots -> EntryType]
      /\ \A t \in Tasks : call[t] \in CallState /\ KeyedCall(call[t])
  BY DEF TypeOK, EntryType
<1>1. CASE UNCHANGED vars
  BY <1>1 DEF vars, dict, TypeOK
<1>2. ASSUME NEW t \in Tasks, Begins(t) PROVE TypeOK'
  BY <1>2, BeginsType, BeginType
<1>5. ASSUME NEW t \in Tasks, Take(t) PROVE TypeOK'
  <2>. DEFINE l == Entry(call[t].op)   c == [call[t] EXCEPT !.pc = l]
  <2>1. l \in PCs /\ (l \in {"find", "claim", "retain"} => call[t].op \in {"set", "retain"})
    BY DEF Entry, PCs
  <2>2. /\ c \in CallState /\ c.op = call[t].op /\ c.key = call[t].key /\ c.pc = l
        /\ call' = [call EXCEPT ![t] = c]
    BY <1>0, <1>5, <2>1, CallFields DEF Take, Goto, CallState
  <2>3. l \in {"find", "claim", "retain"} => call[t].key \in Keys
    BY <1>0, <2>1 DEF KeyedCall
  <2>4. call' \in [Tasks -> CallState] /\ \A u \in Tasks : KeyedCall(call'[u])
    <3>. HIDE DEF l, c
    <3>. QED  BY <2>2, <2>3, StepType
  <2>5. lock' \in Nat
    BY <1>5 DEF Take, TypeOK
  <2>. QED  BY <1>5, <2>4, <2>5 DEF Take, TypeOK, dict
<1>6. ASSUME NEW t \in Tasks, Give(t) PROVE TypeOK'
  <2>1. call' \in [Tasks -> CallState] /\ \A u \in Tasks : KeyedCall(call'[u])
    BY <1>0, <1>6, IdleType DEF Give, TypeOK, KeyedCall, Idle
  <2>. QED  BY <1>6, <2>1 DEF Give, TypeOK, dict
<1>7. ASSUME NEW t \in Tasks, FindEntry(t) PROVE TypeOK'
  <2>. DEFINE found == Holding(call[t].key)
              c == IF found = {} THEN [call[t] EXCEPT !.pc = "claim"]
                   ELSE [call[t] EXCEPT !.pc = "trim", !.slot = First(found)]
  <2>1. call' = [call EXCEPT ![t] = c] /\ call[t].key \in Keys
    BY <1>0, <1>7 DEF FindEntry, KeyedCall
  <2>2. c \in CallState
    BY <1>0, HoldingType, CallFields, CallUpdates DEF PCs
  <2>3. c.op = call[t].op /\ c.key = call[t].key
    BY <1>0 DEF CallState
  <2>4. call' \in [Tasks -> CallState] /\ \A u \in Tasks : KeyedCall(call'[u])
    <3>. HIDE DEF c
    <3>. QED  BY <2>1, <2>2, <2>3, StepType
  <2>. QED  BY <1>7, <2>4 DEF FindEntry, TypeOK, dict
<1>8. ASSUME NEW t \in Tasks, ClaimSlot(t) PROVE TypeOK'
  <2>. DEFINE free == {s \in Slots : ~Live(s)}   s == First(free)
  <2>1. CASE free = {}
    <3>1. Goto(t, "give") /\ UNCHANGED <<entries, used, mem, lock, pins, answer>>
      BY <1>8, <2>1 DEF ClaimSlot
    <3>. QED  BY <3>1, GotoType DEF TypeOK, PCs
  <2>2. CASE free # {}
    <3>. DEFINE c == [call[t] EXCEPT !.pc = "trim", !.slot = s]
    <3>1. s \in Slots
      BY <2>2, FirstIn
    <3>2. entries' = [entries EXCEPT ![s] =
                        [entries[s] EXCEPT !.key = call[t].key, !.version = 0, !.ref = 0]]
          /\ call' = [call EXCEPT ![t] = c] /\ call[t].key \in Keys
      BY <1>0, <1>8, <2>2 DEF ClaimSlot, KeyedCall
    <3>3. [entries[s] EXCEPT !.key = call[t].key, !.version = 0, !.ref = 0] \in EntryType
      BY <1>0, <3>1, <3>2, Constants DEF EntryType
    <3>4. entries' \in [Slots -> EntryType]
      BY <1>0, <3>1, <3>2, <3>3
    <3>5. c \in CallState /\ c.op = call[t].op /\ c.key = call[t].key
      <4>1. call[t] \in CallState /\ "trim" \in PCs
        BY <1>0 DEF PCs
      <4>2. c.op = call[t].op /\ c.key = call[t].key
        BY <4>1 DEF CallState
      <4>. QED  BY <3>1, <4>1, <4>2, CallUpdates
    <3>6. call' \in [Tasks -> CallState] /\ \A u \in Tasks : KeyedCall(call'[u])
      <4>. HIDE DEF c
      <4>. QED  BY <3>2, <3>5, StepType
    <3>. QED  BY <1>8, <3>4, <3>6 DEF ClaimSlot, TypeOK, EntryType
  <2>. QED  BY <2>1, <2>2
<1>9. ASSUME NEW t \in Tasks, TrimValue(t) PROVE TypeOK'
  <2>. DEFINE e == entries[call[t].slot]
              resize == e.value # Null /\ e.len # call[t].len
              l == IF call[t].len = 0 THEN "stamp"
                   ELSE IF resize \/ e.value = Null THEN "alloc" ELSE "copy"
              o == IF call[t].len = 0 THEN Absent ELSE Actual(call[t].key)
              c == [call[t] EXCEPT !.pc = l, !.old = o]
  <2>1. call' = [call EXCEPT ![t] = c] /\ UNCHANGED <<lock, pins, answer>>
    BY <1>9 DEF TrimValue
  <2>2. l \in PCs \ {"find", "claim", "retain"} /\ o \in Values \cup {Absent}
    BY ActualType DEF PCs
  <2>3. call' \in [Tasks -> CallState] /\ \A u \in Tasks : KeyedCall(call'[u])
    <3>. HIDE DEF l, o
    <3>1. c \in CallState
      <4>1. call[t] \in CallState /\ l \in PCs /\ o \in Values \cup {Absent}
        BY <1>0, <2>2
      <4>. QED  BY <4>1, Constants, CallUpdates
    <3>2. c.op = call[t].op /\ c.key = call[t].key /\ c.pc = l
      BY <1>0 DEF CallState
    <3>. HIDE DEF c
    <3>. QED  BY <2>1, <2>2, <3>1, <3>2, StepType
  <2>4. used' \subseteq Blocks /\ mem' \in [Blocks -> Data \cup {Torn}]
        /\ entries' \in [Slots -> EntryType]
    <3>1. call[t].slot \in Slots
      BY <1>0 DEF CallState
    <3>2. CASE resize
      <4>1. /\ used' = Freed(e.value) /\ mem' = [mem EXCEPT ![e.value] = Torn]
            /\ entries' = [entries EXCEPT ![call[t].slot] = [e EXCEPT !.value = Null, !.len = 0]]
        BY <1>9, <3>2 DEF TrimValue
      <4>2. [e EXCEPT !.value = Null, !.len = 0] \in EntryType
        BY <1>0, <3>1 DEF EntryType
      <4>3. entries' \in [Slots -> EntryType]
        <5>. HIDE DEF e
        <5>. QED  BY <1>0, <3>1, <4>1, <4>2
      <4>. QED  BY <4>1, <4>3, FreedType DEF TypeOK
    <3>3. CASE ~resize
      BY <1>0, <1>9, <3>3 DEF TrimValue, dict, TypeOK
    <3>. QED  BY <3>2, <3>3
  <2>. QED  BY <2>1, <2>3, <2>4 DEF TypeOK, EntryType
<1>10. ASSUME NEW t \in Tasks, AllocValue(t) PROVE TypeOK'
  <2>1. PICK b \in Allocatable(call[t].len) :
          IF b = Null THEN Goto(t, "give") /\ UNCHANGED dict
          ELSE /\ used' = used \cup {b}
               /\ mem' = [mem EXCEPT ![b] = Torn]
               /\ entries' = [entries EXCEPT ![call[t].slot] = [@ EXCEPT !.value = b]]
               /\ Goto(t, "copy")
    BY <1>10 DEF AllocValue
  <2>2. b \in Blocks \cup {Null}
    BY DEF Allocatable, Blocks
  <2>3. call' \in [Tasks -> CallState] /\ \A u \in Tasks : KeyedCall(call'[u])
    BY <2>1, GotoType DEF PCs
  <2>4. call[t].slot \in Slots /\ entries[call[t].slot] \in EntryType
    BY <1>0 DEF CallState
  <2>5. b # Null => [entries[call[t].slot] EXCEPT !.value = b] \in EntryType
    BY <2>2, <2>4 DEF EntryType
  <2>6. used' \subseteq Blocks /\ mem' \in [Blocks -> Data \cup {Torn}]
        /\ entries' \in [Slots -> EntryType]
    BY <1>0, <2>1, <2>2, <2>4, <2>5 DEF TypeOK, dict
  <2>. QED  BY <1>10, <2>3, <2>6 DEF AllocValue, TypeOK, EntryType
<1>11. ASSUME NEW t \in Tasks, CopyBegin(t) PROVE TypeOK'
  <2>1. call' \in [Tasks -> CallState] /\ \A u \in Tasks : KeyedCall(call'[u])
    BY <1>11, GotoType DEF PCs, CopyBegin
  <2>2. mem' \in [Blocks -> Data \cup {Torn}]
    BY <1>11 DEF CopyBegin, TypeOK
  <2>. QED  BY <1>11, <2>1, <2>2 DEF CopyBegin, TypeOK
<1>12. ASSUME NEW t \in Tasks, CopyEnd(t) PROVE TypeOK'
  <2>1. call' \in [Tasks -> CallState] /\ \A u \in Tasks : KeyedCall(call'[u])
    BY <1>12, GotoType DEF PCs, CopyEnd
  <2>2. call[t].slot \in Slots /\ call[t].len \in Lens \cup {0} /\ call[t].data \in Data \cup {Torn}
    BY <1>0 DEF CallState
  <2>3. mem' \in [Blocks -> Data \cup {Torn}]
    BY <1>12, <2>2 DEF CopyEnd, TypeOK
  <2>4. [entries[call[t].slot] EXCEPT !.len = call[t].len] \in EntryType
    BY <1>0, <2>2 DEF EntryType
  <2>5. entries' \in [Slots -> EntryType]
    BY <1>0, <1>12, <2>2, <2>4 DEF CopyEnd
  <2>. QED  BY <1>12, <2>1, <2>3, <2>5 DEF CopyEnd, TypeOK, EntryType
<1>13. ASSUME NEW t \in Tasks, Stamp(t) PROVE TypeOK'
  <2>1. call' \in [Tasks -> CallState] /\ \A u \in Tasks : KeyedCall(call'[u])
    BY <1>13, GotoType DEF PCs, Stamp
  <2>2. call[t].slot \in Slots
    BY <1>0 DEF CallState
  <2>. DEFINE e == entries[call[t].slot]
  <2>3. [e EXCEPT !.version = Plus(e.version, 1)] \in EntryType
    <3>1. e \in EntryType /\ e.version \in Word
      BY <1>0, <2>2 DEF EntryType
    <3>2. Plus(e.version, 1) \in Word
      BY <3>1, Constants
    <3>. QED  BY <3>1, <3>2 DEF EntryType
  <2>4. entries' = [entries EXCEPT ![call[t].slot] =
                       [e EXCEPT !.version = Plus(e.version, 1)]]
    BY <1>13 DEF Stamp
  <2>5. entries' \in [Slots -> EntryType]
    <3>. HIDE DEF e
    <3>. QED  BY <1>0, <2>2, <2>3, <2>4
  <2>. QED  BY <1>13, <2>1, <2>5 DEF Stamp, TypeOK, EntryType
<1>14. ASSUME NEW t \in Tasks, ReadValue(t) PROVE TypeOK'
  <2>. DEFINE found == Holding(call[t].key)   e == entries[First(found)]
  <2>1. CASE found = {}
    <3>1. call' \in [Tasks -> CallState] /\ \A u \in Tasks : KeyedCall(call'[u])
      BY <1>14, <2>1, GotoType DEF PCs, ReadValue
    <3>. QED  BY <1>14, <2>1, <3>1 DEF ReadValue, TypeOK, dict
  <2>2. CASE found # {}
    <3>. DEFINE c == [call[t] EXCEPT !.pc = "meta", !.slot = First(found),
                                     !.data = mem[e.value], !.len = e.len]
    <3>1. First(found) \in Slots /\ e \in EntryType /\ e.value \in Blocks
      BY <2>2, HoldingType
    <3>2. mem[e.value] \in Data \cup {Torn} /\ e.len \in Lens \cup {0}
      BY <3>1 DEF TypeOK, EntryType
    <3>3. c \in CallState
      <4>1. call[t] \in CallState /\ "meta" \in PCs
        BY <1>0 DEF PCs
      <4>. HIDE DEF e, found
      <4>. QED  BY <3>1, <3>2, <4>1, CallUpdates
    <3>4. c.op = call[t].op /\ c.key = call[t].key /\ c.pc = "meta"
      BY <1>0 DEF CallState
    <3>5. call' = [call EXCEPT ![t] = c] /\ UNCHANGED <<entries, used, mem, lock, pins, answer>>
      BY <1>14, <2>2 DEF ReadValue, dict
    <3>6. call' \in [Tasks -> CallState] /\ \A u \in Tasks : KeyedCall(call'[u])
      <4>. HIDE DEF c
      <4>. QED  BY <3>3, <3>4, <3>5, StepType
    <3>. QED  BY <3>5, <3>6 DEF TypeOK
  <2>. QED  BY <2>1, <2>2
<1>15. ASSUME NEW t \in Tasks, ReadMeta(t) PROVE TypeOK'
  <2>1. call' \in [Tasks -> CallState] /\ \A u \in Tasks : KeyedCall(call'[u])
    BY <1>15, GotoType DEF PCs, ReadMeta
  <2>. DEFINE v == [data |-> call[t].data, len |-> call[t].len,
                    version |-> entries[call[t].slot].version]
  <2>2. v \in Values
    <3>1. /\ call[t].slot \in Slots /\ call[t].len \in Lens \cup {0}
          /\ call[t].data \in Data \cup {Torn}
      BY <1>0 DEF CallState
    <3>2. entries[call[t].slot].version \in Word
      BY <1>0, <3>1 DEF EntryType
    <3>. QED  BY <3>1, <3>2 DEF Values
  <2>3. answer' \in [Tasks -> Values \cup {Absent, Null}]
    <3>1. answer' = [answer EXCEPT ![t] = v]
      BY <1>15 DEF ReadMeta
    <3>. HIDE DEF v
    <3>. QED  BY <2>2, <3>1 DEF TypeOK
  <2>. QED  BY <1>15, <2>1, <2>3 DEF ReadMeta, TypeOK, dict
<1>16. ASSUME NEW k, Holding(k) # {}, NEW n \in {1, WordMod - 1}, AddRef(First(Holding(k)), n)
       PROVE  entries' \in [Slots -> EntryType]
  <2>. DEFINE s == First(Holding(k))   e == entries[s]
  <2>1. s \in Slots /\ e \in EntryType /\ e.ref \in Word
    BY <1>16, HoldingType DEF EntryType
  <2>2. Plus(e.ref, n) \in Word
    BY <2>1, Constants
  <2>3. [e EXCEPT !.ref = Plus(e.ref, n)] \in EntryType
    BY <2>1, <2>2 DEF EntryType
  <2>4. entries' = [entries EXCEPT ![s] = [e EXCEPT !.ref = Plus(e.ref, n)]]
    BY <1>16 DEF AddRef
  <2>. HIDE DEF e
  <2>. QED  BY <1>0, <2>1, <2>3, <2>4
<1>17. ASSUME NEW t \in Tasks, Retain(t) PROVE TypeOK'
  <2>1. call' \in [Tasks -> CallState] /\ \A u \in Tasks : KeyedCall(call'[u])
    BY <1>17, GotoType DEF PCs, Retain
  <2>2. entries' \in [Slots -> EntryType]
    BY <1>0, <1>16, <1>17 DEF Retain
  <2>3. pins' \in [Tasks -> Keys \cup {NoKey}]
    BY <1>0, <1>17 DEF Retain, TypeOK, KeyedCall
  <2>. QED  BY <1>17, <2>1, <2>2, <2>3 DEF Retain, TypeOK, EntryType
<1>18. ASSUME NEW t \in Tasks, Release(t) PROVE TypeOK'
  <2>1. call' \in [Tasks -> CallState] /\ \A u \in Tasks : KeyedCall(call'[u])
    BY <1>18, GotoType DEF PCs, Release
  <2>2. entries' \in [Slots -> EntryType]
    BY <1>0, <1>16, <1>18 DEF Release
  <2>3. pins' \in [Tasks -> Keys \cup {NoKey}]
    BY <1>18 DEF Release, TypeOK
  <2>. QED  BY <1>18, <2>1, <2>2, <2>3 DEF Release, TypeOK, EntryType
<1>19. ASSUME NEW t \in Tasks, Sweep(t) PROVE TypeOK'
  <2>. DEFINE s == call[t].slot
              c == IF s = MaxKeys THEN [call[t] EXCEPT !.pc = "give"]
                   ELSE [call[t] EXCEPT !.slot = s + 1]
  <2>1. s \in Slots /\ (s # MaxKeys => s + 1 \in Slots) /\ call[t].pc = "sweep"
    BY <1>0, <1>19, Constants DEF CallState, Slots, Sweep
  <2>2. c \in CallState
    <3>1. "give" \in PCs
      BY DEF PCs
    <3>. HIDE DEF s
    <3>. QED  BY <1>0, <2>1, <3>1, CallFields, CallUpdates
  <2>3. /\ call' = [call EXCEPT ![t] = c] /\ c.op = call[t].op /\ c.key = call[t].key
        /\ c.pc \in {"give", "sweep"}
    BY <1>0, <1>19 DEF Sweep, CallState
  <2>4. call' \in [Tasks -> CallState] /\ \A u \in Tasks : KeyedCall(call'[u])
    <3>. HIDE DEF c
    <3>. QED  BY <2>2, <2>3, StepType
  <2>. DEFINE empty == [key |-> ZeroKey, value |-> Null, len |-> 0, version |-> 0, ref |-> 0]
  <2>5. empty \in EntryType
    BY Constants DEF EntryType
  <2>6. \/ UNCHANGED <<entries, used, mem>>
        \/ /\ used' = Freed(entries[s].value)
           /\ mem' = [mem EXCEPT ![entries[s].value] = Torn]
           /\ entries' = [entries EXCEPT ![s] = empty]
    BY <1>19 DEF Sweep, dict
  <2>7. used' \subseteq Blocks /\ mem' \in [Blocks -> Data \cup {Torn}]
        /\ entries' \in [Slots -> EntryType]
    <3>. HIDE DEF empty
    <3>. QED  BY <1>0, <2>1, <2>5, <2>6, FreedType DEF TypeOK
  <2>. QED  BY <1>19, <2>4, <2>7 DEF Sweep, TypeOK, EntryType
<1>. QED  BY <1>1, <1>2, <1>5, <1>6, <1>7, <1>8, <1>9, <1>10, <1>11, <1>12, <1>13,
             <1>14, <1>15, <1>17, <1>18, <1>19 DEF Next, TaskStep, SetStep, Begins

\* A dictionary begins well typed.
LEMMA TypeInit == Init => TypeOK
BY Constants, IdleType DEF Init, TypeOK, EntryType, KeyedCall, Idle

\* Every behaviour, with or without timeouts of the semaphore, keeps its types.
THEOREM TypeCorrect == Spec => []TypeOK
<1>1. Init => TypeOK
  BY TypeInit
<1>2. TypeOK /\ [Next]_vars => TypeOK'
  BY TypeStep
<1>. QED  BY <1>1, <1>2, PTL DEF Spec

-----------------------------------------------------------------------------
(***************************************************************************)
(* Mutual exclusion, and what it is for.  The inductive invariant is       *)
(* DictInv: without LookupsHold a claim could bring in a key that another  *)
(* call has just brought in, without UniqueKeys a lookup could find one of *)
(* two slots of a key.                                                     *)
(***************************************************************************)
DictInv == TypeOK /\ LookupsHold /\ UniqueKeys

\* A step of the call inside leaves every other call where it was: outside.
LEMMA InsideStep ==
    ASSUME TypeOK, LookupsHold, NEW t \in Tasks, Inside(t),
           \A u \in Tasks \ {t} : call'[u] = call[u],
           call'[t].pc \notin {"idle", "take"}, lock' = lock, LookupHolds(t)'
    PROVE  LookupsHold'
<1>1. \A u \in Tasks \ {t} : ~Inside(u) /\ ~Inside(u)'
  BY DEF LookupsHold, OneInside, Inside
<1>2. Inside(t)' /\ lock' = 0
  BY DEF LookupsHold, OneInside, Inside
<1>3. OneInside'
  BY <1>1, <1>2 DEF OneInside
<1>4. \A u \in Tasks \ {t} : LookupHolds(u)'
  BY <1>1 DEF LookupHolds, Inside
<1>. QED  BY <1>3, <1>4 DEF LookupsHold

\* A call outside the semaphore has found out nothing yet.
LEMMA OutsideHolds ==
    ASSUME NEW t \in Tasks, call[t].pc \in {"idle", "take", "find", "read", "retain", "release",
                                            "sweep", "give"}
    PROVE  LookupHolds(t)
BY DEF LookupHolds

\* Lookups and uniqueness depend on nothing but the keys and the value pointers.
LEMMA SameEntries ==
    ASSUME TypeOK, UniqueKeys,
           \A s \in Slots : entries'[s].key = entries[s].key /\ entries'[s].value = entries[s].value
    PROVE  /\ UniqueKeys'
           /\ \A s \in Slots : Live(s)' <=> Live(s)
           /\ \A k : Holding(k)' = Holding(k)
BY DEF UniqueKeys, Live, Holding

\* Dropping values keeps the keys of the remaining ones unique.
LEMMA FewerEntries ==
    ASSUME TypeOK, UniqueKeys,
           \A s \in Slots : Live(s)' => Live(s) /\ entries'[s].key = entries[s].key
    PROVE  UniqueKeys'
BY DEF UniqueKeys

\* The call inside moves on; it may have dropped a value, but brought in none.
LEMMA MovesOn ==
    ASSUME TypeOK, LookupsHold, UniqueKeys, NEW t \in Tasks, NEW c \in CallState, Inside(t),
           call' = [call EXCEPT ![t] = c], UNCHANGED lock,
           \A s \in Slots : Live(s)' => Live(s) /\ entries'[s].key = entries[s].key,
           c.pc \notin {"idle", "take"}, LookupHolds(t)'
    PROVE  (LookupsHold /\ UniqueKeys)'
<1>1. call'[t] = c /\ \A u \in Tasks \ {t} : call'[u] = call[u]
  BY DEF TypeOK
<1>. QED  BY <1>1, FewerEntries, InsideStep

\* ... and goes to a place where it claims nothing about them.
LEMMA GoesTo ==
    ASSUME TypeOK, LookupsHold, UniqueKeys, NEW t \in Tasks, Inside(t),
           NEW l \in {"find", "read", "retain", "release", "sweep", "give"}, Goto(t, l),
           UNCHANGED lock,
           \A s \in Slots : entries'[s].key = entries[s].key /\ entries'[s].value = entries[s].value
    PROVE  (LookupsHold /\ UniqueKeys)'
<1>. DEFINE c == [call[t] EXCEPT !.pc = l]
<1>1. c \in CallState /\ c.pc = l
  <2>1. call[t] \in CallState /\ l \in PCs
    BY DEF TypeOK, PCs
  <2>2. c \in CallState
    BY <2>1, CallFields
  <2>. QED  BY <2>1, <2>2 DEF CallState
<1>2. call' = [call EXCEPT ![t] = c] /\ call'[t].pc = l
  BY <1>1 DEF Goto, TypeOK
<1>3. LookupHolds(t)'
  BY <1>2 DEF LookupHolds
<1>. QED  BY <1>1, <1>2, <1>3, SameEntries, MovesOn

\* Every step keeps the lookups of the call under the semaphore true.
LEMMA DictStep ==
    ASSUME ~LockTimesOut
    PROVE  DictInv /\ TypeOK' /\ [Next]_vars => DictInv'
<1>. SUFFICES ASSUME TypeOK, LookupsHold, UniqueKeys, [Next]_vars
              PROVE  (LookupsHold /\ UniqueKeys)'
  BY DEF DictInv
<1>0. /\ entries \in [Slots -> EntryType]
      /\ \A t \in Tasks : call[t] \in CallState
      /\ call \in [Tasks -> CallState]
  BY DEF TypeOK, EntryType
<1>1. CASE UNCHANGED vars
  <2>1. UNCHANGED <<entries, lock, call>>
    BY <1>1 DEF vars, dict
  <2>. QED  BY <2>1 DEF LookupsHold, OneInside, Inside, LookupHolds, Holding, Live, UniqueKeys
<1>2. ASSUME NEW t \in Tasks, Begins(t) PROVE (LookupsHold /\ UniqueKeys)'
  <2>1. PICK c \in CallState : Begin(t, c)
    BY <1>2, BeginsType
  <2>2. /\ UNCHANGED <<entries, lock>> /\ ~Inside(t)
        /\ call' = [call EXCEPT ![t] = [c EXCEPT !.pc = "take"]]
    BY <2>1 DEF Begin, dict, Inside
  <2>3. call'[t].pc = "take" /\ \A u \in Tasks \ {t} : call'[u] = call[u]
    BY <1>0, <2>2 DEF CallState
  <2>4. \A u \in Tasks : Inside(u)' <=> Inside(u)
    BY <2>2, <2>3 DEF Inside
  <2>5. OneInside'
    BY <2>2, <2>4 DEF LookupsHold, OneInside
  <2>6. \A u \in Tasks : LookupHolds(u)'
    BY <2>2, <2>3 DEF LookupsHold, LookupHolds, Holding, Live
  <2>7. UniqueKeys'
    BY <2>2, SameEntries
  <2>. QED  BY <2>5, <2>6, <2>7 DEF LookupsHold
<1>3. ASSUME NEW t \in Tasks, Take(t) PROVE (LookupsHold /\ UniqueKeys)'
  <2>. DEFINE l == Entry(call[t].op)
  <2>1. l \in {"find", "read", "retain", "release", "sweep"}
    BY DEF Entry
  <2>2. /\ call' = [call EXCEPT ![t] = [call[t] EXCEPT !.pc = l]] /\ UNCHANGED entries
        /\ lock = 1 /\ lock' = 0
    BY <1>3 DEF Take, Goto, dict, LookupsHold, OneInside
  <2>3. call'[t].pc = l /\ \A u \in Tasks \ {t} : call'[u] = call[u]
    BY <1>0, <2>2 DEF CallState
  <2>4. Inside(t)' /\ \A u \in Tasks \ {t} : ~Inside(u)'
    BY <2>1, <2>2, <2>3 DEF LookupsHold, OneInside, Inside
  <2>5. OneInside'
    BY <2>2, <2>4 DEF OneInside
  <2>6. \A u \in Tasks : LookupHolds(u)'
    BY <2>1, <2>2, <2>3 DEF LookupsHold, LookupHolds, Holding, Live
  <2>7. UniqueKeys'
    BY <2>2, SameEntries
  <2>. QED  BY <2>5, <2>6, <2>7 DEF LookupsHold
<1>4. ASSUME NEW t \in Tasks, Give(t) PROVE (LookupsHold /\ UniqueKeys)'
  <2>1. call' = [call EXCEPT ![t] = Idle] /\ UNCHANGED entries /\ lock' = lock + 1 /\ Inside(t)
    BY <1>4 DEF Give, dict, Inside
  <2>2. call'[t].pc = "idle" /\ \A u \in Tasks \ {t} : call'[u] = call[u]
    BY <1>0, <2>1 DEF Idle
  <2>3. lock = 0 /\ \A u \in Tasks : ~Inside(u)'
    BY <2>1, <2>2 DEF LookupsHold, OneInside, Inside
  <2>4. OneInside'
    BY <2>1, <2>3 DEF OneInside
  <2>5. \A u \in Tasks : LookupHolds(u)'
    BY <2>1, <2>2 DEF LookupsHold, LookupHolds, Holding, Live
  <2>6. UniqueKeys'
    BY <2>1, SameEntries
  <2>. QED  BY <2>4, <2>5, <2>6 DEF LookupsHold
<1>5. ASSUME NEW t \in Tasks, FindEntry(t) PROVE (LookupsHold /\ UniqueKeys)'
  <2>. DEFINE found == Holding(call[t].key)
              c == IF found = {} THEN [call[t] EXCEPT !.pc = "claim"]
                   ELSE [call[t] EXCEPT !.pc = "trim", !.slot = First(found)]
  <2>1. call' = [call EXCEPT ![t] = c] /\ UNCHANGED <<entries, lock>> /\ Inside(t)
    BY <1>5 DEF FindEntry, dict, Inside
  <2>2. call[t] \in CallState /\ "claim" \in PCs /\ "trim" \in PCs
    BY <1>0 DEF PCs
  <2>3. CASE found = {}
    <3>1. c \in CallState /\ c.pc = "claim" /\ c.key = call[t].key
      BY <2>2, <2>3, CallFields DEF CallState
    <3>2. LookupHolds(t)'
      BY <1>0, <2>1, <2>3, <3>1 DEF LookupHolds, Holding, Live
    <3>. HIDE DEF c
    <3>. QED  BY <2>1, <3>1, <3>2, MovesOn DEF Live
  <2>4. CASE found # {}
    <3>1. First(found) \in Slots /\ entries[First(found)].key = call[t].key /\ Live(First(found))
      BY <2>4, HoldingType, DictAssumption DEF Live
    <3>2. c \in CallState
      BY <2>2, <2>4, <3>1, CallUpdates
    <3>3. c.pc = "trim" /\ c.key = call[t].key /\ c.slot = First(found)
      BY <2>2, <2>4 DEF CallState
    <3>4. LookupHolds(t)'
      <4>1. \A s \in Slots : Live(s) /\ entries[s].key = call[t].key => s = First(found)
        BY <3>1 DEF UniqueKeys
      <4>2. call'[t] = c
        BY <1>0, <2>1
      <4>. HIDE DEF c, found
      <4>. QED  BY <2>1, <3>1, <3>3, <4>1, <4>2 DEF LookupHolds, Live
    <3>. HIDE DEF c
    <3>. QED  BY <2>1, <3>2, <3>3, <3>4, MovesOn DEF Live
  <2>. QED  BY <2>3, <2>4
<1>6. ASSUME NEW t \in Tasks, ClaimSlot(t) PROVE (LookupsHold /\ UniqueKeys)'
  <2>. DEFINE free == {s \in Slots : ~Live(s)}   s == First(free)
  <2>0. Inside(t) /\ UNCHANGED lock /\ call[t].pc = "claim"
    BY <1>6 DEF ClaimSlot, Inside
  <2>1. CASE free = {}
    <3>1. Goto(t, "give") /\ UNCHANGED entries
      BY <1>6, <2>1 DEF ClaimSlot
    <3>. QED  BY <2>0, <3>1, GoesTo
  <2>2. CASE free # {}
    <3>. DEFINE c == [call[t] EXCEPT !.pc = "trim", !.slot = s]
    <3>1. s \in Slots /\ ~Live(s)
      <4>1. s \in free
        BY <2>2, FirstIn
      <4>. QED  BY <4>1
    <3>2. entries' = [entries EXCEPT ![s] =
                        [entries[s] EXCEPT !.key = call[t].key, !.version = 0, !.ref = 0]]
          /\ call' = [call EXCEPT ![t] = c]
      BY <1>6, <2>2 DEF ClaimSlot
    <3>3. /\ entries'[s].key = call[t].key /\ entries'[s].value = entries[s].value
          /\ \A r \in Slots \ {s} : entries'[r] = entries[r]
      BY <1>0, <3>1, <3>2 DEF EntryType
    <3>4. c \in CallState /\ c.pc = "trim" /\ c.key = call[t].key /\ c.slot = s
      <4>1. call[t] \in CallState /\ "trim" \in PCs
        BY <1>0 DEF PCs
      <4>2. c \in CallState
        BY <3>1, <4>1, CallUpdates
      <4>. QED  BY <4>1, <4>2 DEF CallState
    <3>5. \A r \in Slots : Live(r)' => Live(r) /\ r # s /\ entries'[r].key = entries[r].key
      <4>. HIDE DEF s
      <4>. QED  BY <3>1, <3>3 DEF Live
    <3>6. LookupHolds(t)'
      <4>1. \A r \in Slots : Live(r) => entries[r].key # call[t].key
        BY <2>0 DEF LookupsHold, LookupHolds, Holding
      <4>2. call'[t] = c
        BY <1>0, <3>2
      <4>. HIDE DEF c, s
      <4>. QED  BY <3>1, <3>3, <3>4, <3>5, <4>1, <4>2 DEF LookupHolds
    <3>. HIDE DEF c
    <3>. QED  BY <2>0, <3>2, <3>4, <3>5, <3>6, MovesOn
  <2>. QED  BY <2>1, <2>2
<1>7. ASSUME NEW t \in Tasks, TrimValue(t) PROVE (LookupsHold /\ UniqueKeys)'
  <2>. DEFINE x == call[t].slot
              e == entries[x]
              resize == e.value # Null /\ e.len # call[t].len
              l == IF call[t].len = 0 THEN "stamp"
                   ELSE IF resize \/ e.value = Null THEN "alloc" ELSE "copy"
              o == IF call[t].len = 0 THEN Absent ELSE Actual(call[t].key)
              c == [call[t] EXCEPT !.pc = l, !.old = o]
  <2>1. /\ call' = [call EXCEPT ![t] = c] /\ UNCHANGED lock /\ Inside(t) /\ call[t].pc = "trim"
        /\ resize => entries' = [entries EXCEPT ![x] = [e EXCEPT !.value = Null, !.len = 0]]
        /\ ~resize => entries' = entries
    BY <1>7 DEF TrimValue, Inside, dict
  <2>2. c \in CallState
    <3>1. call[t] \in CallState /\ l \in PCs /\ o \in Values \cup {Absent}
      BY <1>0, ActualType DEF PCs
    <3>. HIDE DEF l, o
    <3>. QED  BY <3>1, Constants, CallUpdates
  <2>3. c.pc = l /\ c.key = call[t].key /\ c.slot = x /\ x \in Slots
    BY <1>0 DEF CallState
  <2>4. e.key = call[t].key /\ \A s \in Slots : Live(s) /\ entries[s].key = call[t].key => s = x
    BY <2>1 DEF LookupsHold, LookupHolds
  <2>5. /\ entries'[x].key = e.key
        /\ entries'[x].value = IF resize THEN Null ELSE e.value
        /\ \A s \in Slots \ {x} : entries'[s] = entries[s]
    BY <1>0, <2>1, <2>3, ZenonT(30) DEF EntryType
  <2>6. \A s \in Slots : Live(s)' => Live(s) /\ entries'[s].key = entries[s].key
    BY <2>5 DEF Live
  <2>7. LookupHolds(t)'
    <3>1. l = "alloc" => entries'[x].value = Null
      BY <2>5
    <3>2. l = "copy" => entries'[x].value # Null
      BY <2>5
    <3>3. l \in {"stamp", "alloc", "copy"} /\ call'[t] = c
      BY <1>0, <2>1
    <3>. HIDE DEF c, l, resize
    <3>. QED  BY <2>3, <2>4, <2>5, <2>6, <3>1, <3>2, <3>3 DEF LookupHolds, Live
  <2>8. c.pc \notin {"idle", "take"}
    BY <2>3
  <2>. HIDE DEF c
  <2>. QED  BY <2>1, <2>2, <2>6, <2>7, <2>8, MovesOn
<1>8. ASSUME NEW t \in Tasks, AllocValue(t) PROVE (LookupsHold /\ UniqueKeys)'
  <2>. DEFINE x == call[t].slot
  <2>1. PICK b \in Allocatable(call[t].len) :
          IF b = Null THEN Goto(t, "give") /\ UNCHANGED dict
          ELSE /\ entries' = [entries EXCEPT ![x] = [entries[x] EXCEPT !.value = b]]
               /\ Goto(t, "copy")
    BY <1>8 DEF AllocValue
  <2>2. Inside(t) /\ UNCHANGED lock /\ call[t].pc = "alloc"
    BY <1>8 DEF AllocValue, Inside
  <2>3. CASE b = Null
    BY <2>1, <2>2, <2>3, GoesTo DEF dict
  <2>4. CASE b # Null
    <3>. DEFINE c == [call[t] EXCEPT !.pc = "copy"]
    <3>1. c.pc = "copy" /\ c.key = call[t].key /\ c.slot = x /\ x \in Slots
      BY <1>0 DEF CallState
    <3>2. /\ call'[t] = c /\ \A u \in Tasks \ {t} : call'[u] = call[u]
          /\ entries' = [entries EXCEPT ![x] = [entries[x] EXCEPT !.value = b]]
      BY <1>0, <2>1, <2>4 DEF Goto
    <3>3. /\ entries'[x].key = entries[x].key /\ entries'[x].value = b
          /\ \A s \in Slots \ {x} : entries'[s] = entries[s]
      BY <1>0, <3>1, <3>2 DEF EntryType
    <3>4. /\ entries[x].key = call[t].key
          /\ \A s \in Slots : Live(s) /\ entries[s].key = call[t].key => s = x
      BY <2>2 DEF LookupsHold, LookupHolds
    <3>5. entries'[x].value # Null /\ \A s \in Slots \ {x} : Live(s)' <=> Live(s)
      BY <2>4, <3>3 DEF Live
    <3>6. UniqueKeys'
      BY <3>3, <3>4, <3>5 DEF UniqueKeys, Live
    <3>7. LookupHolds(t)'
      <4>. HIDE DEF c
      <4>. QED  BY <3>1, <3>2, <3>3, <3>4, <3>5 DEF LookupHolds, Live
    <3>. HIDE DEF c
    <3>. QED  BY <2>2, <3>1, <3>2, <3>6, <3>7, InsideStep
  <2>. QED  BY <2>3, <2>4
<1>9. ASSUME NEW t \in Tasks, CopyBegin(t) \/ CopyEnd(t) PROVE (LookupsHold /\ UniqueKeys)'
  <2>. DEFINE x == call[t].slot
              l == IF CopyBegin(t) THEN "copying" ELSE "stamp"
              c == [call[t] EXCEPT !.pc = l]
  <2>1. /\ call' = [call EXCEPT ![t] = c] /\ UNCHANGED lock /\ Inside(t)
        /\ call[t].pc \in {"copy", "copying"}
        /\ \/ entries' = entries
           \/ entries' = [entries EXCEPT ![x] = [entries[x] EXCEPT !.len = call[t].len]]
    BY <1>9 DEF CopyBegin, CopyEnd, Goto, Inside
  <2>2. c \in CallState
    <3>1. call[t] \in CallState /\ l \in PCs
      BY <1>0 DEF PCs
    <3>. HIDE DEF l
    <3>. QED  BY <3>1, CallFields
  <2>3. c.pc = l /\ c.key = call[t].key /\ c.slot = x /\ x \in Slots
    BY <1>0 DEF CallState
  <2>4. \A s \in Slots : entries'[s].key = entries[s].key /\ entries'[s].value = entries[s].value
    BY <1>0, <2>1, <2>3 DEF EntryType
  <2>5. \A s \in Slots : Live(s)' <=> Live(s)
    BY <2>4 DEF Live
  <2>6. LookupHolds(t)'
    <3>1. /\ entries[x].key = call[t].key /\ Live(x)
          /\ \A s \in Slots : Live(s) /\ entries[s].key = call[t].key => s = x
      BY <2>1 DEF LookupsHold, LookupHolds
    <3>2. l \in {"copying", "stamp"} /\ call'[t] = c
      BY <1>0, <2>1
    <3>. HIDE DEF c, l
    <3>. QED  BY <2>3, <2>4, <2>5, <3>1, <3>2 DEF LookupHolds
  <2>7. c.pc \notin {"idle", "take"}
    BY <2>3
  <2>. HIDE DEF c
  <2>. QED  BY <2>1, <2>2, <2>4, <2>5, <2>6, <2>7, MovesOn
<1>10. ASSUME NEW t \in Tasks, Stamp(t) PROVE (LookupsHold /\ UniqueKeys)'
  <2>1. /\ Goto(t, "give") /\ UNCHANGED lock /\ Inside(t)
        /\ entries' = [entries EXCEPT ![call[t].slot] =
                          [entries[call[t].slot] EXCEPT
                              !.version = Plus(entries[call[t].slot].version, 1)]]
    BY <1>10 DEF Stamp, Inside
  <2>2. \A s \in Slots : entries'[s].key = entries[s].key /\ entries'[s].value = entries[s].value
    BY <1>0, <2>1 DEF EntryType
  <2>. QED  BY <2>1, <2>2, GoesTo
<1>11. ASSUME NEW t \in Tasks, ReadValue(t) PROVE (LookupsHold /\ UniqueKeys)'
  <2>. DEFINE found == Holding(call[t].key)   x == First(found)   e == entries[x]
              c == [call[t] EXCEPT !.pc = "meta", !.slot = x,
                                   !.data = mem[e.value], !.len = e.len]
  <2>1. UNCHANGED <<entries, lock>> /\ Inside(t)
    BY <1>11 DEF ReadValue, dict, Inside
  <2>2. CASE found = {}
    <3>1. Goto(t, "give")
      BY <1>11, <2>2 DEF ReadValue
    <3>. QED  BY <2>1, <3>1, GoesTo
  <2>3. CASE found # {}
    <3>1. x \in Slots /\ e.key = call[t].key /\ Live(x) /\ e \in EntryType /\ e.value \in Blocks
      BY <2>3, HoldingType, DictAssumption DEF Live
    <3>2. c \in CallState
      <4>1. call[t] \in CallState /\ "meta" \in PCs
        BY <1>0 DEF PCs
      <4>2. mem[e.value] \in Data \cup {Torn} /\ e.len \in Lens \cup {0}
        BY <3>1 DEF TypeOK, EntryType
      <4>. HIDE DEF x, e
      <4>. QED  BY <3>1, <4>1, <4>2, CallUpdates
    <3>3. c.pc = "meta" /\ c.key = call[t].key /\ c.slot = x
      BY <1>0 DEF CallState
    <3>4. call' = [call EXCEPT ![t] = c] /\ call'[t] = c
      BY <1>0, <1>11, <2>3 DEF ReadValue
    <3>5. \A s \in Slots : Live(s) /\ entries[s].key = call[t].key => s = x
      BY <3>1 DEF UniqueKeys
    <3>6. LookupHolds(t)'
      <4>. HIDE DEF c, x
      <4>. QED  BY <2>1, <3>1, <3>3, <3>4, <3>5 DEF LookupHolds, Live
    <3>. HIDE DEF c
    <3>. QED  BY <2>1, <3>2, <3>3, <3>4, <3>6, MovesOn DEF Live
  <2>. QED  BY <2>2, <2>3
<1>12. ASSUME NEW t \in Tasks, ReadMeta(t) PROVE (LookupsHold /\ UniqueKeys)'
  BY <1>12, GoesTo DEF ReadMeta, dict, Inside
<1>13. ASSUME NEW t \in Tasks, Retain(t) \/ Release(t) PROVE (LookupsHold /\ UniqueKeys)'
  <2>. DEFINE x == First(Holding(call[t].key))
  <2>1. Goto(t, "give") /\ UNCHANGED lock /\ Inside(t)
    BY <1>13 DEF Retain, Release, Inside
  <2>2. entries' = entries \/ \E n : entries' = [entries EXCEPT ![x] = [entries[x] EXCEPT !.ref = n]]
    BY <1>13 DEF Retain, Release, AddRef
  <2>3. \A s \in Slots : entries'[s].key = entries[s].key /\ entries'[s].value = entries[s].value
    <3>. HIDE DEF x
    <3>. QED  BY <1>0, <2>2 DEF EntryType
  <2>. QED  BY <2>1, <2>3, GoesTo
<1>14. ASSUME NEW t \in Tasks, Sweep(t) PROVE (LookupsHold /\ UniqueKeys)'
  <2>. DEFINE x == call[t].slot
              c == IF x = MaxKeys THEN [call[t] EXCEPT !.pc = "give"]
                   ELSE [call[t] EXCEPT !.slot = x + 1]
  <2>1. /\ call' = [call EXCEPT ![t] = c] /\ UNCHANGED lock /\ Inside(t)
        /\ x \in Slots /\ (x # MaxKeys => x + 1 \in Slots) /\ call[t].pc = "sweep"
    BY <1>0, <1>14, Constants DEF CallState, Slots, Sweep, Inside
  <2>2. c \in CallState /\ c.pc \in {"give", "sweep"}
    <3>1. "give" \in PCs /\ call[t] \in CallState
      BY <1>0 DEF PCs
    <3>2. c \in CallState
      <4>. HIDE DEF x
      <4>. QED  BY <2>1, <3>1, CallFields, CallUpdates
    <3>3. c.pc \in {"give", "sweep"}
      BY <2>1, <3>1 DEF CallState
    <3>. QED  BY <3>2, <3>3
  <2>3. \A s \in Slots : Live(s)' => Live(s) /\ entries'[s].key = entries[s].key
    <3>1. \/ entries' = entries
          \/ entries' = [entries EXCEPT ![x] = [key |-> ZeroKey, value |-> Null, len |-> 0,
                                                version |-> 0, ref |-> 0]]
      BY <1>14 DEF Sweep, dict
    <3>. HIDE DEF x
    <3>. QED  BY <1>0, <3>1 DEF Live
  <2>4. LookupHolds(t)'
    <3>1. call'[t].pc \in {"give", "sweep"}
      BY <1>0, <2>1, <2>2
    <3>. QED  BY <3>1 DEF LookupHolds
  <2>. HIDE DEF c
  <2>. QED  BY <2>1, <2>2, <2>3, <2>4, MovesOn
<1>. QED  BY <1>1, <1>2, <1>3, <1>4, <1>5, <1>6, <1>7, <1>8, <1>9, <1>10, <1>11, <1>12, <1>13,
             <1>14 DEF Next, TaskStep, SetStep, Begins

\* A dictionary begins with no call in it.
LEMMA DictInit == Init => DictInv
<1>. SUFFICES ASSUME Init PROVE DictInv
  OBVIOUS
<1>1. TypeOK
  BY Constants, IdleType DEF Init, TypeOK, EntryType, KeyedCall, Idle
<1>2. \A t \in Tasks : ~Inside(t) /\ LookupHolds(t)
  BY OutsideHolds DEF Init, Inside, Idle
<1>3. UniqueKeys
  BY DEF Init, UniqueKeys, Live
<1>. QED  BY <1>1, <1>2, <1>3 DEF DictInv, LookupsHold, OneInside, Init

\* While the semaphore is never given up on a timeout, no key is in the array twice and
\* what a call has looked up stays true until it leaves.
THEOREM DictConsistent ==
    ASSUME ~LockTimesOut
    PROVE  Spec => [](LookupsHold /\ UniqueKeys)
<1>1. Init => DictInv
  BY DictInit
<1>2. DictInv /\ TypeOK' /\ [Next]_vars => DictInv'
  BY DictStep
<1>3. DictInv => LookupsHold /\ UniqueKeys
  BY DEF DictInv
<1>. QED  BY <1>1, <1>2, <1>3, TypeCorrect, PTL DEF Spec

\* No key is in the array twice.
THEOREM KeysAreUnique == ASSUME ~LockTimesOut PROVE Spec => []UniqueKeys
BY DictConsistent, PTL

-----------------------------------------------------------------------------
(***************************************************************************)
(* Ownership of the value blocks.                                          *)
(***************************************************************************)
\* A step that leaves value pointers and allocations alone.
LEMMA BlocksKept ==
    ASSUME BlocksOwned, \A s \in Slots : entries'[s].value = entries[s].value, used' = used
    PROVE  BlocksOwned'
BY DEF BlocksOwned, Owned, Live

\* Freeing the one reference to a block, whether or not the pool takes it back.
LEMMA BlockFreed ==
    ASSUME BlocksOwned, NEW x \in Slots, Live(x), entries'[x].value = Null,
           \A s \in Slots \ {x} : entries'[s].value = entries[s].value,
           used' = Freed(entries[x].value)
    PROVE  BlocksOwned'
<1>. DEFINE b == entries[x].value
<1>1. used \ {b} \subseteq used' /\ used' \subseteq used
  BY DEF Freed
<1>2. used' \cap PoolBlocks \subseteq (used \cap PoolBlocks) \ {b}
  BY DEF Freed
<1>3. \A s \in Slots : Live(s)' <=> Live(s) /\ s # x
  BY DEF Live
<1>4. Owned' = Owned \ {b}
  BY <1>3 DEF Owned, BlocksOwned
<1>5. \A s, r \in Slots : Live(s)' /\ entries'[s].value = entries'[r].value => s = r
  BY <1>3 DEF BlocksOwned, Live
<1>. HIDE DEF b
<1>. QED  BY <1>1, <1>2, <1>4, <1>5 DEF BlocksOwned

\* A block that nobody uses becomes the value of an entry that had none.
LEMMA BlockTaken ==
    ASSUME BlocksOwned, NEW x \in Slots, ~Live(x), NEW b \in Blocks \ used, b # Null,
           entries'[x].value = b, \A s \in Slots \ {x} : entries'[s].value = entries[s].value,
           used' = used \cup {b}
    PROVE  BlocksOwned'
<1>1. \A s \in Slots : Live(s)' <=> Live(s) \/ s = x
  BY DEF Live
<1>2. Owned' = Owned \cup {b}
  BY <1>1 DEF Owned
<1>3. \A s \in Slots : Live(s) => entries[s].value # b
  BY DEF BlocksOwned, Owned
<1>4. \A s, r \in Slots : Live(s)' /\ entries'[s].value = entries'[r].value => s = r
  BY <1>1, <1>3 DEF BlocksOwned, Live
<1>. QED  BY <1>2, <1>4 DEF BlocksOwned

\* What a step does to the value pointers: it leaves them, frees one, or sets one that was
\* NULL to a block nobody uses.
PointersKept == used' = used /\ \A s \in Slots : entries'[s].value = entries[s].value

PointerFreed(x) ==
    /\ Live(x) /\ entries'[x].value = Null /\ used' = Freed(entries[x].value)
    /\ \A s \in Slots \ {x} : entries'[s].value = entries[s].value

PointerSet(x, b) ==
    /\ ~Live(x) /\ b # Null /\ entries'[x].value = b /\ used' = used \cup {b}
    /\ \A s \in Slots \ {x} : entries'[s].value = entries[s].value

\* Every step of the dictionary keeps all pointers, frees one slot's block, or gives one
\* slot a block nobody used.
LEMMA BlocksMove ==
    ASSUME TypeOK, LookupsHold, [Next]_vars
    PROVE  \/ PointersKept
           \/ \E x \in Slots : PointerFreed(x) \/ \E b \in Blocks \ used : PointerSet(x, b)
<1>0. /\ entries \in [Slots -> EntryType]
      /\ \A t \in Tasks : call[t] \in CallState
  BY DEF TypeOK, EntryType
<1>1. CASE UNCHANGED dict
  BY <1>1 DEF dict, PointersKept
<1>2. ASSUME NEW t \in Tasks, Begins(t) \/ Take(t) \/ Give(t) \/ FindEntry(t)
                                \/ ReadValue(t) \/ ReadMeta(t)
      PROVE  UNCHANGED dict
  BY <1>2 DEF Begins, BeginSet, BeginGet, BeginRetain, BeginRelease, BeginCleanup, Begin,
              Take, Give, FindEntry, ReadValue, ReadMeta
<1>3. ASSUME NEW t \in Tasks, ClaimSlot(t) PROVE PointersKept
  <2>. DEFINE x == First({s \in Slots : ~Live(s)})
  <2>1. /\ UNCHANGED used
        /\ \/ entries' = entries
           \/ entries' = [entries EXCEPT ![x] =
                 [entries[x] EXCEPT !.key = call[t].key, !.version = 0, !.ref = 0]]
    BY <1>3 DEF ClaimSlot
  <2>. HIDE DEF x
  <2>2. ASSUME NEW s \in Slots PROVE entries'[s].value = entries[s].value
    <3>1. CASE entries' = entries
      BY <3>1
    <3>2. CASE entries' # entries /\ s = x
      <4>1. entries'[s] = [entries[s] EXCEPT !.key = call[t].key, !.version = 0, !.ref = 0]
        BY <1>0, <2>1, <3>2
      <4>. QED  BY <1>0, <4>1 DEF EntryType
    <3>3. CASE entries' # entries /\ s # x
      BY <1>0, <2>1, <3>3
    <3>. QED  BY <3>1, <3>2, <3>3
  <2>. QED  BY <2>1, <2>2 DEF PointersKept
<1>4. ASSUME NEW t \in Tasks, TrimValue(t), ~ UNCHANGED dict
      PROVE  \E x \in Slots : PointerFreed(x)
  <2>. DEFINE x == call[t].slot
  <2>1. /\ used' = Freed(entries[x].value) /\ entries[x].value # Null
        /\ entries' = [entries EXCEPT ![x] = [entries[x] EXCEPT !.value = Null, !.len = 0]]
        /\ x \in Slots
    BY <1>0, <1>4 DEF TrimValue, CallState
  <2>. HIDE DEF x
  <2>. QED  BY <1>0, <2>1 DEF EntryType, PointerFreed, Live
<1>5. ASSUME NEW t \in Tasks, AllocValue(t), ~ UNCHANGED dict
      PROVE  \E x \in Slots, b \in Blocks \ used : PointerSet(x, b)
  <2>. DEFINE x == call[t].slot
  <2>1. PICK b \in Allocatable(call[t].len) :
          /\ b # Null /\ used' = used \cup {b}
          /\ entries' = [entries EXCEPT ![x] = [entries[x] EXCEPT !.value = b]]
    BY <1>5 DEF AllocValue
  <2>2. b \in Blocks \ used
    BY <2>1 DEF Allocatable, Blocks
  <2>3. x \in Slots /\ ~Live(x)
    BY <1>0, <1>5 DEF AllocValue, CallState, LookupsHold, LookupHolds
  <2>. HIDE DEF x
  <2>. QED  BY <1>0, <2>1, <2>2, <2>3 DEF EntryType, PointerSet
<1>6. ASSUME NEW t \in Tasks,
             CopyBegin(t) \/ CopyEnd(t) \/ Stamp(t) \/ Retain(t) \/ Release(t)
      PROVE  PointersKept
  <2>1. /\ UNCHANGED used
        /\ \/ entries' = entries
           \/ \E x, n : \/ entries' = [entries EXCEPT ![x] = [entries[x] EXCEPT !.len = n]]
                        \/ entries' = [entries EXCEPT ![x] = [entries[x] EXCEPT !.version = n]]
                        \/ entries' = [entries EXCEPT ![x] = [entries[x] EXCEPT !.ref = n]]
    BY <1>6 DEF CopyBegin, CopyEnd, Stamp, Retain, Release, AddRef
  <2>. QED  BY <1>0, <2>1 DEF EntryType, PointersKept
<1>7. ASSUME NEW t \in Tasks, Sweep(t), ~ UNCHANGED dict
      PROVE  \E x \in Slots : PointerFreed(x)
  <2>. DEFINE x == call[t].slot
  <2>1. /\ Live(x) /\ used' = Freed(entries[x].value) /\ x \in Slots
        /\ entries' = [entries EXCEPT ![x] = [key |-> ZeroKey, value |-> Null, len |-> 0,
                                              version |-> 0, ref |-> 0]]
    BY <1>0, <1>7 DEF Sweep, CallState
  <2>. HIDE DEF x
  <2>. QED  BY <1>0, <2>1 DEF PointerFreed
<1>. QED  BY <1>1, <1>2, <1>3, <1>4, <1>5, <1>6, <1>7 DEF Next, TaskStep, SetStep, Begins, vars

\* While the semaphore is never given up on a timeout, no two entries share a block, no
\* entry points to a freed block and the pool has no block in use that no entry has.
THEOREM BlocksHaveOneOwner ==
    ASSUME ~LockTimesOut
    PROVE  Spec => []BlocksOwned
<1>1. Init => BlocksOwned
  BY DEF Init, BlocksOwned, Owned, Live
<1>2. TypeOK /\ LookupsHold /\ BlocksOwned /\ [Next]_vars => BlocksOwned'
  BY BlocksMove, BlocksKept, BlockFreed, BlockTaken
     DEF PointersKept, PointerFreed, PointerSet
<1>. QED  BY <1>1, <1>2, TypeCorrect, DictConsistent, PTL DEF Spec

\* Without a pool every allocation is the value of an entry, after any number of writes,
\* failed ones among them, and of cleanups.
THEOREM NothingLeaks ==
    ASSUME ~LockTimesOut, PoolBlocks = {}
    PROVE  Spec => []NoBlockLost
<1>1. Init => NoBlockLost
  BY DEF Init, NoBlockLost
<1>2. TypeOK /\ LookupsHold /\ BlocksOwned /\ NoBlockLost /\ [Next]_vars => NoBlockLost'
  <2>. SUFFICES ASSUME TypeOK, LookupsHold, BlocksOwned, NoBlockLost, [Next]_vars
                PROVE  NoBlockLost'
    OBVIOUS
  <2>1. CASE PointersKept
    BY <2>1 DEF PointersKept, NoBlockLost, Owned, Live
  <2>2. ASSUME NEW x \in Slots, PointerFreed(x) PROVE NoBlockLost'
    <3>1. used' = used \ {entries[x].value}
      BY <2>2 DEF PointerFreed, Freed
    <3>2. Owned \ {entries[x].value} \subseteq Owned'
      BY <2>2 DEF PointerFreed, Owned, Live
    <3>. QED  BY <3>1, <3>2 DEF NoBlockLost
  <2>3. ASSUME NEW x \in Slots, NEW b \in Blocks \ used, PointerSet(x, b) PROVE NoBlockLost'
    <3>1. Owned \cup {b} \subseteq Owned'
      BY <2>3 DEF PointerSet, Owned, Live
    <3>. QED  BY <2>3, <3>1 DEF PointerSet, NoBlockLost
  <2>. QED  BY <2>1, <2>2, <2>3, BlocksMove
<1>. QED  BY <1>1, <1>2, TypeCorrect, DictConsistent, BlocksHaveOneOwner, PTL DEF Spec

-----------------------------------------------------------------------------
(***************************************************************************)
(* Retained values.                                                        *)
(***************************************************************************)
\* The steps of a call belong to its function and its arguments stay as they came.
ArgumentsFit(t) ==
    LET c == call[t] IN
    /\ c.pc \in {"find", "claim", "trim", "alloc", "copy", "copying", "stamp"} => c.op = "set"
    /\ c.pc \in {"read", "meta"} => c.op = "get"
    /\ c.pc = "retain" => c.op = "retain"
    /\ c.pc = "release" => c.op = "release"
    /\ c.op = "set" => c.data \in Data /\ c.len \in Lens
    /\ c.op = "retain" /\ c.pc \in {"take", "retain"} => pins[t] = NoKey
    /\ c.op = "release" /\ c.pc \in {"take", "release"} => pins[t] = c.key /\ c.key \in Keys

CallsFit == \A t \in Tasks : ArgumentsFit(t)

\* All values have one length, as those of a topic with one publisher do, and there are
\* fewer tasks than a counter can count.
PlainRetaining ==
    /\ \E n \in Nat \ {0} : Lens = {n}
    /\ IsFiniteSet(Tasks) /\ Cardinality(Tasks) < WordMod

Retainers(k) == {t \in Tasks : pins[t] = k}

\* A retained key has its value; an entry about to get a value nobody has retained; only
\* the copy of a value that was just allocated is of no length yet.
RefsKept ==
    /\ \A t \in Tasks : pins[t] # NoKey => Holding(pins[t]) # {}
    /\ RefExact
    /\ \A t \in Tasks : call[t].pc \in {"trim", "alloc"} /\ ~Live(call[t].slot) =>
                            entries[call[t].slot].ref = 0
    /\ \A s \in Slots : Live(s) /\ entries[s].len \notin Lens =>
           \E t \in Tasks : call[t].pc \in {"copy", "copying"} /\ call[t].slot = s

\* What is known of the write under way: the entry's version goes with the former value;
\* what was copied is there until the stamp.  What is known of a read is still there.
WriteKept(t) ==
    LET c == call[t]
        e == entries[c.slot]
    IN /\ c.pc = "trim" /\ ~Live(c.slot) => e.version = 0
       /\ c.pc \in {"alloc", "copy", "copying", "stamp"} /\ c.len # 0 =>
             e.version = IF c.old = Absent THEN 0 ELSE c.old.version
       /\ c.pc \in {"alloc", "copy", "copying"} => c.len # 0
       /\ c.pc = "stamp" =>
             IF c.len = 0 THEN ~Live(c.slot) /\ c.old = Absent
             ELSE Live(c.slot) /\ mem[e.value] = c.data /\ e.len = c.len
       /\ c.pc = "meta" => c.data = mem[e.value] /\ c.len = e.len

WritesKept ==
    /\ \A t \in Tasks : WriteKept(t)
    /\ \A s \in Slots : Live(s) /\ entries[s].len = 0 =>
           \E t \in Tasks : call[t].pc \in {"copy", "copying"} /\ call[t].slot = s

\* A step of the call of one task: it keeps its function, key and arguments.
LEMMA FitStep ==
    ASSUME TypeOK, CallsFit, NEW t \in Tasks, NEW c,
           call' = [call EXCEPT ![t] = c], \A u \in Tasks \ {t} : pins'[u] = pins[u],
           c.op = call[t].op, c.key = call[t].key, c.data = call[t].data, c.len = call[t].len,
           \/ c.pc \in {"sweep", "give"}
           \/ call[t].op = "set"
              /\ c.pc \in {"find", "claim", "trim", "alloc", "copy", "copying", "stamp"}
           \/ call[t].op = "get" /\ c.pc \in {"read", "meta"}
           \/ UNCHANGED pins /\ call[t].op = "retain" /\ c.pc = "retain" /\ call[t].pc = "take"
           \/ UNCHANGED pins /\ call[t].op = "release" /\ c.pc = "release" /\ call[t].pc = "take"
    PROVE  CallsFit'
<1>1. call'[t] = c /\ \A u \in Tasks \ {t} : call'[u] = call[u]
  BY DEF TypeOK
<1>2. \A u \in Tasks \ {t} : ArgumentsFit(u)'
  BY <1>1 DEF CallsFit, ArgumentsFit
<1>3. ArgumentsFit(t)'
  BY <1>1 DEF CallsFit, ArgumentsFit
<1>. QED  BY <1>2, <1>3 DEF CallsFit

\* A call that only moves on keeps what CallsFit says of it and of the other calls.
LEMMA FitGoto ==
    ASSUME TypeOK, CallsFit, NEW t \in Tasks, NEW l \in PCs, Goto(t, l),
           \A u \in Tasks \ {t} : pins'[u] = pins[u],
           \/ l \in {"sweep", "give"}
           \/ call[t].op = "set" /\ l \in {"find", "copy", "copying", "stamp"}
           \/ call[t].op = "get" /\ l = "read"
           \/ UNCHANGED pins /\ call[t].op = "retain" /\ l = "retain" /\ call[t].pc = "take"
           \/ UNCHANGED pins /\ call[t].op = "release" /\ l = "release" /\ call[t].pc = "take"
    PROVE  CallsFit'
<1>. DEFINE c == [call[t] EXCEPT !.pc = l]
<1>1. c \in CallState /\ call[t] \in CallState
  BY CallFields DEF TypeOK
<1>2. /\ c.op = call[t].op /\ c.key = call[t].key /\ c.data = call[t].data
      /\ c.len = call[t].len /\ c.pc = l /\ call' = [call EXCEPT ![t] = c]
  BY <1>1 DEF CallState, Goto
<1>. HIDE DEF c
<1>. QED  BY <1>1, <1>2, FitStep

\* Entering a function, with the arguments it takes.
LEMMA FitBegin ==
    ASSUME TypeOK, CallsFit, NEW t \in Tasks, Begins(t)
    PROVE  CallsFit'
<1>1. PICK c \in CallState :
         /\ Begin(t, c)
         /\ c.op = "set" => c.data \in Data /\ c.len \in Lens
         /\ c.op = "retain" => pins[t] = NoKey
         /\ c.op = "release" => pins[t] = c.key /\ c.key \in Keys
  <2>1. CASE BeginSet(t)
    <3>1. PICK k \in Keys, d \in Data, n \in Lens :
            Begin(t, [Idle EXCEPT !.op = "set", !.key = k, !.data = d, !.len = n])
      BY <2>1 DEF BeginSet
    <3>. DEFINE c == [Idle EXCEPT !.op = "set", !.key = k, !.data = d, !.len = n]
    <3>2. c \in CallState /\ c.op = "set" /\ c.data = d /\ c.len = n
      BY IdleType DEF CallState, AllCalls
    <3>3. Begin(t, c)
      BY <3>1
    <3>. HIDE DEF c
    <3>. QED  BY <3>2, <3>3
  <2>2. ASSUME NEW k \in Keys, NEW op \in {"get", "retain"},
               op = "retain" => pins[t] = NoKey, Begin(t, [Idle EXCEPT !.op = op, !.key = k])
        PROVE  \E c \in CallState : Begin(t, c) /\ c.op = op
    <3>. DEFINE c == [Idle EXCEPT !.op = op, !.key = k]
    <3>2. c \in CallState /\ c.op = op
      BY IdleType DEF CallState, AllCalls
    <3>3. Begin(t, c)
      BY <2>2
    <3>. HIDE DEF c
    <3>. QED  BY <3>2, <3>3
  <2>3. CASE BeginGet(t) \/ BeginRetain(t)
    BY <2>2, <2>3 DEF BeginGet, BeginRetain
  <2>4. CASE BeginRelease(t) \/ BeginCleanup(t)
    <3>. DEFINE c == [Idle EXCEPT !.op = "release", !.key = pins[t]]
                d == [Idle EXCEPT !.op = "cleanup"]
    <3>1. c \in CallState /\ c.op = "release" /\ c.key = pins[t]
      BY IdleType DEF CallState, AllCalls, TypeOK
    <3>2. d \in CallState /\ d.op = "cleanup"
      BY IdleType DEF CallState, AllCalls
    <3>3. (Begin(t, c) /\ pins[t] \in Keys) \/ Begin(t, d)
      BY <2>4 DEF BeginRelease, BeginCleanup, TypeOK
    <3>. HIDE DEF c, d
    <3>. QED  BY <3>1, <3>2, <3>3
  <2>. QED  BY <2>1, <2>3, <2>4 DEF Begins
<1>. DEFINE d == [c EXCEPT !.pc = "take"]
<1>2. /\ call' = [call EXCEPT ![t] = d] /\ UNCHANGED pins
      /\ d.pc = "take" /\ d.op = c.op /\ d.key = c.key /\ d.data = c.data /\ d.len = c.len
  BY <1>1 DEF Begin, CallState
<1>3. call'[t] = d /\ \A u \in Tasks \ {t} : call'[u] = call[u]
  BY <1>2 DEF TypeOK
<1>4. ArgumentsFit(t)'
  BY <1>1, <1>2, <1>3 DEF ArgumentsFit
<1>5. \A u \in Tasks \ {t} : ArgumentsFit(u)'
  BY <1>2, <1>3 DEF CallsFit, ArgumentsFit
<1>. QED  BY <1>4, <1>5 DEF CallsFit

\* Every step keeps the arguments of the calls.
LEMMA CallsFitStep == TypeOK /\ CallsFit /\ [Next]_vars => CallsFit'
<1>. SUFFICES ASSUME TypeOK, CallsFit, [Next]_vars PROVE CallsFit'
  OBVIOUS
<1>0. \A t \in Tasks : call[t] \in CallState /\ ArgumentsFit(t)
  BY DEF TypeOK, CallsFit
<1>1. CASE UNCHANGED vars
  BY <1>1 DEF vars, dict, CallsFit, ArgumentsFit
<1>2. ASSUME NEW t \in Tasks, Take(t) PROVE CallsFit'
  <2>1. Entry(call[t].op) \in {"find", "read", "retain", "release", "sweep"}
    BY DEF Entry
  <2>2. /\ Entry(call[t].op) = "find" => call[t].op = "set"
        /\ Entry(call[t].op) = "read" => call[t].op = "get"
        /\ Entry(call[t].op) = "retain" => call[t].op = "retain"
        /\ Entry(call[t].op) = "release" => call[t].op = "release"
    BY DEF Entry
  <2>. DEFINE l == Entry(call[t].op)
  <2>3. Goto(t, l) /\ UNCHANGED pins /\ call[t].pc = "take" /\ l \in PCs
    BY <1>2, <2>1 DEF Take, PCs
  <2>. HIDE DEF l
  <2>. QED  BY <2>1, <2>2, <2>3, FitGoto DEF l
<1>3. ASSUME NEW t \in Tasks, Give(t) PROVE CallsFit'
  <2>1. call'[t] = Idle /\ \A u \in Tasks \ {t} : call'[u] = call[u]
    BY <1>3 DEF Give, TypeOK
  <2>2. UNCHANGED pins
    BY <1>3 DEF Give
  <2>3. ArgumentsFit(t)'
    BY <2>1 DEF ArgumentsFit, Idle
  <2>. QED  BY <1>0, <2>1, <2>2, <2>3 DEF CallsFit, ArgumentsFit
<1>4. ASSUME NEW t \in Tasks, FindEntry(t) \/ ClaimSlot(t) PROVE CallsFit'
  <2>1. call[t].op = "set" /\ UNCHANGED pins
    BY <1>0, <1>4 DEF FindEntry, ClaimSlot, ArgumentsFit
  <2>2. PICK x : call' = [call EXCEPT ![t] = x] /\
                   \/ x = [call[t] EXCEPT !.pc = "claim"]
                   \/ x = [call[t] EXCEPT !.pc = "give"]
                   \/ \E s : x = [call[t] EXCEPT !.pc = "trim", !.slot = s]
    BY <1>4 DEF FindEntry, ClaimSlot, Goto
  <2>3. /\ x.op = call[t].op /\ x.key = call[t].key /\ x.data = call[t].data
        /\ x.len = call[t].len /\ x.pc \in {"claim", "give", "trim"}
    BY <1>0, <2>2 DEF CallState
  <2>. QED  BY <2>1, <2>2, <2>3, FitStep
<1>5. ASSUME NEW t \in Tasks, TrimValue(t) PROVE CallsFit'
  <2>1. call[t].op = "set" /\ UNCHANGED pins
    BY <1>0, <1>5 DEF TrimValue, ArgumentsFit
  <2>2. PICK l \in {"stamp", "alloc", "copy"} :
          \E o : call' = [call EXCEPT ![t] = [call[t] EXCEPT !.pc = l, !.old = o]]
    BY <1>5 DEF TrimValue
  <2>5. PICK o : call' = [call EXCEPT ![t] = [call[t] EXCEPT !.pc = l, !.old = o]]
    BY <2>2
  <2>. DEFINE c == [call[t] EXCEPT !.pc = l, !.old = o]
  <2>3. /\ c.op = call[t].op /\ c.key = call[t].key /\ c.data = call[t].data
        /\ c.len = call[t].len /\ c.pc = l
    BY <1>0 DEF CallState
  <2>. HIDE DEF c
  <2>. QED  BY <2>1, <2>5, <2>3, FitStep DEF c
<1>6. ASSUME NEW t \in Tasks, AllocValue(t) \/ CopyBegin(t) \/ CopyEnd(t) \/ Stamp(t)
      PROVE  CallsFit'
  <2>1. call[t].op = "set" /\ UNCHANGED pins
    BY <1>0, <1>6 DEF AllocValue, CopyBegin, CopyEnd, Stamp, ArgumentsFit
  <2>2. \E l \in {"give", "copy", "copying", "stamp"} : Goto(t, l)
    BY <1>6 DEF AllocValue, CopyBegin, CopyEnd, Stamp
  <2>. QED  BY <2>1, <2>2, FitGoto DEF PCs
<1>7. ASSUME NEW t \in Tasks, ReadValue(t) PROVE CallsFit'
  <2>1. call[t].op = "get" /\ call[t].pc = "read" /\ UNCHANGED pins
    BY <1>0, <1>7 DEF ReadValue, ArgumentsFit
  <2>2. CASE Goto(t, "give")
    BY <2>1, <2>2, FitGoto DEF PCs
  <2>3. CASE ~Goto(t, "give")
    <3>1. PICK s, d, n :
            call' = [call EXCEPT ![t] = [call[t] EXCEPT !.pc = "meta", !.slot = s,
                                                        !.data = d, !.len = n]]
      BY <1>7, <2>3 DEF ReadValue
    <3>2. /\ call'[t].op = "get" /\ call'[t].pc = "meta"
          /\ \A u \in Tasks \ {t} : call'[u] = call[u]
      BY <1>0, <2>1, <3>1 DEF CallState, TypeOK
    <3>3. ArgumentsFit(t)'
      BY <3>2 DEF ArgumentsFit
    <3>. QED  BY <1>0, <2>1, <3>2, <3>3 DEF CallsFit, ArgumentsFit
  <2>. QED  BY <2>2, <2>3
<1>8. ASSUME NEW t \in Tasks, ReadMeta(t) \/ Retain(t) \/ Release(t) PROVE CallsFit'
  <2>1. Goto(t, "give") /\ \A u \in Tasks \ {t} : pins'[u] = pins[u]
    BY <1>8 DEF ReadMeta, Retain, Release, TypeOK
  <2>. QED  BY <2>1, FitGoto DEF PCs
<1>9. ASSUME NEW t \in Tasks, Sweep(t) PROVE CallsFit'
  <2>. DEFINE x == call[t].slot
              c == IF x = MaxKeys THEN [call[t] EXCEPT !.pc = "give"]
                   ELSE [call[t] EXCEPT !.slot = x + 1]
  <2>1. call' = [call EXCEPT ![t] = c] /\ UNCHANGED pins /\ call[t].pc = "sweep"
    BY <1>9 DEF Sweep
  <2>2. /\ c.op = call[t].op /\ c.key = call[t].key /\ c.data = call[t].data
        /\ c.len = call[t].len /\ c.pc \in {"sweep", "give"}
    BY <1>0, <2>1 DEF CallState
  <2>. HIDE DEF c
  <2>. QED  BY <2>1, <2>2, FitStep
<1>. QED  BY <1>1, <1>2, <1>3, <1>4, <1>5, <1>6, <1>7, <1>8, <1>9, FitBegin
          DEF Next, TaskStep, SetStep, Begins

\* It begins with no calls.
LEMMA CallsFitInit == Init => CallsFit
BY DEF Init, Idle, CallsFit, ArgumentsFit

\* Calls stand where their function can be, with the pins that place implies.
LEMMA CallsFitInvariant == Spec => []CallsFit
<1>1. Init => CallsFit
  BY CallsFitInit
<1>2. TypeOK /\ CallsFit /\ [Next]_vars => CallsFit'
  BY CallsFitStep
<1>. QED  BY <1>1, <1>2, TypeCorrect, PTL DEF Spec

\* A counter within its width counts up by one and down by one.
LEMMA Counting ==
    ASSUME NEW w \in Word
    PROVE  /\ w + 1 < WordMod => Plus(w, 1) = w + 1
           /\ w > 0 => Plus(w, WordMod - 1) = w - 1
<1>0. WordMod \in Nat \ {0, 1} /\ w \in 0 .. WordMod - 1
  BY DictAssumption DEF Word
<1>1. ASSUME NEW x \in 0 .. WordMod - 1, NEW q \in Int PROVE (WordMod * q + x) % WordMod = x
  BY <1>0
<1>2. ASSUME NEW x \in 0 .. WordMod - 1 PROVE x % WordMod = x /\ (x + WordMod) % WordMod = x
  <2>1. WordMod * 0 + x = x /\ WordMod * 1 + x = x + WordMod
    BY <1>0
  <2>. QED  BY <1>1, <2>1
<1>3. ASSUME w + 1 < WordMod PROVE Plus(w, 1) = w + 1
  <2>1. w + 1 \in 0 .. WordMod - 1
    BY <1>0, <1>3
  <2>. QED  BY <1>2, <2>1 DEF Plus
<1>4. ASSUME w > 0 PROVE Plus(w, WordMod - 1) = w - 1
  <2>1. w - 1 \in 0 .. WordMod - 1 /\ w + (WordMod - 1) = (w - 1) + WordMod
    BY <1>0, <1>4
  <2>. QED  BY <1>2, <2>1 DEF Plus
<1>. QED  BY <1>3, <1>4

\* The tasks that retain a key are as many as one counts, and fewer than the counter's range.
LEMMA RetainersCounted ==
    ASSUME PlainRetaining, NEW k
    PROVE  /\ IsFiniteSet(Retainers(k)) /\ Cardinality(Retainers(k)) \in Nat
           /\ Cardinality(Retainers(k)) = 0 <=> Retainers(k) = {}
           /\ \A t \in Tasks \ Retainers(k) :
                 /\ Cardinality(Retainers(k) \cup {t}) = Cardinality(Retainers(k)) + 1
                 /\ Cardinality(Retainers(k)) + 1 < WordMod
           /\ \A t \in Retainers(k) :
                 /\ Cardinality(Retainers(k)) > 0
                 /\ Cardinality(Retainers(k) \ {t}) = Cardinality(Retainers(k)) - 1
<1>1. Retainers(k) \subseteq Tasks /\ IsFiniteSet(Tasks) /\ Cardinality(Tasks) < WordMod
  BY DEF Retainers, PlainRetaining
<1>2. IsFiniteSet(Retainers(k)) /\ Cardinality(Retainers(k)) \in Nat
  BY <1>1, FS_Subset, FS_CardinalityType
<1>3. Cardinality(Retainers(k)) = 0 <=> Retainers(k) = {}
  BY <1>2, FS_EmptySet
<1>4. ASSUME NEW t \in Tasks \ Retainers(k)
      PROVE  /\ Cardinality(Retainers(k) \cup {t}) = Cardinality(Retainers(k)) + 1
             /\ Cardinality(Retainers(k)) + 1 < WordMod
  <2>1. Cardinality(Retainers(k) \cup {t}) = Cardinality(Retainers(k)) + 1
    BY <1>2, FS_AddElement
  <2>2. Retainers(k) \cup {t} \subseteq Tasks
    BY <1>1
  <2>3. /\ Cardinality(Retainers(k) \cup {t}) <= Cardinality(Tasks)
        /\ Cardinality(Tasks) \in Nat /\ WordMod \in Nat
    BY <1>1, <2>2, FS_Subset, FS_CardinalityType, DictAssumption
  <2>. QED  BY <1>1, <1>2, <2>1, <2>3
<1>5. ASSUME NEW t \in Retainers(k)
      PROVE  /\ Cardinality(Retainers(k)) > 0
             /\ Cardinality(Retainers(k) \ {t}) = Cardinality(Retainers(k)) - 1
  <2>1. Cardinality(Retainers(k) \ {t}) = Cardinality(Retainers(k)) - 1
    BY <1>2, FS_RemoveElement
  <2>. QED  BY <1>2, <1>3, <2>1
<1>. QED  BY <1>2, <1>3, <1>4, <1>5

\* A step that neither touches what an entry holds and counts, nor retains nor releases.
LEMMA RefsQuiet ==
    ASSUME RefsKept, UNCHANGED pins,
           \A s \in Slots : /\ entries'[s].key = entries[s].key
                            /\ entries'[s].value = entries[s].value
                            /\ entries'[s].len = entries[s].len /\ entries'[s].ref = entries[s].ref,
           \A t \in Tasks : call[t].slot \in Slots /\ call'[t].slot \in Slots,
           \A t \in Tasks : call'[t].pc \in {"trim", "alloc"} /\ ~Live(call'[t].slot) =>
                                call[t].pc \in {"trim", "alloc"} /\ call'[t].slot = call[t].slot,
           \A t \in Tasks : call[t].pc \in {"copy", "copying"} =>
                                call'[t].pc \in {"copy", "copying"} /\ call'[t].slot = call[t].slot
    PROVE  RefsKept'
<1>1. \A s \in Slots : Live(s)' <=> Live(s)
  BY DEF Live
<1>2. \A k : Holding(k)' = Holding(k)
  BY <1>1 DEF Holding
<1>3. RefExact'
  BY <1>1 DEF RefsKept, RefExact
<1>4. \A t \in Tasks : call'[t].pc \in {"trim", "alloc"} /\ entries'[call'[t].slot].value = Null =>
                           entries'[call'[t].slot].ref = 0
  BY DEF RefsKept, Live
<1>5. \A s \in Slots : Live(s)' /\ entries'[s].len \notin Lens =>
          \E t \in Tasks : call'[t].pc \in {"copy", "copying"} /\ call'[t].slot = s
  BY <1>1 DEF RefsKept
<1>. QED  BY <1>2, <1>3, <1>4, <1>5 DEF RefsKept, Live

\* Between the lookup and the end of a write, no other call is anywhere in the dictionary.
LEMMA Alone ==
    ASSUME LookupsHold, NEW t \in Tasks, Inside(t)
    PROVE  \A u \in Tasks \ {t} : call[u].pc \in {"idle", "take"}
BY DEF LookupsHold, OneInside, Inside

\* Every step keeps the reference counts.
LEMMA RefsStep ==
    ASSUME ~LockTimesOut, PlainRetaining
    PROVE  DictInv /\ TypeOK' /\ CallsFit /\ RefsKept /\ [Next]_vars => RefsKept'
<1>. SUFFICES ASSUME TypeOK, TypeOK', LookupsHold, UniqueKeys, CallsFit, RefsKept, [Next]_vars
              PROVE  RefsKept'
  BY DEF DictInv
<1>0. /\ entries \in [Slots -> EntryType] /\ call \in [Tasks -> CallState]
      /\ \A t \in Tasks : call[t] \in CallState /\ call[t].slot \in Slots /\ call'[t].slot \in Slots
      /\ pins \in [Tasks -> Keys \cup {NoKey}] /\ RefExact
  BY DEF TypeOK, EntryType, CallState, RefsKept
<1>1. ASSUME NEW t \in Tasks, UNCHANGED <<entries, pins>>,
             \A u \in Tasks \ {t} : call'[u] = call[u], call[t].pc \notin {"copy", "copying"},
             \/ call'[t].pc \notin {"trim", "alloc"} \/ Live(call'[t].slot)
             \/ call[t].pc = "trim" /\ call'[t].slot = call[t].slot
      PROVE  RefsKept'
  BY <1>0, <1>1, RefsQuiet
<1>2. CASE UNCHANGED vars
  BY <1>0, <1>2, RefsQuiet DEF vars, dict
<1>3. ASSUME NEW t \in Tasks, Begins(t) \/ Take(t) \/ Give(t) \/ ReadValue(t) \/ ReadMeta(t)
      PROVE  RefsKept'
  <2>1. /\ UNCHANGED <<entries, pins>> /\ \A u \in Tasks \ {t} : call'[u] = call[u]
        /\ call[t].pc \in {"idle", "take", "give", "read", "meta"}
    BY <1>0, <1>3 DEF Begins, BeginSet, BeginGet, BeginRetain, BeginRelease, BeginCleanup,
                      Begin, Take, Give, ReadValue, ReadMeta, Goto, dict
  <2>2. call'[t].pc \notin {"trim", "alloc"}
    <3>1. CASE Begins(t)
      BY <1>0, <3>1, BeginsType DEF Begin, CallState
    <3>2. CASE Take(t)
      BY <1>0, <3>2 DEF Take, Goto, Entry, CallState
    <3>3. CASE Give(t)
      BY <1>0, <3>3 DEF Give, Idle
    <3>4. CASE ReadValue(t)
      <4>1. \/ call' = [call EXCEPT ![t] = [call[t] EXCEPT !.pc = "give"]]
            \/ \E s, d, n : call' = [call EXCEPT ![t] = [call[t] EXCEPT !.pc = "meta",
                                            !.slot = s, !.data = d, !.len = n]]
        BY <3>4 DEF ReadValue, Goto
      <4>2. CASE call' = [call EXCEPT ![t] = [call[t] EXCEPT !.pc = "give"]]
        BY <1>0, <4>2 DEF CallState
      <4>3. CASE \E s, d, n : call' = [call EXCEPT ![t] = [call[t] EXCEPT !.pc = "meta",
                                            !.slot = s, !.data = d, !.len = n]]
        <5>1. PICK s, d, n : call' = [call EXCEPT ![t] = [call[t] EXCEPT !.pc = "meta",
                                            !.slot = s, !.data = d, !.len = n]]
          BY <4>3
        <5>. QED  BY <1>0, <5>1 DEF CallState
      <4>. QED  BY <4>1, <4>2, <4>3
    <3>5. CASE ReadMeta(t)
      BY <1>0, <3>5 DEF ReadMeta, Goto, CallState
    <3>. QED  BY <1>3, <3>1, <3>2, <3>3, <3>4, <3>5
  <2>. QED  BY <1>1, <2>1, <2>2
<1>4. ASSUME NEW t \in Tasks, FindEntry(t) PROVE RefsKept'
  <2>1. /\ UNCHANGED <<entries, pins>> /\ \A u \in Tasks \ {t} : call'[u] = call[u]
        /\ call[t].pc = "find"
    BY <1>0, <1>4 DEF FindEntry, dict
  <2>2. call'[t].pc = "claim" \/ Live(call'[t].slot)
    <3>1. CASE Holding(call[t].key) = {}
      BY <1>0, <1>4, <3>1 DEF FindEntry, CallState
    <3>2. CASE Holding(call[t].key) # {}
      <4>1. Live(First(Holding(call[t].key)))
        BY <3>2, HoldingType, DictAssumption DEF Live
      <4>2. call'[t].slot = First(Holding(call[t].key))
        BY <1>0, <1>4, <3>2 DEF FindEntry, CallState
      <4>. QED  BY <4>1, <4>2
    <3>. QED  BY <3>1, <3>2
  <2>. QED  BY <1>1, <2>1, <2>2
<1>5. ASSUME NEW t \in Tasks, ClaimSlot(t) PROVE RefsKept'
  <2>. DEFINE free == {s \in Slots : ~Live(s)}   x == First(free)
  <2>1. /\ UNCHANGED pins /\ call[t].pc = "claim" /\ Inside(t)
        /\ \A u \in Tasks \ {t} : call'[u] = call[u]
    BY <1>0, <1>5 DEF ClaimSlot, Goto, Inside
  <2>2. CASE free = {}
    <3>1. UNCHANGED entries /\ call'[t].pc = "give"
      BY <1>0, <1>5, <2>2 DEF ClaimSlot, Goto, CallState
    <3>. QED  BY <1>1, <2>1, <3>1
  <2>3. CASE free # {}
    <3>1. x \in Slots /\ ~Live(x)
      <4>1. x \in free
        BY <2>3, FirstIn
      <4>. QED  BY <4>1
    <3>2. /\ entries' = [entries EXCEPT ![x] =
                            [entries[x] EXCEPT !.key = call[t].key, !.version = 0, !.ref = 0]]
          /\ call' = [call EXCEPT ![t] = [call[t] EXCEPT !.pc = "trim", !.slot = x]]
      BY <1>5, <2>3 DEF ClaimSlot
    <3>. HIDE DEF x, free
    <3>9. call'[t].slot = x
      BY <1>0, <3>2 DEF CallState
    <3>3. /\ entries'[x].value = Null /\ entries'[x].ref = 0
          /\ \A s \in Slots \ {x} : entries'[s] = entries[s]
      BY <1>0, <3>1, <3>2 DEF EntryType, Live
    <3>4. \A s \in Slots : Live(s)' => Live(s) /\ entries'[s] = entries[s]
      BY <3>3 DEF Live
    <3>5. \A k : Holding(k)' = Holding(k)
      BY <3>1, <3>3 DEF Holding, Live
    <3>6. RefExact'
      BY <1>0, <2>1, <3>4 DEF RefExact
    <3>7. \A u \in Tasks : call'[u].pc \in {"trim", "alloc"} => u = t
      BY <2>1, Alone
    <3>8. \A s \in Slots : Live(s) => entries[s].len \in Lens
      BY <2>1, Alone DEF RefsKept
    <3>. QED  BY <2>1, <3>2, <3>3, <3>4, <3>5, <3>6, <3>7, <3>8 DEF RefsKept
  <2>. QED  BY <2>2, <2>3
<1>6. ASSUME NEW t \in Tasks, TrimValue(t) PROVE RefsKept'
  <2>. DEFINE e == entries[call[t].slot]
  <2>1. call[t].pc = "trim" /\ Inside(t) /\ call[t].len \in Lens
    BY <1>6 DEF TrimValue, Inside, CallsFit, ArgumentsFit
  <2>2. ~ (e.value # Null /\ e.len # call[t].len) /\ call[t].len # 0
    <3>1. Live(call[t].slot) => e.len \in Lens
      BY <1>0, <2>1, Alone DEF RefsKept
    <3>. QED  BY <2>1, <3>1 DEF PlainRetaining, Live
  <2>3. UNCHANGED <<entries, pins>> /\ \A u \in Tasks \ {t} : call'[u] = call[u]
    BY <1>0, <1>6, <2>2 DEF TrimValue, dict
  <2>4. \E l, o : call' = [call EXCEPT ![t] = [call[t] EXCEPT !.pc = l, !.old = o]]
    BY <1>6 DEF TrimValue
  <2>5. call'[t].slot = call[t].slot
    BY <1>0, <2>4 DEF CallState
  <2>. QED  BY <1>1, <2>1, <2>3, <2>5
<1>7. ASSUME NEW t \in Tasks, AllocValue(t) PROVE RefsKept'
  <2>. DEFINE x == call[t].slot
  <2>1. PICK b \in Allocatable(call[t].len) :
          IF b = Null THEN Goto(t, "give") /\ UNCHANGED dict
          ELSE /\ entries' = [entries EXCEPT ![x] = [entries[x] EXCEPT !.value = b]]
               /\ Goto(t, "copy")
    BY <1>7 DEF AllocValue
  <2>2. /\ UNCHANGED pins /\ call[t].pc = "alloc" /\ Inside(t)
        /\ \A u \in Tasks \ {t} : call'[u] = call[u]
    BY <1>0, <1>7, <2>1 DEF AllocValue, Goto, Inside
  <2>3. CASE b = Null
    <3>1. UNCHANGED entries /\ call'[t].pc = "give"
      BY <1>0, <2>1, <2>3 DEF Goto, dict, CallState
    <3>. QED  BY <1>1, <2>2, <3>1
  <2>4. CASE b # Null
    <3>1. call'[t].pc = "copy" /\ call'[t].slot = x
      BY <1>0, <2>1, <2>4 DEF Goto, CallState
    <3>2. /\ x \in Slots /\ ~Live(x) /\ entries[x].ref = 0
          /\ \A s \in Slots : Live(s) => entries[s].key # entries[x].key
      BY <1>0, <2>2 DEF LookupsHold, LookupHolds, RefsKept
    <3>. HIDE DEF x
    <3>3. /\ entries'[x].value # Null /\ entries'[x].key = entries[x].key
          /\ entries'[x].ref = entries[x].ref
          /\ \A s \in Slots \ {x} : entries'[s] = entries[s]
      BY <1>0, <2>1, <2>4, <3>2 DEF EntryType
    <3>4. \A s \in Slots : Live(s)' <=> Live(s) \/ s = x
      BY <2>4, <3>3 DEF Live
    <3>5. Retainers(entries[x].key) = {}
      <4>1. Holding(entries[x].key) = {}
        BY <3>2 DEF Holding
      <4>2. entries[x].key # NoKey
        BY <1>0, <3>2, DictAssumption DEF EntryType
      <4>. QED  BY <4>1, <4>2 DEF RefsKept, Retainers
    <3>6. RefExact'
      <4>1. {u \in Tasks : pins'[u] = entries'[x].key} = {}
        BY <2>2, <3>3, <3>5 DEF Retainers
      <4>2. entries'[x].ref = Cardinality({u \in Tasks : pins'[u] = entries'[x].key})
        BY <3>2, <3>3, <4>1, FS_EmptySet
      <4>3. \A s \in Slots \ {x} : Live(s)' =>
                entries'[s].ref = Cardinality({u \in Tasks : pins'[u] = entries'[s].key})
        BY <1>0, <2>2, <3>3, <3>4 DEF RefExact
      <4>. QED  BY <4>2, <4>3 DEF RefExact
    <3>7. \A k : Holding(k) \subseteq Holding(k)'
      BY <3>2, <3>3, <3>4 DEF Holding
    <3>8. \A u \in Tasks : call'[u].pc \notin {"trim", "alloc"}
      BY <2>2, <3>1, Alone
    <3>9. \A s \in Slots \ {x} : Live(s)' => entries'[s].len \in Lens
      BY <2>2, <3>3, <3>4, Alone DEF RefsKept
    <3>. QED  BY <2>2, <3>1, <3>6, <3>7, <3>8, <3>9 DEF RefsKept
  <2>. QED  BY <2>3, <2>4
<1>8. ASSUME NEW t \in Tasks, CopyBegin(t) \/ Stamp(t) PROVE RefsKept'
  <2>1. /\ UNCHANGED pins /\ \A u \in Tasks \ {t} : call'[u] = call[u]
        /\ call'[t].slot = call[t].slot
        /\ \/ call[t].pc = "copy" /\ call'[t].pc = "copying"
           \/ call[t].pc = "stamp" /\ call'[t].pc = "give"
    BY <1>0, <1>8 DEF CopyBegin, Stamp, Goto, CallState
  <2>2. entries' = entries \/
        \E n : entries' = [entries EXCEPT ![call[t].slot] =
                              [entries[call[t].slot] EXCEPT !.version = n]]
    BY <1>8 DEF CopyBegin, Stamp
  <2>3. \A s \in Slots : /\ entries'[s].key = entries[s].key
                         /\ entries'[s].value = entries[s].value
                         /\ entries'[s].len = entries[s].len /\ entries'[s].ref = entries[s].ref
    <3>1. ASSUME NEW n, entries' = [entries EXCEPT ![call[t].slot] =
                                      [entries[call[t].slot] EXCEPT !.version = n]]
          PROVE  \A s \in Slots : /\ entries'[s].key = entries[s].key
                                  /\ entries'[s].value = entries[s].value
                                  /\ entries'[s].len = entries[s].len
                                  /\ entries'[s].ref = entries[s].ref
      <4>. DEFINE x == call[t].slot
      <4>1. x \in Slots /\ entries' = [entries EXCEPT ![x] = [entries[x] EXCEPT !.version = n]]
        BY <1>0, <3>1
      <4>. HIDE DEF x
      <4>. QED  BY <1>0, <4>1 DEF EntryType
    <3>. QED  BY <2>2, <3>1
  <2>. QED  BY <1>0, <2>1, <2>3, RefsQuiet
<1>9. ASSUME NEW t \in Tasks, CopyEnd(t) PROVE RefsKept'
  <2>. DEFINE x == call[t].slot
  <2>1. /\ UNCHANGED pins /\ \A u \in Tasks \ {t} : call'[u] = call[u]
        /\ call'[t].pc = "stamp" /\ call[t].pc = "copying" /\ Inside(t) /\ call[t].len \in Lens
        /\ entries' = [entries EXCEPT ![x] = [entries[x] EXCEPT !.len = call[t].len]]
    BY <1>0, <1>9 DEF CopyEnd, Goto, CallState, Inside, CallsFit, ArgumentsFit
  <2>2. /\ \A s \in Slots : /\ entries'[s].key = entries[s].key
                            /\ entries'[s].value = entries[s].value
                            /\ entries'[s].ref = entries[s].ref
        /\ entries'[x].len \in Lens
        /\ \A s \in Slots \ {x} : entries'[s].len = entries[s].len
    BY <1>0, <2>1 DEF EntryType
  <2>3. \A s \in Slots : Live(s)' <=> Live(s)
    BY <2>2 DEF Live
  <2>4. \A k : Holding(k)' = Holding(k)
    BY <2>2, <2>3 DEF Holding
  <2>5. RefExact'
    BY <1>0, <2>1, <2>2, <2>3 DEF RefExact
  <2>6. \A u \in Tasks : call'[u].pc \notin {"trim", "alloc"}
    BY <2>1, Alone
  <2>7. \A s \in Slots : s # x /\ Live(s)' => entries'[s].len \in Lens
    BY <2>1, <2>2, <2>3, Alone DEF RefsKept
  <2>8. \A s \in Slots : Live(s)' => entries'[s].len \in Lens
    BY <2>2, <2>7
  <2>. HIDE DEF x
  <2>. QED  BY <2>1, <2>4, <2>5, <2>6, <2>8 DEF RefsKept
<1>10. ASSUME NEW t \in Tasks, Retain(t) \/ Release(t) PROVE RefsKept'
  <2>. DEFINE k == call[t].key   x == First(Holding(k))
  <2>1. /\ \A u \in Tasks \ {t} : call'[u] = call[u] /\ pins'[u] = pins[u]
        /\ call'[t].pc = "give" /\ Inside(t) /\ call[t].pc \in {"retain", "release"}
        /\ k \in Keys
    BY <1>0, <1>10 DEF Retain, Release, Goto, CallState, Inside, TypeOK, KeyedCall, CallsFit,
                       ArgumentsFit
  <2>2. CASE Holding(k) = {}
    <3>1. call[t].pc = "retain"
      BY <1>10, <2>1, <2>2, DictAssumption
         DEF Retain, Release, CallsFit, ArgumentsFit, RefsKept
    <3>2. UNCHANGED <<entries, pins>>
      BY <1>10, <2>2, <3>1 DEF Retain, Release
    <3>. QED  BY <1>1, <2>1, <3>2
  <2>3. CASE Holding(k) # {}
    <3>1. x \in Slots /\ entries[x] \in EntryType /\ entries[x].key = k /\ Live(x)
      BY <2>3, HoldingType, DictAssumption DEF Live
    <3>2. \A s \in Slots : Live(s) /\ s # x => entries[s].key # k
      BY <3>1 DEF UniqueKeys
    <3>3. entries[x].ref = Cardinality(Retainers(k))
      BY <1>0, <3>1 DEF RefExact, Retainers
    <3>4. PICK n : entries' = [entries EXCEPT ![x] = [entries[x] EXCEPT !.ref = n]]
                   /\ n = Cardinality({u \in Tasks : pins'[u] = k})
      <4>1. entries[x].ref \in Word
        BY <3>1 DEF EntryType
      <4>2. CASE Retain(t)
        <5>1. AddRef(x, 1) /\ pins' = [pins EXCEPT ![t] = k] /\ t \notin Retainers(k)
          BY <1>0, <2>1, <2>3, <4>2, DictAssumption DEF Retain, CallsFit, ArgumentsFit, Retainers
        <5>2. {u \in Tasks : pins'[u] = k} = Retainers(k) \cup {t}
          BY <1>0, <5>1 DEF Retainers
        <5>3. /\ Cardinality(Retainers(k) \cup {t}) = entries[x].ref + 1
              /\ entries[x].ref + 1 < WordMod
          BY <3>3, <5>1, RetainersCounted
        <5>4. Plus(entries[x].ref, 1) = entries[x].ref + 1
          BY <4>1, <5>3, Counting
        <5>. QED  BY <5>1, <5>2, <5>3, <5>4 DEF AddRef
      <4>3. CASE Release(t)
        <5>1. AddRef(x, WordMod - 1) /\ pins' = [pins EXCEPT ![t] = NoKey] /\ t \in Retainers(k)
          BY <1>0, <2>1, <2>3, <4>3, DictAssumption DEF Release, CallsFit, ArgumentsFit, Retainers
        <5>2. {u \in Tasks : pins'[u] = k} = Retainers(k) \ {t}
          BY <1>0, <2>1, <5>1, DictAssumption DEF Retainers
        <5>3. /\ Cardinality(Retainers(k) \ {t}) = entries[x].ref - 1
              /\ entries[x].ref > 0
          BY <3>3, <5>1, RetainersCounted
        <5>4. Plus(entries[x].ref, WordMod - 1) = entries[x].ref - 1
          BY <4>1, <5>3, Counting
        <5>. QED  BY <5>1, <5>2, <5>3, <5>4 DEF AddRef
      <4>. QED  BY <1>10, <4>2, <4>3
    <3>. HIDE DEF x
    <3>5. /\ \A s \in Slots : /\ entries'[s].key = entries[s].key
                              /\ entries'[s].value = entries[s].value
                              /\ entries'[s].len = entries[s].len
          /\ entries'[x].ref = n /\ \A s \in Slots \ {x} : entries'[s].ref = entries[s].ref
      BY <1>0, <3>1, <3>4 DEF EntryType
    <3>6. \A s \in Slots : Live(s)' <=> Live(s)
      BY <3>5 DEF Live
    <3>7. \A l : Holding(l)' = Holding(l)
      BY <3>5, <3>6 DEF Holding
    <3>8. pins'[t] \in {k, NoKey} /\ pins[t] \in {k, NoKey}
      BY <1>0, <1>10, <2>1, <2>3 DEF Retain, Release, CallsFit, ArgumentsFit
    <3>9. RefExact'
      <4>1. ASSUME NEW s \in Slots \ {x}, Live(s)
            PROVE  {u \in Tasks : pins'[u] = entries[s].key} = {u \in Tasks : pins[u] = entries[s].key}
        <5>1. entries[s].key \notin {k, NoKey}
          BY <1>0, <3>2, <4>1, DictAssumption DEF EntryType
        <5>. QED  BY <2>1, <3>8, <5>1
      <4>2. \A s \in Slots \ {x} : Live(s)' =>
                entries'[s].ref = Cardinality({u \in Tasks : pins'[u] = entries'[s].key})
        BY <1>0, <3>5, <3>6, <4>1 DEF RefExact
      <4>3. entries'[x].ref = Cardinality({u \in Tasks : pins'[u] = entries'[x].key})
        BY <3>1, <3>4, <3>5
      <4>. QED  BY <4>2, <4>3 DEF RefExact
    <3>10. \A u \in Tasks : pins'[u] # NoKey => Holding(pins[u])' # {}
      <4>1. \A u \in Tasks : pins'[u] # NoKey => Holding(pins'[u]) # {}
        BY <2>1, <2>3, <3>8 DEF RefsKept
      <4>. QED  BY <3>7, <4>1
    <3>11. \A u \in Tasks : call'[u].pc \notin {"trim", "alloc", "copy", "copying"}
      BY <2>1, Alone
    <3>12. \A s \in Slots : Live(s)' => entries'[s].len \in Lens
      BY <2>1, <3>5, <3>6, Alone DEF RefsKept
    <3>. QED  BY <3>9, <3>10, <3>11, <3>12 DEF RefsKept
  <2>. QED  BY <2>2, <2>3
<1>11. ASSUME NEW t \in Tasks, Sweep(t) PROVE RefsKept'
  <2>. DEFINE x == call[t].slot
  <2>1. /\ UNCHANGED pins /\ \A u \in Tasks \ {t} : call'[u] = call[u]
        /\ call'[t].pc \in {"sweep", "give"} /\ call[t].pc = "sweep" /\ Inside(t) /\ x \in Slots
    BY <1>0, <1>11 DEF Sweep, CallState, Inside
  <2>2. CASE UNCHANGED entries
    BY <1>1, <2>1, <2>2
  <2>3. CASE ~UNCHANGED entries
    <3>1. /\ Live(x) /\ entries[x].ref = 0
          /\ entries' = [entries EXCEPT ![x] = [key |-> ZeroKey, value |-> Null, len |-> 0,
                                                version |-> 0, ref |-> 0]]
      BY <1>11, <2>3 DEF Sweep, dict
    <3>2. entries'[x].value = Null /\ \A s \in Slots \ {x} : entries'[s] = entries[s]
      BY <1>0, <2>1, <3>1
    <3>. HIDE DEF x
    <3>3. \A s \in Slots : Live(s)' <=> Live(s) /\ s # x
      BY <2>1, <3>2 DEF Live
    <3>4. Retainers(entries[x].key) = {}
      <4>1. Cardinality(Retainers(entries[x].key)) = 0
        BY <1>0, <2>1, <3>1 DEF RefExact, Retainers
      <4>. QED  BY <4>1, RetainersCounted
    <3>5. RefExact'
      BY <1>0, <2>1, <3>2, <3>3 DEF RefExact
    <3>6. \A k : k # entries[x].key => Holding(k)' = Holding(k)
      BY <2>1, <3>2, <3>3 DEF Holding
    <3>7. \A u \in Tasks : pins[u] # entries[x].key
      BY <3>4 DEF Retainers
    <3>8. \A u \in Tasks : call'[u].pc \notin {"trim", "alloc"}
      BY <2>1, Alone
    <3>9. \A s \in Slots : Live(s)' => entries'[s].len \in Lens
      BY <2>1, <3>2, <3>3, Alone DEF RefsKept
    <3>. QED  BY <2>1, <3>5, <3>6, <3>7, <3>8, <3>9 DEF RefsKept
  <2>. QED  BY <2>2, <2>3
<1>. QED  BY <1>2, <1>3, <1>4, <1>5, <1>6, <1>7, <1>8, <1>9, <1>10, <1>11
          DEF Next, TaskStep, SetStep, Begins

\* It begins without references.
LEMMA RefsInit == Init => RefsKept
<1>. SUFFICES ASSUME Init PROVE RefsKept
  OBVIOUS
<1>1. \A t \in Tasks : call[t].pc = "idle" /\ pins[t] = NoKey
  BY DEF Init, Idle
<1>2. \A s \in Slots : ~Live(s)
  BY DEF Init, Live
<1>. QED  BY <1>1, <1>2 DEF RefsKept, RefExact

\* Reference counts are the pins that exist, as long as no lock times out.
LEMMA RefsKeptInvariant == ASSUME ~LockTimesOut, PlainRetaining PROVE Spec => []RefsKept
<1>1. Init => RefsKept
  BY RefsInit
<1>2. DictInv /\ TypeOK' /\ CallsFit /\ RefsKept /\ [Next]_vars => RefsKept'
  BY RefsStep
<1>. QED  BY <1>1, <1>2, TypeCorrect, DictConsistent, CallsFitInvariant, PTL DEF Spec, DictInv

\* The reference count of an entry is the number of the tasks that retain its key, however
\* retains, releases, writes and cleanups come together.
THEOREM CountsAreExact ==
    ASSUME ~LockTimesOut, PlainRetaining
    PROVE  Spec => []RefExact
<1>1. RefsKept => RefExact
  BY DEF RefsKept
<1>. QED  BY <1>1, RefsKeptInvariant, PTL

\* Under the steps of the dictionary a value stays where it is, unless a cleanup meets it
\* without a reference.
LEMMA ValueStays ==
    ASSUME PlainRetaining, TypeOK, LookupsHold, CallsFit, RefsKept, Next,
           NEW s \in Slots, Live(s),
           entries[s].ref # 0 \/ \A t \in Tasks : call[t].pc # "sweep"
    PROVE  entries'[s].value = entries[s].value /\ entries'[s].key = entries[s].key
<1>0. /\ entries \in [Slots -> EntryType]
      /\ \A t \in Tasks : call[t] \in CallState
  BY DEF TypeOK, EntryType
<1>1. CASE UNCHANGED entries
  BY <1>1
<1>2. ASSUME NEW x \in Slots \ {s}, NEW e, entries' = [entries EXCEPT ![x] = e]
      PROVE  entries'[s] = entries[s]
  BY <1>0, <1>2
<1>3. ASSUME NEW x, NEW n,
             \/ entries' = [entries EXCEPT ![x] = [entries[x] EXCEPT !.len = n]]
             \/ entries' = [entries EXCEPT ![x] = [entries[x] EXCEPT !.version = n]]
             \/ entries' = [entries EXCEPT ![x] = [entries[x] EXCEPT !.ref = n]]
      PROVE  entries'[s].value = entries[s].value /\ entries'[s].key = entries[s].key
  BY <1>0, <1>3 DEF EntryType
<1>4. ASSUME NEW t \in Tasks, ClaimSlot(t) PROVE UNCHANGED entries \/ entries'[s] = entries[s]
  <2>. DEFINE free == {r \in Slots : ~Live(r)}   x == First(free)
  <2>1. CASE free = {}
    BY <1>4, <2>1 DEF ClaimSlot
  <2>2. CASE free # {}
    <3>1. x \in free
      BY <2>2, FirstIn
    <3>2. x \in Slots \ {s}
      BY <3>1
    <3>3. \E e : entries' = [entries EXCEPT ![x] = e]
      BY <1>4, <2>2 DEF ClaimSlot
    <3>. HIDE DEF x
    <3>. QED  BY <1>2, <3>2, <3>3
  <2>. QED  BY <2>1, <2>2
<1>5. ASSUME NEW t \in Tasks, TrimValue(t) PROVE UNCHANGED entries
  <2>. DEFINE e == entries[call[t].slot]
  <2>1. call[t].pc = "trim" /\ Inside(t) /\ call[t].len \in Lens /\ call[t].slot \in Slots
    BY <1>0, <1>5 DEF TrimValue, Inside, CallsFit, ArgumentsFit, CallState
  <2>2. Live(call[t].slot) => e.len \in Lens
    BY <2>1, Alone DEF RefsKept
  <2>3. ~ (e.value # Null /\ e.len # call[t].len)
    BY <2>1, <2>2 DEF PlainRetaining, Live
  <2>. QED  BY <1>5, <2>3 DEF TrimValue, dict
<1>6. ASSUME NEW t \in Tasks, AllocValue(t) PROVE UNCHANGED entries \/ entries'[s] = entries[s]
  <2>. DEFINE x == call[t].slot
  <2>1. UNCHANGED entries \/ \E e : entries' = [entries EXCEPT ![x] = e]
    BY <1>6 DEF AllocValue, dict
  <2>2. x \in Slots \ {s}
    BY <1>0, <1>6 DEF AllocValue, CallState, LookupsHold, LookupHolds
  <2>. HIDE DEF x
  <2>. QED  BY <1>2, <2>1, <2>2
<1>7. ASSUME NEW t \in Tasks, Sweep(t) PROVE UNCHANGED entries \/ entries'[s] = entries[s]
  <2>. DEFINE x == call[t].slot
  <2>1. \/ UNCHANGED entries
        \/ entries[x].ref = 0 /\ \E e : entries' = [entries EXCEPT ![x] = e]
    BY <1>7 DEF Sweep, dict
  <2>2. entries[s].ref # 0
    BY <1>7 DEF Sweep
  <2>3. x \in Slots
    BY <1>0 DEF CallState
  <2>. HIDE DEF x
  <2>. QED  BY <1>2, <2>1, <2>2, <2>3
<1>8. ASSUME NEW t \in Tasks, CopyBegin(t) \/ CopyEnd(t) \/ Stamp(t) \/ Retain(t) \/ Release(t)
      PROVE  entries'[s].value = entries[s].value /\ entries'[s].key = entries[s].key
  <2>1. \/ UNCHANGED entries
        \/ \E x, n :
             \/ entries' = [entries EXCEPT ![x] = [entries[x] EXCEPT !.len = n]]
             \/ entries' = [entries EXCEPT ![x] = [entries[x] EXCEPT !.version = n]]
             \/ entries' = [entries EXCEPT ![x] = [entries[x] EXCEPT !.ref = n]]
    BY <1>8 DEF CopyBegin, CopyEnd, Stamp, Retain, Release, AddRef
  <2>. QED  BY <1>3, <2>1
<1>9. ASSUME NEW t \in Tasks, Begins(t) \/ Take(t) \/ Give(t) \/ FindEntry(t)
                                \/ ReadValue(t) \/ ReadMeta(t)
      PROVE  UNCHANGED entries
  BY <1>9 DEF Begins, BeginSet, BeginGet, BeginRetain, BeginRelease, BeginCleanup, Begin,
              Take, Give, FindEntry, ReadValue, ReadMeta, dict
<1>. QED  BY <1>1, <1>4, <1>5, <1>6, <1>7, <1>8, <1>9 DEF Next, TaskStep, SetStep, Begins

\* As long as a task retains a key, neither writes nor cleanups free or move its value.
THEOREM RetainedIsKept ==
    ASSUME ~LockTimesOut, PlainRetaining
    PROVE  Spec => RetainedStays
<1>. DEFINE Stays == \A t \in Tasks, s \in Slots :
                        /\ pins[t] # NoKey /\ pins'[t] = pins[t]
                        /\ Live(s) /\ entries[s].key = pins[t]
                        => entries'[s].value = entries[s].value /\ entries'[s].key = pins[t]
<1>1. DictInv /\ CallsFit /\ RefsKept /\ [Next]_vars => [Stays]_vars
  <2>. SUFFICES ASSUME TypeOK, LookupsHold, CallsFit, RefsKept, Next, NEW s \in Slots, Live(s),
                       NEW u \in Tasks, entries[s].key = pins[u]
                PROVE  entries'[s].value = entries[s].value /\ entries'[s].key = entries[s].key
    BY DEF DictInv
  <2>1. entries[s].ref = Cardinality(Retainers(entries[s].key)) /\ u \in Retainers(entries[s].key)
    BY DEF RefsKept, RefExact, Retainers
  <2>2. entries[s].ref # 0
    BY <2>1, RetainersCounted
  <2>. QED  BY <2>2, ValueStays
<1>. QED
  BY <1>1, TypeCorrect, DictConsistent, CallsFitInvariant, RefsKeptInvariant, PTL
     DEF Spec, RetainedStays, DictInv

-----------------------------------------------------------------------------
(***************************************************************************)
(* The dictionary as a store.  What the steps of a write, of a read and of *)
(* a cleanup do to the fields of the entries and to the blocks:            *)
(***************************************************************************)
Moved(t, l) ==
    /\ call'[t].pc = l /\ call'[t].key = call[t].key /\ call'[t].len = call[t].len
    /\ call'[t].data = call[t].data
    /\ \A u \in Tasks \ {t} : call'[u] = call[u]

Resumed(t, l) == Moved(t, l) /\ call'[t].slot = call[t].slot /\ call'[t].old = call[t].old

OthersKept(x) == \A s \in Slots \ {x} : entries'[s] = entries[s]

Claimed(t, x) ==
    /\ Moved(t, "trim") /\ call'[t].slot = x /\ ~Live(x) /\ mem' = mem /\ OthersKept(x)
    /\ entries'[x].value = Null /\ entries'[x].version = 0

Trimmed(t, x) ==
    LET drop == Live(x) /\ entries[x].len # call[t].len IN
    /\ Moved(t, IF call[t].len = 0 THEN "stamp"
                ELSE IF drop \/ ~Live(x) THEN "alloc" ELSE "copy")
    /\ call'[t].slot = x
    /\ call'[t].old = IF call[t].len = 0 THEN Absent ELSE Actual(call[t].key)
    /\ OthersKept(x) /\ entries'[x].key = entries[x].key
    /\ entries'[x].version = entries[x].version
    /\ IF drop THEN entries'[x].value = Null /\ mem' = [mem EXCEPT ![entries[x].value] = Torn]
       ELSE entries'[x] = entries[x] /\ mem' = mem

Allocated(t, x, b) ==
    /\ Resumed(t, "copy") /\ b \in Blocks \ used /\ b # Null /\ mem' = [mem EXCEPT ![b] = Torn]
    /\ OthersKept(x) /\ entries'[x].key = entries[x].key /\ entries'[x].value = b
    /\ entries'[x].version = entries[x].version

Copied(x, d) ==
    /\ Live(x) /\ mem' = [mem EXCEPT ![entries[x].value] = d]
    /\ OthersKept(x) /\ entries'[x].key = entries[x].key
    /\ entries'[x].value = entries[x].value /\ entries'[x].version = entries[x].version

Stamped(t, x) ==
    /\ Resumed(t, "give") /\ mem' = mem /\ OthersKept(x)
    /\ entries'[x].key = entries[x].key /\ entries'[x].value = entries[x].value
    /\ entries'[x].len = entries[x].len /\ entries'[x].version = Plus(entries[x].version, 1)

Swept(x) ==
    /\ Live(x) /\ OthersKept(x) /\ entries'[x].value = Null
    /\ mem' = [mem EXCEPT ![entries[x].value] = Torn]

\* Nothing but reference counts changes.
ContentsKept ==
    /\ mem' = mem
    /\ \A s \in Slots : /\ entries'[s].key = entries[s].key
                        /\ entries'[s].value = entries[s].value
                        /\ entries'[s].len = entries[s].len
                        /\ entries'[s].version = entries[s].version

\* A jump of one call is a step of that call alone.
LEMMA GotoMoves ==
    ASSUME TypeOK, NEW t \in Tasks, NEW l \in PCs, Goto(t, l) PROVE Resumed(t, l)
BY DEF TypeOK, CallState, Goto, Resumed, Moved

\* find_or_create claims a free slot for the key, or gives up on a full table.
LEMMA ClaimDoes ==
    ASSUME TypeOK, NEW t \in Tasks, ClaimSlot(t)
    PROVE  \/ Resumed(t, "give") /\ UNCHANGED <<entries, mem>>
           \/ \E x \in Slots : Claimed(t, x)
<1>0. entries \in [Slots -> EntryType] /\ call[t] \in CallState /\ call \in [Tasks -> CallState]
  BY DEF TypeOK, EntryType
<1>. DEFINE free == {s \in Slots : ~Live(s)}   x == First(free)
<1>1. CASE free = {}
  <2>1. Goto(t, "give") /\ UNCHANGED <<entries, mem>>
    BY <1>1 DEF ClaimSlot
  <2>. QED  BY <2>1, GotoMoves DEF PCs
<1>2. CASE free # {}
  <2>1. x \in free
    BY <1>2, FirstIn
  <2>2. /\ call' = [call EXCEPT ![t] = [call[t] EXCEPT !.pc = "trim", !.slot = x]]
        /\ entries' = [entries EXCEPT ![x] =
                          [entries[x] EXCEPT !.key = call[t].key, !.version = 0, !.ref = 0]]
        /\ mem' = mem
    BY <1>2 DEF ClaimSlot
  <2>3. x \in Slots /\ ~Live(x)
    BY <2>1
  <2>. HIDE DEF x, free
  <2>4. Moved(t, "trim") /\ call'[t].slot = x
    BY <1>0, <2>2 DEF CallState, Moved
  <2>5. OthersKept(x) /\ entries'[x].value = Null /\ entries'[x].version = 0
    BY <1>0, <2>2, <2>3 DEF EntryType, OthersKept, Live
  <2>. QED  BY <2>2, <2>3, <2>4, <2>5 DEF Claimed
<1>. QED  BY <1>1, <1>2

\* A set first frees a block of another length than the one it needs.
LEMMA TrimDoes ==
    ASSUME TypeOK, NEW t \in Tasks, TrimValue(t)
    PROVE  call[t].slot \in Slots /\ Trimmed(t, call[t].slot)
<1>0. entries \in [Slots -> EntryType] /\ call[t] \in CallState /\ call \in [Tasks -> CallState]
      /\ call[t].slot \in Slots
  BY DEF TypeOK, EntryType, CallState
<1>. DEFINE x == call[t].slot   drop == Live(x) /\ entries[x].len # call[t].len
            l == IF call[t].len = 0 THEN "stamp"
                 ELSE IF drop \/ ~Live(x) THEN "alloc" ELSE "copy"
            o == IF call[t].len = 0 THEN Absent ELSE Actual(call[t].key)
<1>1. call' = [call EXCEPT ![t] = [call[t] EXCEPT !.pc = l, !.old = o]]
  BY DEF TrimValue, Live
<1>2. IF drop THEN /\ mem' = [mem EXCEPT ![entries[x].value] = Torn]
                   /\ entries' = [entries EXCEPT ![x] = [entries[x] EXCEPT !.value = Null, !.len = 0]]
      ELSE UNCHANGED <<entries, mem>>
  BY DEF TrimValue, Live, dict
<1>3. Moved(t, l) /\ call'[t].slot = x /\ call'[t].old = o
  <2>. HIDE DEF l, o
  <2>. QED  BY <1>0, <1>1 DEF CallState, Moved
<1>4. CASE drop
  <2>1. OthersKept(x) /\ entries'[x].value = Null /\ entries'[x].key = entries[x].key
        /\ entries'[x].version = entries[x].version
    <3>1. /\ x \in Slots
          /\ entries' = [entries EXCEPT ![x] = [entries[x] EXCEPT !.value = Null, !.len = 0]]
      BY <1>0, <1>2, <1>4
    <3>. HIDE DEF x
    <3>. QED  BY <1>0, <3>1 DEF EntryType, OthersKept
  <2>. QED  BY <1>0, <1>2, <1>3, <1>4, <2>1 DEF Trimmed
<1>5. CASE ~drop
  BY <1>0, <1>2, <1>3, <1>5 DEF Trimmed, OthersKept
<1>. QED  BY <1>4, <1>5

\* The allocation of a set succeeds with a new block, or ends the call.
LEMMA AllocDoes ==
    ASSUME TypeOK, NEW t \in Tasks, AllocValue(t)
    PROVE  /\ call[t].slot \in Slots
           /\ \/ Resumed(t, "give") /\ UNCHANGED <<entries, mem>>
              \/ \E b : Allocated(t, call[t].slot, b)
<1>0. entries \in [Slots -> EntryType] /\ call[t].slot \in Slots
  BY DEF TypeOK, EntryType, CallState
<1>. DEFINE x == call[t].slot
<1>1. PICK b \in Allocatable(call[t].len) :
        IF b = Null THEN Goto(t, "give") /\ UNCHANGED <<entries, mem>>
        ELSE /\ mem' = [mem EXCEPT ![b] = Torn] /\ Goto(t, "copy")
             /\ entries' = [entries EXCEPT ![x] = [entries[x] EXCEPT !.value = b]]
  BY DEF AllocValue, dict
<1>2. CASE b = Null
  BY <1>0, <1>1, <1>2, GotoMoves DEF PCs
<1>3. CASE b # Null
  <2>1. b \in Blocks \ used
    BY <1>3 DEF Allocatable, Blocks
  <2>2. Resumed(t, "copy")
    BY <1>1, <1>3, GotoMoves DEF PCs
  <2>3. OthersKept(x) /\ entries'[x].value = b /\ entries'[x].key = entries[x].key
        /\ entries'[x].version = entries[x].version
    <3>1. x \in Slots /\ entries' = [entries EXCEPT ![x] = [entries[x] EXCEPT !.value = b]]
      BY <1>0, <1>1, <1>3
    <3>. HIDE DEF x
    <3>. QED  BY <1>0, <3>1 DEF EntryType, OthersKept
  <2>. QED  BY <1>0, <1>1, <1>3, <2>1, <2>2, <2>3 DEF Allocated
<1>. QED  BY <1>2, <1>3

\* The memcpy of a set: the value is torn while it lasts and whole after it.
LEMMA CopyDoes ==
    ASSUME TypeOK, NEW t \in Tasks, CopyBegin(t) \/ CopyEnd(t)
    PROVE  /\ call[t].slot \in Slots
           /\ \/ /\ call[t].pc = "copy" /\ Resumed(t, "copying") /\ Copied(call[t].slot, Torn)
                 /\ entries' = entries
              \/ /\ call[t].pc = "copying" /\ Resumed(t, "stamp")
                 /\ Copied(call[t].slot, call[t].data)
                 /\ entries'[call[t].slot].len = call[t].len
<1>0. entries \in [Slots -> EntryType] /\ call[t].slot \in Slots
  BY DEF TypeOK, EntryType, CallState
<1>1. CASE CopyBegin(t)
  <2>1. Resumed(t, "copying")
    BY <1>1, GotoMoves DEF CopyBegin, PCs
  <2>. QED  BY <1>0, <1>1, <2>1 DEF CopyBegin, Copied, OthersKept, Live
<1>2. CASE CopyEnd(t)
  <2>1. Resumed(t, "stamp")
    BY <1>2, GotoMoves DEF CopyEnd, PCs
  <2>. DEFINE x == call[t].slot
  <2>2. x \in Slots /\ entries' = [entries EXCEPT ![x] = [entries[x] EXCEPT !.len = call[t].len]]
        /\ call[t].pc = "copying" /\ entries[x].value # Null
        /\ mem' = [mem EXCEPT ![entries[x].value] = call[t].data]
    BY <1>0, <1>2 DEF CopyEnd
  <2>. HIDE DEF x
  <2>3. Copied(x, call[t].data) /\ entries'[x].len = call[t].len
    BY <1>0, <2>2 DEF Copied, OthersKept, Live, EntryType
  <2>. QED  BY <1>0, <2>1, <2>2, <2>3 DEF x
<1>. QED  BY <1>1, <1>2

\* The last assignments of a set give the slot its type, length and version.
LEMMA StampDoes ==
    ASSUME TypeOK, NEW t \in Tasks, Stamp(t)
    PROVE  call[t].slot \in Slots /\ Stamped(t, call[t].slot)
<1>0. entries \in [Slots -> EntryType] /\ call[t].slot \in Slots
  BY DEF TypeOK, EntryType, CallState
<1>1. Resumed(t, "give") /\ mem' = mem
  BY GotoMoves DEF Stamp, PCs
<1>. DEFINE x == call[t].slot
<1>2. x \in Slots /\ entries' = [entries EXCEPT ![x] =
                        [entries[x] EXCEPT !.version = Plus(entries[x].version, 1)]]
  BY <1>0 DEF Stamp
<1>. HIDE DEF x
<1>3. Stamped(t, x)
  BY <1>0, <1>1, <1>2 DEF Stamped, OthersKept, EntryType
<1>. QED  BY <1>0, <1>3 DEF x

\* A sweep step clears the slot it is at, with its block, or passes it by.
LEMMA SweepDoes ==
    ASSUME TypeOK, NEW t \in Tasks, Sweep(t)
    PROVE  /\ call[t].slot \in Slots /\ \A u \in Tasks \ {t} : call'[u] = call[u]
           /\ call'[t].pc \in {"sweep", "give"} /\ UNCHANGED answer
           /\ UNCHANGED <<entries, mem>> \/ Swept(call[t].slot)
<1>0. entries \in [Slots -> EntryType] /\ call[t] \in CallState /\ call[t].slot \in Slots
      /\ call \in [Tasks -> CallState]
  BY DEF TypeOK, EntryType, CallState
<1>. DEFINE x == call[t].slot
<1>1. \/ UNCHANGED <<entries, mem>>
      \/ /\ Live(x) /\ mem' = [mem EXCEPT ![entries[x].value] = Torn]
         /\ entries' = [entries EXCEPT ![x] = [key |-> ZeroKey, value |-> Null, len |-> 0,
                                               version |-> 0, ref |-> 0]]
  BY DEF Sweep, dict
<1>2. /\ \A u \in Tasks \ {t} : call'[u] = call[u]
      /\ call'[t].pc \in {"sweep", "give"} /\ UNCHANGED answer
  BY <1>0 DEF Sweep, CallState
<1>3. UNCHANGED <<entries, mem>> \/ Swept(x)
  <2>1. x \in Slots
    BY <1>0
  <2>. HIDE DEF x
  <2>. QED  BY <1>0, <1>1, <2>1 DEF Swept, OthersKept
<1>. QED  BY <1>0, <1>2, <1>3

\* retain and release change no content.
LEMMA RefMoves ==
    ASSUME TypeOK, NEW t \in Tasks, Retain(t) \/ Release(t) PROVE ContentsKept
<1>0. entries \in [Slots -> EntryType]
  BY DEF TypeOK, EntryType
<1>. DEFINE x == First(Holding(call[t].key))
<1>1. /\ mem' = mem
      /\ \/ entries' = entries
         \/ \E n : entries' = [entries EXCEPT ![x] = [entries[x] EXCEPT !.ref = n]]
  BY DEF Retain, Release, AddRef
<1>. HIDE DEF x
<1>. QED  BY <1>0, <1>1 DEF ContentsKept, EntryType

\* A get that finds its key has copied the value and its length.
ReadIn(t, x) ==
    /\ Live(x) /\ entries[x].key = call[t].key /\ answer' = answer
    /\ call'[t].pc = "meta" /\ call'[t].key = call[t].key /\ call'[t].slot = x
    /\ call'[t].data = mem[entries[x].value] /\ call'[t].len = entries[x].len
    /\ \A u \in Tasks \ {t} : call'[u] = call[u]

\* A get or get_meta answers from the slot of its key, or that there is none.
LEMMA ReadDoes ==
    ASSUME TypeOK, NEW t \in Tasks, ReadValue(t)
    PROVE  /\ UNCHANGED <<entries, mem>>
           /\ \/ /\ Holding(call[t].key) = {} /\ Resumed(t, "give")
                 /\ answer' = [answer EXCEPT ![t] = Absent]
              \/ \E x \in Slots : ReadIn(t, x)
<1>0. call[t] \in CallState /\ call \in [Tasks -> CallState] /\ Null \notin Blocks
  BY DictAssumption DEF TypeOK
<1>1. UNCHANGED <<entries, mem>>
  BY DEF ReadValue, dict
<1>. DEFINE found == Holding(call[t].key)   x == First(found)   e == entries[x]
<1>2. CASE found = {}
  <2>1. Resumed(t, "give")
    BY <1>2, GotoMoves DEF ReadValue, PCs
  <2>. QED  BY <1>1, <1>2, <2>1 DEF ReadValue
<1>3. CASE found # {}
  <2>1. x \in Slots /\ Live(x) /\ e.key = call[t].key
    BY <1>0, <1>3, HoldingType DEF Live
  <2>2. /\ call' = [call EXCEPT ![t] = [call[t] EXCEPT !.pc = "meta", !.slot = x,
                                          !.data = mem[e.value], !.len = e.len]]
        /\ answer' = answer
    BY <1>3 DEF ReadValue
  <2>. HIDE DEF x, found
  <2>3. ReadIn(t, x)
    BY <1>0, <2>1, <2>2 DEF ReadIn, CallState
  <2>. QED  BY <1>1, <2>1, <2>3
<1>. QED  BY <1>2, <1>3
\* A live entry is what a lookup of its key finds.
Value(s) == [data |-> mem[entries[s].value], len |-> entries[s].len, version |-> entries[s].version]

Lookups ==
    /\ \A s \in Slots : Live(s) => Actual(entries[s].key) = Value(s) /\ Value(s) \in Values
    /\ \A k \in Keys : (\A s \in Slots : Live(s) => entries[s].key # k) => Actual(k) = Absent

\* With unique keys a lookup finds the slot that holds the key.
LEMMA LookupsFind == TypeOK /\ UniqueKeys => Lookups
<1>. SUFFICES ASSUME TypeOK, UniqueKeys PROVE Lookups
  OBVIOUS
<1>1. ASSUME NEW s \in Slots, Live(s)
      PROVE  Actual(entries[s].key) = Value(s) /\ Value(s) \in Values
  <2>. DEFINE k == entries[s].key
  <2>1. s \in Holding(k)
    BY <1>1 DEF Holding
  <2>2. First(Holding(k)) \in Holding(k)
    BY <2>1, FirstIn DEF Holding
  <2>3. First(Holding(k)) = s
    BY <1>1, <2>2 DEF Holding, UniqueKeys
  <2>4. Actual(k) = Value(s)
    BY <2>1, <2>3 DEF Actual, Value
  <2>5. entries[s] \in EntryType /\ entries[s].value \in Blocks
    BY <1>1 DEF TypeOK, EntryType, Live
  <2>6. Value(s) \in Values
    BY <2>5 DEF Value, Values, TypeOK, EntryType
  <2>. QED  BY <2>4, <2>6
<1>2. ASSUME NEW k \in Keys, \A s \in Slots : Live(s) => entries[s].key # k
      PROVE  Actual(k) = Absent
  BY <1>2 DEF Actual, Holding
<1>. QED  BY <1>1, <1>2 DEF Lookups

\* A step that gives, changes or takes the value of one entry leaves the other keys alone.
LEMMA OtherKeysKept ==
    ASSUME Lookups, Lookups', NEW x \in Slots, NEW k \in Keys, OthersKept(x),
           Live(x) => entries[x].key # k, Live(x)' => entries'[x].key # k,
           \A s \in Slots \ {x} : Live(s) => mem'[entries[s].value] = mem[entries[s].value]
    PROVE  Actual(k)' = Actual(k)
<1>1. CASE \E s \in Slots : Live(s) /\ entries[s].key = k
  <2>1. PICK s \in Slots \ {x} : Live(s) /\ entries[s].key = k
    BY <1>1
  <2>2. entries'[s] = entries[s] /\ mem'[entries[s].value] = mem[entries[s].value]
    BY <2>1 DEF OthersKept
  <2>3. Actual(k) = Value(s)
    BY <2>1 DEF Lookups
  <2>4. Live(s)' /\ entries'[s].key = k
    BY <2>1, <2>2 DEF Live
  <2>5. Actual(k)' = Value(s)'
    <3>1. \A r \in Slots : Live(r)' /\ entries'[r].key = k => Actual(k)' = Value(r)'
      BY DEF Lookups
    <3>. QED  BY <2>4, <3>1
  <2>. QED  BY <2>2, <2>3, <2>5 DEF Value
<1>2. CASE \A s \in Slots : Live(s) => entries[s].key # k
  <2>1. \A s \in Slots : Live(s)' => entries'[s].key # k
    BY <1>2 DEF OthersKept, Live
  <2>. QED  BY <1>2, <2>1 DEF Lookups
<1>. QED  BY <1>1, <1>2

\* The blocks of the other entries are not the one of this entry, nor one that nobody uses.
LEMMA OtherBlocksKept ==
    ASSUME TypeOK, BlocksOwned, NEW x \in Slots, NEW b, NEW d,
           mem' = mem \/ mem' = [mem EXCEPT ![b] = d],
           b \notin used \/ (Live(x) /\ b = entries[x].value)
    PROVE  \A s \in Slots \ {x} : Live(s) => mem'[entries[s].value] = mem[entries[s].value]
<1>1. ASSUME NEW s \in Slots \ {x}, Live(s)
      PROVE  entries[s].value # b /\ entries[s].value \in Blocks
  BY <1>1 DEF BlocksOwned, Owned, TypeOK, Live
<1>. QED  BY <1>1 DEF TypeOK

-----------------------------------------------------------------------------
\* The call inside moves on with what it knows; calls outside know nothing of entries.
LEMMA WritesStep ==
    ASSUME LookupsHold, NEW t \in Tasks, Inside(t), \A u \in Tasks \ {t} : call'[u] = call[u],
           WriteKept(t)',
           \A s \in Slots : Live(s)' /\ entries'[s].len = 0 =>
               call'[t].pc \in {"copy", "copying"} /\ call'[t].slot = s
    PROVE  WritesKept'
<1>1. \A u \in Tasks \ {t} : call'[u].pc \in {"idle", "take"}
  BY Alone
<1>2. \A u \in Tasks \ {t} : WriteKept(u)'
  BY <1>1 DEF WriteKept
<1>. QED  BY <1>2 DEF WritesKept

\* Steps that leave the entries alone, of calls that are in no write and in no read.
LEMMA WritesQuiet ==
    ASSUME WritesKept, NEW t \in Tasks, UNCHANGED <<entries, mem>>,
           \A u \in Tasks \ {t} : call'[u] = call[u], call[t].pc \notin {"copy", "copying"},
           call'[t].pc \notin {"trim", "alloc", "copy", "copying", "stamp", "meta"}
    PROVE  WritesKept'
<1>1. \A u \in Tasks : WriteKept(u)'
  BY DEF WritesKept, WriteKept, Live
<1>2. \A s \in Slots : Live(s)' /\ entries'[s].len = 0 =>
          \E u \in Tasks : call'[u].pc \in {"copy", "copying"} /\ call'[u].slot = s
  <2>1. \A s \in Slots : Live(s)' /\ entries'[s].len = 0 =>
          \E u \in Tasks \ {t} : call[u].pc \in {"copy", "copying"} /\ call[u].slot = s
    BY DEF WritesKept, Live
  <2>. QED  BY <2>1
<1>. QED  BY <1>1, <1>2 DEF WritesKept

\* Only the write inside has an entry of length 0.
LEMMA EmptyIsMine ==
    ASSUME LookupsHold, WritesKept, NEW t \in Tasks, Inside(t), NEW s \in Slots,
           Live(s), entries[s].len = 0
    PROVE  call[t].pc \in {"copy", "copying"} /\ call[t].slot = s
BY Alone DEF WritesKept
\* What is known of the writes and reads under way stays true, unless a lock times out.
LEMMA WritesKeptInvariant == ASSUME ~LockTimesOut PROVE Spec => []WritesKept
<1>1. Init => WritesKept
  BY DEF Init, WritesKept, WriteKept, Live, Idle
<1>2. TypeOK /\ LookupsHold /\ Lookups /\ WritesKept /\ [Next]_vars => WritesKept'
  <2>. SUFFICES ASSUME TypeOK, LookupsHold, Lookups, WritesKept, [Next]_vars
                PROVE  WritesKept'
    OBVIOUS
  <2>0. /\ entries \in [Slots -> EntryType] /\ mem \in [Blocks -> Data \cup {Torn}]
        /\ Null \notin Blocks /\ Absent \notin Values
        /\ \A t \in Tasks : call[t] \in CallState /\ call[t].slot \in Slots
        /\ call \in [Tasks -> CallState]
    BY DictAssumption DEF TypeOK, EntryType, CallState, Values
  <2>1. CASE UNCHANGED vars
    BY <2>1 DEF vars, dict, WritesKept, WriteKept, Live
  <2>2. ASSUME NEW t \in Tasks, Begins(t) PROVE WritesKept'
    <3>1. PICK c \in CallState : Begin(t, c)
      BY <2>2, BeginsType
    <3>2. UNCHANGED <<entries, mem>> /\ call' = [call EXCEPT ![t] = [c EXCEPT !.pc = "take"]]
          /\ call[t].pc = "idle"
      BY <3>1 DEF Begin, dict
    <3>3. call'[t].pc = "take" /\ \A u \in Tasks \ {t} : call'[u] = call[u]
      BY <2>0, <3>2 DEF CallState
    <3>. QED  BY <3>2, <3>3, WritesQuiet
  <2>3. ASSUME NEW t \in Tasks, Take(t) PROVE WritesKept'
    <3>. DEFINE l == Entry(call[t].op)
    <3>1. l \in {"find", "read", "retain", "release", "sweep"} /\ l \in PCs
      BY DEF Entry, PCs
    <3>2. Goto(t, l) /\ UNCHANGED <<entries, mem>> /\ call[t].pc = "take"
      BY <2>3 DEF Take, dict
    <3>. HIDE DEF l
    <3>3. Moved(t, l)
      BY <3>1, <3>2, GotoMoves DEF Resumed
    <3>. QED  BY <3>1, <3>2, <3>3, WritesQuiet DEF Moved
  <2>4. ASSUME NEW t \in Tasks, Give(t) PROVE WritesKept'
    <3>1. call' = [call EXCEPT ![t] = Idle] /\ UNCHANGED <<entries, mem>> /\ call[t].pc = "give"
      BY <2>4 DEF Give, dict
    <3>2. call'[t].pc = "idle" /\ \A u \in Tasks \ {t} : call'[u] = call[u]
      BY <2>0, <3>1 DEF Idle
    <3>. QED  BY <3>1, <3>2, WritesQuiet
  <2>5. ASSUME NEW t \in Tasks, FindEntry(t) PROVE WritesKept'
    <3>. DEFINE found == Holding(call[t].key)   x == First(found)
    <3>1. UNCHANGED <<entries, mem>> /\ call[t].pc = "find" /\ Inside(t)
      BY <2>5 DEF FindEntry, dict, Inside
    <3>2. CASE found = {}
      <4>1. call' = [call EXCEPT ![t] = [call[t] EXCEPT !.pc = "claim"]]
        BY <2>5, <3>2 DEF FindEntry
      <4>2. call'[t].pc = "claim" /\ \A u \in Tasks \ {t} : call'[u] = call[u]
        BY <2>0, <4>1 DEF CallState
      <4>. QED  BY <3>1, <4>2, WritesQuiet
    <3>3. CASE found # {}
      <4>1. x \in Slots /\ Live(x)
        BY <2>0, <3>3, HoldingType DEF Live
      <4>2. call' = [call EXCEPT ![t] = [call[t] EXCEPT !.pc = "trim", !.slot = x]]
        BY <2>5, <3>3 DEF FindEntry
      <4>. HIDE DEF x
      <4>3. /\ call'[t].pc = "trim" /\ call'[t].slot = x
            /\ \A u \in Tasks \ {t} : call'[u] = call[u]
        BY <2>0, <4>2 DEF CallState
      <4>4. WriteKept(t)'
        BY <3>1, <4>1, <4>3 DEF WriteKept, Live
      <4>5. \A s \in Slots : ~ (Live(s)' /\ entries'[s].len = 0)
        BY <3>1, EmptyIsMine DEF Live
      <4>. QED  BY <3>1, <4>3, <4>4, <4>5, WritesStep
    <3>. QED  BY <3>2, <3>3
  <2>6. ASSUME NEW t \in Tasks, ClaimSlot(t) PROVE WritesKept'
    <3>1. call[t].pc = "claim" /\ Inside(t)
      BY <2>6 DEF ClaimSlot, Inside
    <3>2. CASE Resumed(t, "give") /\ UNCHANGED <<entries, mem>>
      BY <3>1, <3>2, WritesQuiet DEF Resumed, Moved
    <3>3. ASSUME NEW x \in Slots, Claimed(t, x) PROVE WritesKept'
      <4>1. WriteKept(t)'
        BY <3>3 DEF Claimed, Moved, WriteKept
      <4>2. \A s \in Slots : ~ (Live(s)' /\ entries'[s].len = 0)
        BY <3>1, <3>3, EmptyIsMine DEF Live, Claimed, OthersKept
      <4>. QED  BY <3>1, <3>3, <4>1, <4>2, WritesStep DEF Claimed, Moved
    <3>. QED  BY <2>6, <3>2, <3>3, ClaimDoes
  <2>7. ASSUME NEW t \in Tasks, TrimValue(t) PROVE WritesKept'
    <3>. DEFINE x == call[t].slot   k == call[t].key
    <3>1. call[t].pc = "trim" /\ Inside(t) /\ x \in Slots /\ Trimmed(t, x)
      BY <2>7, TrimDoes DEF TrimValue, Inside
    <3>2. /\ entries[x].key = k /\ \A s \in Slots : Live(s) /\ entries[s].key = k => s = x
          /\ k \in Keys /\ (~Live(x) => entries[x].version = 0)
      BY <2>0, <3>1 DEF LookupsHold, LookupHolds, WritesKept, WriteKept, EntryType
    <3>3. entries[x].version = IF Actual(k) = Absent THEN 0 ELSE Actual(k).version
      <4>1. CASE Live(x)
        <5>1. Actual(k) = Value(x) /\ Value(x) \in Values
          BY <3>1, <3>2, <4>1 DEF Lookups
        <5>. QED  BY <2>0, <5>1 DEF Value
      <4>2. CASE ~Live(x)
        BY <3>2, <4>2 DEF Lookups
      <4>. QED  BY <4>1, <4>2
    <3>4. Live(x) => entries[x].len # 0
      BY <3>1, EmptyIsMine
    <3>. HIDE DEF x, k
    <3>5. call'[t].slot = x /\ call'[t].len = call[t].len /\ call[t].slot = x /\ call[t].key = k
      BY <3>1 DEF Trimmed, Moved, x, k
    <3>6. entries'[x].version = entries[x].version
      BY <3>1 DEF Trimmed
    <3>7. CASE call[t].len = 0
      <4>1. call'[t].pc = "stamp" /\ call'[t].old = Absent /\ entries'[x].value = Null
        BY <3>1, <3>4, <3>7 DEF Trimmed, Moved, Live
      <4>2. WriteKept(t)'
        BY <3>5, <3>7, <4>1 DEF WriteKept, Live
      <4>3. \A s \in Slots : ~ (Live(s)' /\ entries'[s].len = 0)
        BY <3>1, <4>1, EmptyIsMine DEF Trimmed, OthersKept, Live
      <4>. QED  BY <3>1, <4>2, <4>3, WritesStep DEF Trimmed, Moved
    <3>8. CASE call[t].len # 0
      <4>1. call'[t].pc \in {"alloc", "copy"} /\ call'[t].old = Actual(k)
        BY <3>1, <3>5, <3>8 DEF Trimmed, Moved
      <4>2. WriteKept(t)'
        BY <3>3, <3>5, <3>6, <3>8, <4>1 DEF WriteKept
      <4>3. \A s \in Slots : ~ (Live(s)' /\ entries'[s].len = 0)
        BY <3>1, <3>4, EmptyIsMine DEF Trimmed, OthersKept, Live
      <4>. QED  BY <3>1, <4>2, <4>3, WritesStep DEF Trimmed, Moved
    <3>. QED  BY <3>7, <3>8
  <2>8. ASSUME NEW t \in Tasks, AllocValue(t) PROVE WritesKept'
    <3>. DEFINE x == call[t].slot
    <3>1. call[t].pc = "alloc" /\ Inside(t) /\ x \in Slots
      BY <2>0, <2>8 DEF AllocValue, Inside
    <3>2. CASE Resumed(t, "give") /\ UNCHANGED <<entries, mem>>
      BY <3>1, <3>2, WritesQuiet DEF Resumed, Moved
    <3>3. ASSUME NEW b, Allocated(t, x, b) PROVE WritesKept'
      <4>1. WriteKept(t)'
        BY <3>1, <3>3 DEF Allocated, Resumed, Moved, WritesKept, WriteKept
      <4>2. \A s \in Slots : Live(s)' /\ entries'[s].len = 0 => s = x
        BY <3>1, <3>3, EmptyIsMine DEF Live, Allocated, OthersKept
      <4>. QED  BY <3>1, <3>3, <4>1, <4>2, WritesStep DEF Allocated, Resumed, Moved
    <3>. QED  BY <2>8, <3>2, <3>3, AllocDoes
  <2>9. ASSUME NEW t \in Tasks, CopyBegin(t) \/ CopyEnd(t) PROVE WritesKept'
    <3>. DEFINE x == call[t].slot
    <3>0. x \in Slots /\ call[t].pc \in {"copy", "copying"} /\ Inside(t)
      BY <2>0, <2>9 DEF CopyBegin, CopyEnd, Inside
    <3>1. call[t].len # 0 /\ entries[x].version = IF call[t].old = Absent THEN 0 ELSE call[t].old.version
      BY <3>0 DEF WritesKept, WriteKept
    <3>2. CASE Resumed(t, "copying") /\ Copied(x, Torn) /\ entries' = entries
      <4>1. WriteKept(t)'
        BY <3>1, <3>2 DEF Resumed, Moved, Copied, WriteKept
      <4>2. \A s \in Slots : Live(s)' /\ entries'[s].len = 0 => s = x
        BY <3>0, <3>2, EmptyIsMine DEF Live
      <4>. QED  BY <3>0, <3>2, <4>1, <4>2, WritesStep DEF Resumed, Moved
    <3>3. CASE Resumed(t, "stamp") /\ Copied(x, call[t].data) /\ entries'[x].len = call[t].len
      <4>1. entries'[x].value # Null /\ mem'[entries'[x].value] = call[t].data
        BY <2>0, <3>0, <3>3 DEF Copied, Live, EntryType
      <4>2. WriteKept(t)'
        BY <3>1, <3>3, <4>1 DEF Resumed, Moved, Copied, WriteKept, Live
      <4>3. \A s \in Slots : ~ (Live(s)' /\ entries'[s].len = 0)
        BY <3>0, <3>1, <3>3, EmptyIsMine DEF Live, Copied, OthersKept
      <4>. QED  BY <3>0, <3>3, <4>2, <4>3, WritesStep DEF Resumed, Moved
    <3>. QED  BY <2>9, <3>2, <3>3, CopyDoes
  <2>10. ASSUME NEW t \in Tasks, Stamp(t) PROVE WritesKept'
    <3>. DEFINE x == call[t].slot
    <3>1. call[t].pc = "stamp" /\ Inside(t) /\ x \in Slots /\ Stamped(t, x)
      BY <2>10, StampDoes DEF Stamp, Inside
    <3>2. WriteKept(t)'
      BY <3>1 DEF Stamped, Resumed, Moved, WriteKept
    <3>3. \A s \in Slots : ~ (Live(s)' /\ entries'[s].len = 0)
      BY <3>1, EmptyIsMine DEF Live, Stamped, OthersKept
    <3>. QED  BY <3>1, <3>2, <3>3, WritesStep DEF Stamped, Resumed, Moved
  <2>11. ASSUME NEW t \in Tasks, ReadValue(t) PROVE WritesKept'
    <3>1. call[t].pc = "read" /\ Inside(t) /\ UNCHANGED <<entries, mem>>
      BY <2>11, ReadDoes DEF ReadValue, Inside
    <3>2. CASE Resumed(t, "give")
      BY <3>1, <3>2, WritesQuiet DEF Resumed, Moved
    <3>3. ASSUME NEW x \in Slots, ReadIn(t, x) PROVE WritesKept'
      <4>1. WriteKept(t)'
        BY <3>1, <3>3 DEF ReadIn, WriteKept
      <4>2. \A s \in Slots : ~ (Live(s)' /\ entries'[s].len = 0)
        BY <3>1, EmptyIsMine DEF Live
      <4>. QED  BY <3>1, <3>3, <4>1, <4>2, WritesStep DEF ReadIn
    <3>. QED  BY <2>11, <3>2, <3>3, ReadDoes
  <2>12. ASSUME NEW t \in Tasks, ReadMeta(t) PROVE WritesKept'
    <3>1. Resumed(t, "give") /\ call[t].pc = "meta" /\ UNCHANGED <<entries, mem>>
      BY <2>12, GotoMoves DEF ReadMeta, PCs, dict
    <3>. QED  BY <3>1, WritesQuiet DEF Resumed, Moved
  <2>13. ASSUME NEW t \in Tasks, Retain(t) \/ Release(t) PROVE WritesKept'
    <3>1. Resumed(t, "give") /\ Inside(t) /\ call[t].pc \in {"retain", "release"}
      BY <2>13, GotoMoves DEF Retain, Release, Inside, PCs
    <3>2. ContentsKept
      BY <2>13, RefMoves
    <3>3. WriteKept(t)'
      BY <3>1 DEF Resumed, Moved, WriteKept
    <3>4. \A s \in Slots : ~ (Live(s)' /\ entries'[s].len = 0)
      BY <3>1, <3>2, EmptyIsMine DEF Live, ContentsKept
    <3>. QED  BY <3>1, <3>3, <3>4, WritesStep DEF Resumed, Moved
  <2>14. ASSUME NEW t \in Tasks, Sweep(t) PROVE WritesKept'
    <3>. DEFINE x == call[t].slot
    <3>1. /\ call[t].pc = "sweep" /\ Inside(t) /\ x \in Slots
          /\ \A u \in Tasks \ {t} : call'[u] = call[u]
          /\ call'[t].pc \in {"sweep", "give"}
          /\ UNCHANGED <<entries, mem>> \/ Swept(x)
      BY <2>14, SweepDoes DEF Sweep, Inside
    <3>2. WriteKept(t)'
      BY <3>1 DEF WriteKept
    <3>3. \A s \in Slots : ~ (Live(s)' /\ entries'[s].len = 0)
      BY <3>1, EmptyIsMine DEF Live, Swept, OthersKept
    <3>. QED  BY <3>1, <3>2, <3>3, WritesStep
  <2>. QED  BY <2>1, <2>2, <2>3, <2>4, <2>5, <2>6, <2>7, <2>8, <2>9, <2>10, <2>11, <2>12, <2>13,
               <2>14 DEF Next, TaskStep, SetStep, Begins
<1>. QED
  BY <1>1, <1>2, LookupsFind, TypeCorrect, DictConsistent, PTL DEF Spec
-----------------------------------------------------------------------------
\* What key k holds for the callers while call t is inside.
Seen(t, k) == IF call[t].pc \in Editing /\ call[t].key = k THEN call[t].old ELSE Actual(k)

StoreSeen ==
    /\ \A t \in Tasks : Inside(t) => \A k \in Keys : Committed[k] = Seen(t, k)
    /\ (\A t \in Tasks : ~Inside(t)) => \A k \in Keys : Committed[k] = Actual(k)

\* Only the call inside edits.
LEMMA InsideSees == LookupsHold => StoreSeen
<1>. SUFFICES ASSUME LookupsHold PROVE StoreSeen
  OBVIOUS
<1>1. ASSUME NEW t \in Tasks, Inside(t), NEW k \in Keys PROVE Committed[k] = Seen(t, k)
  <2>. DEFINE edits(u) == call[u].pc \in Editing /\ call[u].key = k
  <2>1. \A u \in Tasks : edits(u) => u = t
    BY <1>1, Alone DEF Editing
  <2>2. CASE edits(t)
    <3>1. (CHOOSE u \in Tasks : edits(u)) = t
      BY <2>1, <2>2
    <3>. QED  BY <2>2, <3>1 DEF Committed, Seen
  <2>3. CASE ~edits(t)
    BY <2>1, <2>3 DEF Committed, Seen
  <2>. QED  BY <2>2, <2>3
<1>2. ASSUME \A t \in Tasks : ~Inside(t), NEW k \in Keys PROVE Committed[k] = Actual(k)
  BY <1>2 DEF Inside, Editing, Committed
<1>. QED  BY <1>1, <1>2 DEF StoreSeen

\* A step of the call inside that the other callers do not see ...
LEMMA Unseen ==
    ASSUME StoreSeen, StoreSeen', NEW t \in Tasks, Inside(t), Inside(t)',
           \A k \in Keys : Seen(t, k)' = Seen(t, k)
    PROVE  Committed' = Committed
<1>1. \A k \in Keys : Committed'[k] = Committed[k]
  <2>1. \A k \in Keys : Committed'[k] = Seen(t, k)'
    BY DEF StoreSeen
  <2>. QED  BY <2>1 DEF StoreSeen
<1>. QED  BY <1>1 DEF Committed

\* ... and one that gives its key another value.
LEMMA SeenAs ==
    ASSUME StoreSeen, StoreSeen', NEW t \in Tasks, Inside(t), Inside(t)', NEW j \in Keys, NEW v,
           Seen(t, j)' = v, \A k \in Keys \ {j} : Seen(t, k)' = Seen(t, k)
    PROVE  Committed' = [Committed EXCEPT ![j] = v]
<1>1. \A k \in Keys : Committed'[k] = IF k = j THEN v ELSE Committed[k]
  <2>1. \A k \in Keys : Committed'[k] = Seen(t, k)'
    BY DEF StoreSeen
  <2>. QED  BY <2>1 DEF StoreSeen
<1>. QED  BY <1>1 DEF Committed

\* The abstract store counts its keys as this module does.
LEMMA StoreCounts == \A S : Store!Cardinality(S) = Cardinality(S)
BY DEF Store!Cardinality, Store!IsFiniteSet, Cardinality, IsFiniteSet

\* A slot that was claimed for a key without a value leaves fewer slots for the others.
LEMMA RoomLeft ==
    ASSUME TypeOK, Lookups, NEW x \in Slots, NEW j \in Keys, entries[x].key = j,
           Committed[j] = Absent, \A k \in Keys \ {j} : Committed[k] = Actual(k)
    PROVE  Cardinality(Store!Present) < MaxKeys
<1>. DEFINE rest == Slots \ {x}   keys == {entries[s].key : s \in rest}
<1>1. IsFiniteSet(Slots) /\ Cardinality(Slots) = MaxKeys /\ MaxKeys \in Nat
  BY DictAssumption, FS_Interval DEF Slots
<1>2. IsFiniteSet(rest) /\ Cardinality(rest) = MaxKeys - 1
  BY <1>1, FS_RemoveElement
<1>3. IsFiniteSet(keys) /\ Cardinality(keys) <= Cardinality(rest)
  <2>. DEFINE f == [s \in rest |-> entries[s].key]
  <2>1. f \in Surjection(rest, keys)
    BY Fun_IsSurj
  <2>. QED  BY <1>2, <2>1, FS_Surjection
<1>4. Store!Present \subseteq keys
  <2>. SUFFICES ASSUME NEW k \in Store!Present PROVE k \in keys
    OBVIOUS
  <2>1. k \in Keys \ {j} /\ Actual(k) # Absent
    BY DEF Store!Present
  <2>2. PICK s \in Slots : Live(s) /\ entries[s].key = k
    BY <2>1 DEF Lookups
  <2>. QED  BY <2>1, <2>2
<1>5. Cardinality(Store!Present) <= Cardinality(keys) /\ Cardinality(Store!Present) \in Nat
      /\ Cardinality(keys) \in Nat
  BY <1>3, <1>4, FS_Subset, FS_CardinalityType
<1>. QED  BY <1>1, <1>2, <1>3, <1>5

\* The last step of a write: its key holds what it wrote, one version on.
LEMMA StampWrites ==
    ASSUME TypeOK, Lookups, Lookups', StoreSeen, StoreSeen', LookupsHold, BlocksOwned, CallsFit,
           WritesKept, NEW t \in Tasks, Stamp(t)
    PROVE  \/ Committed' = Committed
           \/ \E k \in Keys : Store!Write(k)
<1>1. /\ call[t].slot \in Slots /\ Stamped(t, call[t].slot) /\ call[t].pc = "stamp"
      /\ Inside(t) /\ Inside(t)' /\ UNCHANGED answer /\ call[t] \in CallState
      /\ entries[call[t].slot] \in EntryType
  BY StampDoes DEF Stamp, Inside, Stamped, Resumed, Moved, TypeOK, EntryType
<1>2. /\ entries[call[t].slot].key = call[t].key
      /\ \A s \in Slots : Live(s) /\ entries[s].key = call[t].key => s = call[t].slot
      /\ WriteKept(t) /\ call[t].data \in Data /\ call[t].len \in Lens
  BY <1>1 DEF LookupsHold, LookupHolds, WritesKept, CallsFit, ArgumentsFit
<1>3. PICK j \in Keys, x \in Slots, c \in CallState :
        j = call[t].key /\ x = call[t].slot /\ c = call[t]
  BY <1>1, <1>2 DEF EntryType
<1>4. /\ Stamped(t, x) /\ entries[x].key = j /\ entries[x] \in EntryType
      /\ \A s \in Slots : Live(s) /\ entries[s].key = j => s = x
      /\ c.data \in Data /\ c.len \in Lens
  BY <1>1, <1>2, <1>3
<1>5. \A k \in Keys \ {j} : Actual(k)' = Actual(k)
  BY <1>4, OtherKeysKept DEF Stamped
<1>6. \A k \in Keys : Seen(t, k) = (IF k = j THEN c.old ELSE Actual(k)) /\ Seen(t, k)' = Actual(k)'
  BY <1>1, <1>3, <1>4 DEF Seen, Editing, Stamped, Resumed, Moved
<1>7. CASE c.len = 0
  <2>1. c.old = Absent /\ entries[x].value = Null
    BY <1>1, <1>2, <1>3, <1>7 DEF WriteKept, Live
  <2>2. \A s \in Slots : Live(s)' => entries'[s].key # j
    BY <1>4, <2>1 DEF Stamped, OthersKept, Live
  <2>3. Actual(j)' = Absent
    BY <2>2 DEF Lookups
  <2>. QED  BY <1>1, <1>5, <1>6, <2>1, <2>3, Unseen
<1>8. CASE c.len # 0
  <2>. DEFINE v == [data |-> c.data, len |-> c.len, version |-> Plus(entries[x].version, 1)]
  <2>1. /\ Live(x) /\ mem[entries[x].value] = c.data /\ entries[x].len = c.len
        /\ entries[x].version = IF c.old = Absent THEN 0 ELSE c.old.version
    BY <1>1, <1>2, <1>3, <1>8 DEF WriteKept
  <2>2. Actual(j)' = v
    <3>1. Live(x)' /\ entries'[x].key = j
      BY <1>4, <2>1 DEF Stamped, Live
    <3>2. Actual(j)' = Value(x)'
      <4>1. \A s \in Slots : Live(s)' /\ entries'[s].key = j => Actual(j)' = Value(s)'
        BY DEF Lookups
      <4>. QED  BY <3>1, <4>1
    <3>. QED  BY <1>4, <2>1, <3>2 DEF Value, Stamped
  <2>3. PICK n \in Word : n = Plus(entries[x].version, 1)
    BY <1>4, Constants DEF EntryType
  <2>4. Committed' = [Committed EXCEPT ![j] = [data |-> c.data, len |-> c.len, version |-> n]]
    BY <1>1, <1>5, <1>6, <2>2, <2>3, SeenAs
  <2>5. Committed[j] = c.old /\ \A k \in Keys \ {j} : Committed[k] = Actual(k)
    BY <1>1, <1>6 DEF StoreSeen
  <2>6. Store!NextVersion(j) = n
    BY <1>4, <2>1, <2>3, <2>5, DictAssumption DEF Store!NextVersion, Plus
  <2>7. j \in Store!Present \/ Cardinality(Store!Present) < MaxKeys
    BY <1>4, <2>5, RoomLeft DEF Store!Present
  <2>8. Store!Write(j)
    BY <1>1, <1>4, <1>8, <2>4, <2>6, <2>7, StoreCounts DEF Store!Write
  <2>. QED  BY <2>8
<1>. QED  BY <1>7, <1>8
\* The steps of obj_dict_set before its stamp.
LEMMA SetRefines ==
    ASSUME TypeOK, Lookups, Lookups', StoreSeen, StoreSeen', LookupsHold, BlocksOwned, CallsFit,
           WritesKept, NEW t \in Tasks,
           FindEntry(t) \/ ClaimSlot(t) \/ TrimValue(t) \/ AllocValue(t) \/ CopyBegin(t) \/ CopyEnd(t)
    PROVE  Committed' = Committed \/ \E k \in Keys : Store!Drop(k)
<1>0. /\ Inside(t) /\ UNCHANGED answer /\ Null \notin Blocks /\ call[t] \in CallState
      /\ entries \in [Slots -> EntryType] /\ call[t].slot \in Slots
      /\ call[t].pc \in {"find", "claim", "trim", "alloc", "copy", "copying"}
      /\ call[t].key \in Keys /\ LookupHolds(t) /\ call \in [Tasks -> CallState]
  BY DictAssumption DEF FindEntry, ClaimSlot, TrimValue, AllocValue, CopyBegin, CopyEnd, Inside,
                        TypeOK, EntryType, CallState, CallsFit, ArgumentsFit, KeyedCall, LookupsHold
<1>1. PICK j \in Keys, x \in Slots, c \in CallState :
        j = call[t].key /\ x = call[t].slot /\ c = call[t]
  BY <1>0
<1>2. ASSUME UNCHANGED <<entries, mem>>
      PROVE  \A k \in Keys : Actual(k)' = Actual(k)
  BY <1>2 DEF Actual, Holding, Live
<1>3. CASE FindEntry(t)
  <2>1. UNCHANGED <<entries, mem>> /\ call[t].pc = "find"
    BY <1>3 DEF FindEntry, dict
  <2>2. call'[t].pc \in {"claim", "trim"}
    BY <1>0, <1>3 DEF FindEntry, CallState
  <2>3. \A k \in Keys : Seen(t, k)' = Seen(t, k)
    BY <1>2, <2>1, <2>2 DEF Seen, Editing
  <2>. QED  BY <1>0, <2>2, <2>3, Unseen DEF Inside
<1>4. CASE ClaimSlot(t)
  <2>1. call[t].pc = "claim"
    BY <1>4 DEF ClaimSlot
  <2>2. call'[t].pc \in {"trim", "give"} /\ \A k \in Keys : Actual(k)' = Actual(k)
    <3>1. CASE Resumed(t, "give") /\ UNCHANGED <<entries, mem>>
      BY <1>2, <3>1 DEF Resumed, Moved
    <3>2. ASSUME NEW y \in Slots, Claimed(t, y)
          PROVE  call'[t].pc = "trim" /\ \A k \in Keys : Actual(k)' = Actual(k)
      BY <3>2, OtherKeysKept DEF Claimed, Moved, Live
    <3>. QED  BY <1>4, <3>1, <3>2, ClaimDoes
  <2>3. \A k \in Keys : Seen(t, k)' = Seen(t, k)
    BY <2>1, <2>2 DEF Seen, Editing
  <2>. QED  BY <1>0, <2>2, <2>3, Unseen DEF Inside
<1>5. CASE TrimValue(t)
  <2>1. Trimmed(t, x) /\ call[t].pc = "trim"
    BY <1>1, <1>5, TrimDoes DEF TrimValue
  <2>2. call'[t].pc \in {"stamp", "alloc", "copy"} /\ call'[t].key = j
        /\ call'[t].old = IF c.len = 0 THEN Absent ELSE Actual(j)
    BY <1>1, <2>1 DEF Trimmed, Moved
  <2>3. entries[x].key = j /\ entries'[x].key = j
    BY <1>0, <1>1, <2>1 DEF LookupHolds, Trimmed
  <2>4. \A s \in Slots \ {x} : Live(s) => mem'[entries[s].value] = mem[entries[s].value]
    BY <2>1, OtherBlocksKept DEF Trimmed
  <2>5. \A k \in Keys \ {j} : Actual(k)' = Actual(k)
    BY <2>1, <2>3, <2>4, OtherKeysKept DEF Trimmed
  <2>6. /\ \A k \in Keys : Seen(t, k) = Actual(k)
        /\ \A k \in Keys \ {j} : Seen(t, k)' = Actual(k)'
        /\ Seen(t, j)' = IF c.len = 0 THEN Absent ELSE Actual(j)
    BY <2>1, <2>2 DEF Seen, Editing
  <2>7. CASE c.len = 0
    <3>1. Committed' = [Committed EXCEPT ![j] = Absent]
      BY <1>0, <2>2, <2>5, <2>6, <2>7, SeenAs DEF Inside
    <3>. QED  BY <1>0, <3>1 DEF Store!Drop
  <2>8. CASE c.len # 0
    BY <1>0, <2>2, <2>5, <2>6, <2>8, Unseen DEF Inside
  <2>. QED  BY <2>7, <2>8
<1>6. CASE AllocValue(t)
  <2>1. /\ call[t].pc = "alloc" /\ entries[x].key = j /\ ~Live(x)
        /\ \A s \in Slots : Live(s) => entries[s].key # j
    BY <1>0, <1>1, <1>6 DEF AllocValue, LookupHolds
  <2>2. \A k \in Keys : Seen(t, k) = IF k = j THEN c.old ELSE Actual(k)
    BY <1>1, <2>1 DEF Seen, Editing
  <2>3. CASE Resumed(t, "give") /\ UNCHANGED <<entries, mem>>
    <3>1. \A k \in Keys : Seen(t, k)' = Actual(k)
      BY <1>2, <2>3 DEF Resumed, Moved, Seen, Editing
    <3>2. Actual(j) = Absent
      BY <2>1 DEF Lookups
    <3>3. Committed' = [Committed EXCEPT ![j] = Absent]
      BY <1>0, <2>2, <2>3, <3>1, <3>2, SeenAs DEF Inside, Resumed, Moved
    <3>. QED  BY <1>0, <3>3 DEF Store!Drop
  <2>4. ASSUME NEW b, Allocated(t, x, b) PROVE Committed' = Committed
    <3>1. \A s \in Slots \ {x} : Live(s) => mem'[entries[s].value] = mem[entries[s].value]
      BY <2>4, OtherBlocksKept DEF Allocated
    <3>2. \A k \in Keys \ {j} : Actual(k)' = Actual(k)
      BY <2>1, <2>4, <3>1, OtherKeysKept DEF Allocated
    <3>3. \A k \in Keys : Seen(t, k)' = Seen(t, k)
      BY <1>1, <2>2, <2>4, <3>2 DEF Allocated, Resumed, Moved, Seen, Editing
    <3>. QED  BY <1>0, <2>4, <3>3, Unseen DEF Allocated, Resumed, Moved, Inside
  <2>. QED  BY <1>1, <1>6, <2>3, <2>4, AllocDoes
<1>7. CASE CopyBegin(t) \/ CopyEnd(t)
  <2>1. /\ call[t].pc \in {"copy", "copying"} /\ call'[t].pc \in {"copying", "stamp"}
        /\ call'[t].key = j /\ call'[t].old = c.old
        /\ \E d : Copied(x, d)
    BY <1>1, <1>7, CopyDoes DEF Resumed, Moved
  <2>2. entries[x].key = j
    BY <1>0, <1>1, <2>1 DEF LookupHolds
  <2>3. \A s \in Slots \ {x} : Live(s) => mem'[entries[s].value] = mem[entries[s].value]
    <3>1. PICK d : Copied(x, d)
      BY <2>1
    <3>. QED  BY <3>1, OtherBlocksKept DEF Copied
  <2>4. \A k \in Keys \ {j} : Actual(k)' = Actual(k)
    BY <2>1, <2>2, <2>3, OtherKeysKept DEF Copied
  <2>5. \A k \in Keys : Seen(t, k)' = Seen(t, k)
    BY <1>1, <2>1, <2>4 DEF Seen, Editing
  <2>. QED  BY <1>0, <2>1, <2>5, Unseen DEF Inside
<1>. QED  BY <1>3, <1>4, <1>5, <1>6, <1>7

\* A read answers what the store holds; retains and releases do not touch it; a cleanup
\* drops one key at a time.
LEMMA OthersRefine ==
    ASSUME TypeOK, Lookups, Lookups', StoreSeen, StoreSeen', LookupsHold, UniqueKeys, BlocksOwned,
           CallsFit, WritesKept, NEW t \in Tasks,
           ReadValue(t) \/ ReadMeta(t) \/ Retain(t) \/ Release(t) \/ Sweep(t)
    PROVE  UNCHANGED <<Committed, answer>> \/ Store!Read(t) \/ \E k \in Keys : Store!Drop(k)
<1>0. /\ Inside(t) /\ call[t] \in CallState /\ call[t].slot \in Slots
      /\ entries \in [Slots -> EntryType] /\ call[t].pc \notin Editing
      /\ call[t].pc \in {"read", "meta"} => call[t].key \in Keys
  BY DEF ReadValue, ReadMeta, Retain, Release, Sweep, Inside, Editing, TypeOK, EntryType,
         CallState, CallsFit, ArgumentsFit, KeyedCall
<1>1. ASSUME UNCHANGED <<entries, mem>>
      PROVE  \A k \in Keys : Actual(k)' = Actual(k)
  BY <1>1 DEF Actual, Holding, Live
<1>2. ASSUME \A k \in Keys : Actual(k)' = Actual(k),
             call'[t].pc \in {"meta", "give", "sweep"}
      PROVE  Committed' = Committed
  <2>1. Inside(t)' /\ \A k \in Keys : Seen(t, k)' = Seen(t, k)
    BY <1>0, <1>2 DEF Seen, Editing, Inside
  <2>. QED  BY <1>0, <2>1, Unseen
<1>3. \A k \in Keys : Committed[k] = Actual(k)
  BY <1>0 DEF StoreSeen, Seen
<1>4. CASE ReadValue(t)
  <2>1. UNCHANGED <<entries, mem>> /\ call[t].pc = "read"
    BY <1>4, ReadDoes DEF ReadValue
  <2>2. CASE Holding(call[t].key) = {} /\ Resumed(t, "give") /\ answer' = [answer EXCEPT ![t] = Absent]
    <3>1. Committed' = Committed
      BY <1>1, <1>2, <2>1, <2>2 DEF Resumed, Moved
    <3>2. Committed[call[t].key] = Absent
      BY <1>0, <1>3, <2>1, <2>2 DEF Actual
    <3>3. Store!Read(t)
      BY <1>0, <2>1, <2>2, <3>1, <3>2 DEF Store!Read
    <3>. QED  BY <3>3
  <2>3. CASE \E x \in Slots : ReadIn(t, x)
    BY <1>1, <1>2, <2>1, <2>3 DEF ReadIn
  <2>. QED  BY <1>4, <2>2, <2>3, ReadDoes
<1>5. CASE ReadMeta(t)
  <2>1. /\ call[t].pc = "meta" /\ Resumed(t, "give") /\ UNCHANGED <<entries, mem>>
        /\ answer' = [answer EXCEPT ![t] = [data |-> call[t].data, len |-> call[t].len,
                                            version |-> entries[call[t].slot].version]]
    BY <1>5, GotoMoves DEF ReadMeta, dict, PCs
  <2>2. Committed' = Committed
    BY <1>1, <1>2, <2>1 DEF Resumed, Moved
  <2>3. PICK x \in Slots : x = call[t].slot
    BY <1>0
  <2>4. Live(x) /\ entries[x].key = call[t].key /\ mem[entries[x].value] = call[t].data
        /\ entries[x].len = call[t].len
    BY <2>1, <2>3 DEF LookupsHold, LookupHolds, WritesKept, WriteKept
  <2>5. Committed[call[t].key] = Value(x)
    BY <1>0, <1>3, <2>1, <2>4 DEF Lookups
  <2>6. answer' = [answer EXCEPT ![t] = Committed[call[t].key]]
    BY <2>1, <2>3, <2>4, <2>5 DEF Value
  <2>7. Store!Read(t)
    BY <1>0, <2>1, <2>2, <2>6 DEF Store!Read
  <2>. QED  BY <2>7
<1>6. CASE Retain(t) \/ Release(t)
  <2>1. Resumed(t, "give") /\ ContentsKept /\ UNCHANGED answer
    BY <1>6, GotoMoves, RefMoves DEF Retain, Release, PCs
  <2>2. \A k : Holding(k)' = Holding(k)
    BY <2>1 DEF Holding, Live, ContentsKept
  <2>3. ASSUME NEW k \in Keys PROVE Actual(k)' = Actual(k)
    <3>1. CASE Holding(k) = {}
      BY <2>2, <3>1 DEF Actual
    <3>2. CASE Holding(k) # {}
      <4>1. First(Holding(k)) \in Slots
        BY <3>2, HoldingType
      <4>. QED  BY <2>1, <2>2, <3>2, <4>1 DEF Actual, ContentsKept
    <3>. QED  BY <3>1, <3>2
  <2>. QED  BY <1>2, <2>1, <2>3 DEF Resumed, Moved
<1>7. CASE Sweep(t)
  <2>1. PICK x \in Slots : x = call[t].slot
    BY <1>0
  <2>2. /\ call'[t].pc \in {"sweep", "give"} /\ UNCHANGED answer
        /\ UNCHANGED <<entries, mem>> \/ Swept(x)
    BY <1>7, <2>1, SweepDoes
  <2>3. CASE UNCHANGED <<entries, mem>>
    BY <1>1, <1>2, <2>2, <2>3
  <2>4. CASE Swept(x)
    <3>1. PICK j \in Keys : j = entries[x].key
      BY <1>0 DEF EntryType
    <3>2. \A s \in Slots : Live(s) /\ entries[s].key = j => s = x
      BY <2>4, <3>1 DEF Swept, UniqueKeys
    <3>3. \A s \in Slots \ {x} : Live(s) => mem'[entries[s].value] = mem[entries[s].value]
      BY <2>4, OtherBlocksKept DEF Swept
    <3>4. \A k \in Keys \ {j} : Actual(k)' = Actual(k)
      BY <2>4, <3>1, <3>3, OtherKeysKept DEF Swept, Live
    <3>5. Actual(j)' = Absent
      <4>1. \A s \in Slots : Live(s)' => entries'[s].key # j
        BY <2>4, <3>2 DEF Swept, OthersKept, Live
      <4>. QED  BY <4>1 DEF Lookups
    <3>6. Committed' = [Committed EXCEPT ![j] = Absent]
      BY <1>0, <2>2, <3>4, <3>5, SeenAs DEF Seen, Editing, Inside
    <3>. QED  BY <2>2, <3>6 DEF Store!Drop
  <2>. QED  BY <2>2, <2>3, <2>4
<1>. QED  BY <1>4, <1>5, <1>6, <1>7

\* Callers of obj_dict_set and obj_dict_get see a map from keys to values that changes in
\* whole writes: no read returns half of a write, or the bytes of one write with the
\* version of another.
THEOREM StoreIsAtomic ==
    ASSUME ~LockTimesOut
    PROVE  Spec => IsKeyedStore
<1>1. Init => Store!Init
  BY DictAssumption DEF Init, Store!Init, Committed, Actual, Holding, Live, Idle, Editing
<1>2. /\ TypeOK /\ Lookups /\ Lookups' /\ StoreSeen /\ StoreSeen' /\ LookupsHold /\ UniqueKeys
      /\ BlocksOwned /\ CallsFit /\ WritesKept /\ [Next]_vars
      => [Store!Next]_(Store!vars)
  <2>. SUFFICES ASSUME TypeOK, Lookups, Lookups', StoreSeen, StoreSeen', LookupsHold, UniqueKeys,
                       BlocksOwned, CallsFit, WritesKept, [Next]_vars
                PROVE  [Store!Next]_(Store!vars)
    OBVIOUS
  <2>0. call \in [Tasks -> CallState] /\ ~LockTimesOut
    BY DEF TypeOK
  <2>1. ASSUME UNCHANGED <<entries, mem>> PROVE \A k \in Keys : Actual(k)' = Actual(k)
    BY <2>1 DEF Actual, Holding, Live
  <2>2. CASE UNCHANGED vars
    BY <2>2 DEF vars, dict, Store!vars, Committed, Actual, Holding, Live
  <2>3. ASSUME NEW t \in Tasks, Begins(t) PROVE UNCHANGED <<Committed, answer>>
    <3>1. PICK c \in CallState : Begin(t, c)
      BY <2>3, BeginsType
    <3>2. /\ UNCHANGED <<entries, mem, answer>> /\ call[t].pc = "idle"
          /\ call' = [call EXCEPT ![t] = [c EXCEPT !.pc = "take"]]
      BY <3>1 DEF Begin, dict
    <3>3. call'[t].pc = "take" /\ \A u \in Tasks \ {t} : call'[u] = call[u]
      BY <2>0, <3>2 DEF CallState
    <3>4. CASE \E u \in Tasks : Inside(u)
      <4>1. PICK u \in Tasks \ {t} : Inside(u)
        BY <3>2, <3>4 DEF Inside
      <4>2. Inside(u)' /\ \A k \in Keys : Seen(u, k)' = Seen(u, k)
        BY <2>1, <3>2, <3>3, <4>1 DEF Seen, Inside
      <4>. QED  BY <3>2, <4>1, <4>2, Unseen
    <3>5. CASE \A u \in Tasks : ~Inside(u)
      <4>1. \A u \in Tasks : ~Inside(u)'
        BY <3>3, <3>5 DEF Inside
      <4>2. \A k \in Keys : Committed[k] = Actual(k) /\ Committed'[k] = Actual(k)'
        <5>1. \A k \in Keys : Committed'[k] = Actual(k)'
          BY <4>1 DEF StoreSeen
        <5>. QED  BY <3>5, <5>1 DEF StoreSeen
      <4>3. \A k \in Keys : Committed'[k] = Committed[k]
        BY <2>1, <3>2, <4>2
      <4>. QED  BY <3>2, <4>3 DEF Committed
    <3>. QED  BY <3>4, <3>5
  <2>4. ASSUME NEW t \in Tasks, Take(t) PROVE UNCHANGED <<Committed, answer>>
    <3>. DEFINE l == Entry(call[t].op)
    <3>1. l \in {"find", "read", "retain", "release", "sweep"} /\ l \in PCs
      BY DEF Entry, PCs
    <3>2. Goto(t, l) /\ UNCHANGED <<entries, mem, answer>> /\ lock # 0
      BY <2>0, <2>4 DEF Take, dict
    <3>. HIDE DEF l
    <3>3. call'[t].pc = l
      BY <3>1, <3>2, GotoMoves DEF Resumed, Moved
    <3>4. \A u \in Tasks : ~Inside(u)
      BY <3>2 DEF LookupsHold, OneInside
    <3>5. Inside(t)' /\ \A k \in Keys : Seen(t, k)' = Actual(k)'
      BY <3>1, <3>3 DEF Seen, Inside, Editing
    <3>6. \A k \in Keys : Committed'[k] = Seen(t, k)'
      BY <3>5 DEF StoreSeen
    <3>. QED  BY <2>1, <3>2, <3>4, <3>5, <3>6 DEF StoreSeen, Committed
  <2>5. ASSUME NEW t \in Tasks, Give(t) PROVE Store!Return(t)
    <3>1. /\ call' = [call EXCEPT ![t] = Idle] /\ UNCHANGED <<entries, mem>> /\ Inside(t)
          /\ answer' = [answer EXCEPT ![t] = Null] /\ call[t].pc = "give"
      BY <2>5 DEF Give, dict, Inside
    <3>2. \A u \in Tasks : call'[u].pc \in {"idle", "take"}
      BY <2>0, <3>1, Alone DEF Idle
    <3>3. \A u \in Tasks : ~Inside(u)'
      BY <3>2 DEF Inside
    <3>4. \A k \in Keys : Seen(t, k) = Actual(k)
      BY <3>1 DEF Seen, Editing
    <3>5. \A k \in Keys : Committed'[k] = Actual(k)'
      BY <3>3 DEF StoreSeen
    <3>6. \A k \in Keys : Committed[k] = Actual(k)
      BY <3>1, <3>4 DEF StoreSeen
    <3>7. \A k \in Keys : Committed'[k] = Committed[k]
      BY <2>1, <3>1, <3>5, <3>6
    <3>8. Committed' = Committed
      BY <3>7 DEF Committed
    <3>. QED  BY <3>1, <3>8 DEF Store!Return
  <2>6. ASSUME NEW t \in Tasks,
               FindEntry(t) \/ ClaimSlot(t) \/ TrimValue(t) \/ AllocValue(t)
                 \/ CopyBegin(t) \/ CopyEnd(t)
        PROVE  UNCHANGED <<Committed, answer>> \/ \E k \in Keys : Store!Drop(k)
    <3>1. UNCHANGED answer
      BY <2>6 DEF FindEntry, ClaimSlot, TrimValue, AllocValue, CopyBegin, CopyEnd
    <3>. QED  BY <2>6, <3>1, SetRefines
  <2>7. ASSUME NEW t \in Tasks, Stamp(t)
        PROVE  UNCHANGED <<Committed, answer>> \/ \E k \in Keys : Store!Write(k)
    BY <2>7, StampWrites DEF Stamp
  <2>8. ASSUME NEW t \in Tasks,
               ReadValue(t) \/ ReadMeta(t) \/ Retain(t) \/ Release(t) \/ Sweep(t)
        PROVE  UNCHANGED <<Committed, answer>> \/ Store!Read(t) \/ \E k \in Keys : Store!Drop(k)
    BY <2>8, OthersRefine
  <2>. QED  BY <2>2, <2>3, <2>4, <2>5, <2>6, <2>7, <2>8
            DEF Next, TaskStep, SetStep, Begins, Store!Next, Store!vars
<1>. QED
  BY <1>1, <1>2, TypeCorrect, LookupsFind, InsideSees, DictConsistent, BlocksHaveOneOwner,
     CallsFitInvariant, WritesKeptInvariant, PTL DEF Spec, IsKeyedStore, Store!Spec
================================================================================
