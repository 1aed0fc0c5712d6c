----------------------------- MODULE HandleTable -----------------------------
(***************************************************************************)
(* The generation-counted handle table through which the JVM names every   *)
(* native object (core-bridge/rust/kt-bridge/src/handle.rs), with the       *)
(* exported functions of lib.rs that insert, look up and remove entries.    *)
(*                                                                         *)
(* The table is one RwLock; every operation below that takes the lock once  *)
(* is one step.  An exported call that takes it several times (resolve the  *)
(* runtime, check the owner, resolve the target, insert the new entry) is   *)
(* several steps of the calling thread, so other threads run in between.    *)
(*                                                                         *)
(* A handle is the record [kind, gen, index] that the u64 encodes; slot      *)
(* indices start at 1 here and at 0 in the code.  Objects (the Arcs stored   *)
(* in the slots) are numbered in the order they enter the table.            *)
(***************************************************************************)
EXTENDS Naturals, Sequences, FiniteSets

CONSTANTS
  Threads,      \* JVM and Tokio threads that call into the table
  GenMask,      \* largest generation a handle can encode (2^24 - 1)
  MaxObjects,   \* bound: how many objects a behaviour creates
  Created       \* bound: the kinds of object created besides runtimes

ASSUME GenMaskAssumption == GenMask \in Nat \ {0}
ASSUME MaxObjectsAssumption == MaxObjects \in Nat

VARIABLES
  slots,     \* Table.slots: Seq of [generation, owner, entry]
  free,      \* Table.free: stack of empty slot indices, top last
  calls,     \* per thread, the exported function it is inside of
  issued,    \* history: what was handed out for object o (issued[o])
  reuse,     \* history: how often slot i has been emptied
  released   \* history: objects whose remover has finished with them

tableVars == <<slots, free>>
vars == <<slots, free, calls, issued, reuse, released>>

ChildKinds == {"client", "worker", "ephemeral"}   \* owned by a runtime
Kinds == ChildKinds \cup {"runtime", "poller"}
ASSUME CreatedAssumption == Created \subseteq ChildKinds \cup {"poller"}
Objects == 1..MaxObjects

Zero == [kind |-> "none", gen |-> 0, index |-> 0]      \* handle 0
Handles == [kind : Kinds, gen : 1..GenMask, index : Nat \ {0}] \cup {Zero}
NoEntry == [kind |-> "none", obj |-> 0]                \* Option::None
Entries == [kind : Kinds, obj : Nat \ {0}]
Issues == [handle : Handles \ {Zero}, age : Nat, maker : Nat]
Slots == [generation : 1..GenMask, owner : Handles, entry : Entries \cup {NoEntry}]

\* The calls a thread can be inside of: looking up what a call names
\* ("resolved", "owned"), building an entry ("building"), using a pair of
\* looked-up objects ("calling"), or closing what it removed ("closing",
\* "freeing" for kt_runtime_free).
Ops == {"idle", "resolved", "owned", "building", "calling", "closing", "freeing"}
Calls == [op : Ops, kind : Kinds \cup {"none"}, runtime : Handles, robj : Nat,
          target : Handles, tobj : Nat, todo : SUBSET (Nat \ {0})]
Idle == [op |-> "idle", kind |-> "none", runtime |-> Zero, robj |-> 0,
         target |-> Zero, tobj |-> 0, todo |-> {}]

-----------------------------------------------------------------------------
(***************************************************************************)
(* The table's own operations.                                             *)
(***************************************************************************)

\* HandleTable::validate: the slot index h names as an entry of this kind.
\* The tag is compared first, then the slot's existence, its generation, its
\* occupancy and the kind of what occupies it.
Valid(h, kind) ==
  /\ h # Zero
  /\ h.kind = kind
  /\ h.index \in DOMAIN slots
  /\ slots[h.index].generation = h.gen
  /\ slots[h.index].entry # NoEntry
  /\ slots[h.index].entry.kind = kind

\* The typed getters: the object a valid handle resolves to.
Object(h) == slots[h.index].entry.obj

\* The generation bump of HandleTable::take: wraps within the mask, skips 0.
NextGeneration(g) == IF g + 1 > GenMask THEN 1 ELSE g + 1

\* Faulty variant: the entry is taken but the generation stays.
EmptiedNoBump(s) ==
  [generation |-> s.generation, owner |-> Zero, entry |-> NoEntry]

\* HandleTable::take, on the slot.
Emptied(s) ==
  [generation |-> NextGeneration(s.generation), owner |-> Zero, entry |-> NoEntry]

\* Faulty variant: a reused slot is issued under its next generation.
InsertIntoBumped(kind, owner, maker) ==
  LET o == Len(issued) + 1
      new(gen) == [generation |-> gen, owner |-> owner, entry |-> [kind |-> kind, obj |-> o]]
      record(gen, index, age) ==
        [handle |-> [kind |-> kind, gen |-> gen, index |-> index], age |-> age, maker |-> maker]
  IN /\ Len(issued) < MaxObjects
     /\ \/ /\ free # <<>>
           /\ LET i == free[Len(free)]
              IN /\ free' = SubSeq(free, 1, Len(free) - 1)
                 /\ slots' = [slots EXCEPT ![i] = new(slots[i].generation)]
                 /\ issued' = Append(issued, record(NextGeneration(slots[i].generation), i, reuse[i]))
                 /\ UNCHANGED reuse
        \/ /\ free = <<>>
           /\ slots' = Append(slots, new(1))
           /\ issued' = Append(issued, record(1, Len(slots) + 1, 0))
           /\ reuse' = Append(reuse, 0)
           /\ UNCHANGED free

\* HandleTable::insert_into: reuse the slot on top of the free stack, else
\* push a slot of generation 1.  Records the handle that was issued.
InsertInto(kind, owner, maker) ==
  LET o == Len(issued) + 1
      entry == [kind |-> kind, obj |-> o]
      h(gen, index) == [kind |-> kind, gen |-> gen, index |-> index]
      record(gen, index, age) ==
        [handle |-> h(gen, index), age |-> age, maker |-> maker]
  IN /\ Len(issued) < MaxObjects
     /\ \/ /\ free # <<>>
           /\ LET i == free[Len(free)]
              IN /\ free' = SubSeq(free, 1, Len(free) - 1)
                 /\ slots' = [slots EXCEPT ![i] =
                       [generation |-> slots[i].generation, owner |-> owner, entry |-> entry]]
                 /\ issued' = Append(issued, record(slots[i].generation, i, reuse[i]))
                 /\ UNCHANGED reuse
        \/ /\ free = <<>>
           /\ slots' = Append(slots, [generation |-> 1, owner |-> owner, entry |-> entry])
           /\ issued' = Append(issued, record(1, Len(slots) + 1, 0))
           /\ reuse' = Append(reuse, 0)
           /\ UNCHANGED free

\* The sequences that list a set of slot indices in ascending order (one).
Ascending(S) ==
  { q \in [1..Cardinality(S) -> S] :
      /\ \A m, n \in DOMAIN q : m < n => q[m] < q[n]
      /\ \A i \in S : \E n \in DOMAIN q : q[n] = i }

\* Faulty variant: the entry is cloned out of the slot instead of taken.
TakeOneKeepsEntry(h) ==
  /\ slots' = slots
  /\ free' = Append(free, h.index)
  /\ reuse' = [reuse EXCEPT ![h.index] = reuse[h.index] + 1]
  /\ UNCHANGED issued

\* HandleTable::remove_of_kind: empty the one slot h names.
TakeOne(h) ==
  /\ slots' = [slots EXCEPT ![h.index] = Emptied(slots[h.index])]
  /\ free' = Append(free, h.index)
  /\ reuse' = [reuse EXCEPT ![h.index] = reuse[h.index] + 1]
  /\ UNCHANGED issued

\* The slots HandleTable::remove_runtime empties after the runtime's own.
ChildSlots(h) == { i \in DOMAIN slots : i # h.index /\ slots[i].owner = h }

\* HandleTable::remove_runtime: empty the runtime's slot and, in the same
\* critical section, every slot the runtime owns.
TakeRuntime(h) ==
  LET gone == ChildSlots(h) \cup {h.index}
  IN /\ slots' = [i \in DOMAIN slots |-> IF i \in gone THEN Emptied(slots[i]) ELSE slots[i]]
     /\ \E q \in Ascending(ChildSlots(h)) : free' = Append(free, h.index) \o q
     /\ reuse' = [i \in DOMAIN slots |-> IF i \in gone THEN reuse[i] + 1 ELSE reuse[i]]
     /\ UNCHANGED issued

-----------------------------------------------------------------------------
(***************************************************************************)
(* The exported functions.  The JVM may pass any handle it was ever given,  *)
(* freed or not, or handle 0, and any kind of handle to any function.  A    *)
(* lookup that fails returns an error code and changes nothing.             *)
(***************************************************************************)
Known == { issued[o].handle : o \in DOMAIN issued } \cup {Zero}

Goto(t, c) == calls' = [calls EXCEPT ![t] = c]

\* kt_runtime_new.
RuntimeNew(t) ==
  /\ calls[t].op = "idle"
  /\ InsertInto("runtime", Zero, 0)
  /\ UNCHANGED <<calls, released>>

\* First lookup of every call on a runtime.  kind says what the call builds
\* ("none": it only uses an object); a worker is built from a client.
Resolve(t, h, kind, target) ==
  /\ calls[t].op = "idle"
  /\ Valid(h, "runtime")
  /\ Goto(t, [Idle EXCEPT
        !.op = IF kind \in {"worker", "none"} THEN "resolved" ELSE "building",
        !.kind = kind, !.runtime = h, !.robj = Object(h),
        !.target = IF kind \in {"worker", "none"} THEN target ELSE Zero])
  /\ UNCHANGED <<slots, free, issued, reuse, released>>

\* Faulty variant: the target is only checked to be valid.
RequireOwnerAny(t) ==
  /\ calls[t].op = "resolved"
  /\ LET h == calls[t].target
     IN IF Valid(h, h.kind)
        THEN Goto(t, [calls[t] EXCEPT !.op = "owned"])
        ELSE Goto(t, Idle)
  /\ UNCHANGED <<slots, free, issued, reuse, released>>

\* HandleTable::require_owner(target, runtime).
RequireOwner(t) ==
  /\ calls[t].op = "resolved"
  /\ LET h == calls[t].target
     IN IF Valid(h, h.kind) /\ slots[h.index].owner = calls[t].runtime
        THEN Goto(t, [calls[t] EXCEPT !.op = "owned"])
        ELSE Goto(t, Idle)
  /\ UNCHANGED <<slots, free, issued, reuse, released>>

\* The typed getter that follows it: HANDLES.client for kt_worker_new, the
\* getter for the target's own kind for the calls that only use it.
ResolveTarget(t) ==
  /\ calls[t].op = "owned"
  /\ LET h == calls[t].target
         wanted == IF calls[t].kind = "worker" THEN "client" ELSE h.kind
     IN IF Valid(h, wanted)
        THEN Goto(t, [calls[t] EXCEPT
               !.op = IF calls[t].kind = "worker" THEN "building" ELSE "calling",
               !.tobj = Object(h)])
        ELSE Goto(t, Idle)
  /\ UNCHANGED <<slots, free, issued, reuse, released>>

\* A call that only uses the objects it looked up drops them and returns.
Return(t) ==
  /\ calls[t].op = "calling"
  /\ Goto(t, Idle)
  /\ UNCHANGED <<slots, free, issued, reuse, released>>

\* Faulty variant: the owner is not validated when the child is inserted.
InsertUnchecked(t) ==
  LET c == calls[t]
  IN /\ c.op = "building"
     /\ InsertInto(c.kind, IF c.kind = "poller" THEN Zero ELSE c.runtime, c.robj)
     /\ Goto(t, Idle)
     /\ UNCHANGED released

\* The end of the creating calls: a poller goes in unowned, any other entry
\* through insert_owned, which fails (and closes the new entry) if the
\* runtime's handle has been removed in the meantime.
Insert(t) ==
  LET c == calls[t]
  IN /\ c.op = "building"
     /\ \/ /\ c.kind = "poller"
           /\ InsertInto("poller", Zero, c.robj)
        \/ /\ c.kind # "poller"
           /\ Valid(c.runtime, "runtime")
           /\ InsertInto(c.kind, c.runtime, c.robj)
        \/ /\ c.kind # "poller"
           /\ ~Valid(c.runtime, "runtime")
           /\ UNCHANGED <<slots, free, issued, reuse>>
     /\ Goto(t, Idle)
     /\ UNCHANGED released

\* kt_client_free, kt_worker_free, kt_ephemeral_free, kt_poller_free: remove
\* the entry, then close it outside the lock (Close).
FreeOfKind(t, h, kind) ==
  /\ calls[t].op = "idle"
  /\ kind # "runtime"
  /\ Valid(h, kind)
  /\ Goto(t, [Idle EXCEPT !.op = "closing", !.todo = {Object(h)}])
  /\ TakeOne(h)
  /\ UNCHANGED released

\* kt_runtime_free, up to the end of remove_runtime.
RuntimeFree(t, h) ==
  /\ calls[t].op = "idle"
  /\ Valid(h, "runtime")
  /\ Goto(t, [Idle EXCEPT !.op = "freeing", !.robj = Object(h),
                          !.todo = { slots[i].entry.obj : i \in ChildSlots(h) }])
  /\ TakeRuntime(h)
  /\ UNCHANGED released

\* Closing one removed object outside the lock: Entry::close on a child of
\* kt_runtime_free's list, or the tail of the typed free functions.
Close(t, o) ==
  /\ calls[t].op \in {"closing", "freeing"}
  /\ o \in calls[t].todo
  /\ released' = released \cup {o}
  /\ Goto(t, [calls[t] EXCEPT !.todo = calls[t].todo \ {o}])
  /\ UNCHANGED <<slots, free, issued, reuse>>

\* The removing call returns once its list is empty; kt_runtime_free runs
\* free_runtime on the runtime itself last.
FinishFree(t) ==
  /\ calls[t].op \in {"closing", "freeing"}
  /\ calls[t].todo = {}
  /\ released' = IF calls[t].op = "freeing" THEN released \cup {calls[t].robj} ELSE released
  /\ Goto(t, Idle)
  /\ UNCHANGED <<slots, free, issued, reuse>>

-----------------------------------------------------------------------------
Init ==
  /\ slots = <<>>
  /\ free = <<>>
  /\ calls = [t \in Threads |-> Idle]
  /\ issued = <<>>
  /\ reuse = <<>>
  /\ released = {}

Next ==
  \E t \in Threads :
    \/ RuntimeNew(t)
    \/ \E h \in Known, k \in Created \cup {"none"}, g \in Known :
          Resolve(t, h, k, g)
    \/ RequireOwner(t)
    \/ ResolveTarget(t)
    \/ Return(t)
    \/ Insert(t)
    \/ \E h \in Known, k \in Kinds : FreeOfKind(t, h, k)
    \/ \E h \in Known : RuntimeFree(t, h)
    \/ \E o \in Objects : Close(t, o)
    \/ FinishFree(t)

Spec == Init /\ [][Next]_vars

-----------------------------------------------------------------------------
(***************************************************************************)
(* Properties.                                                             *)
(***************************************************************************)

TableTypeOK ==
  /\ slots \in Seq(Slots)
  /\ free \in Seq(Nat \ {0})
  /\ issued \in Seq(Issues)
  /\ reuse \in Seq(Nat)
  /\ Len(reuse) = Len(slots)

\* The types of the table, the calls in progress and the histories.
TypeOK ==
  /\ TableTypeOK
  /\ calls \in [Threads -> Calls]
  /\ released \subseteq Nat

\* The free stack lists exactly the empty slots, each once: insert_into can
\* never overwrite a live entry, and no slot is lost.
FreeListExact ==
  /\ \A n \in DOMAIN free : free[n] \in DOMAIN slots /\ slots[free[n]].entry = NoEntry
  /\ \A m, n \in DOMAIN free : free[m] = free[n] => m = n
  /\ \A i \in DOMAIN slots : slots[i].entry = NoEntry => \E n \in DOMAIN free : free[n] = i

\* A live object is always reachable through the handle issued for it, the
\* generation wrap included (handle.rs:361-382), and sits in one slot only.
LiveResolves ==
  \A i \in DOMAIN slots : slots[i].entry # NoEntry =>
    LET o == slots[i].entry.obj
    IN /\ o \in DOMAIN issued
       /\ issued[o].handle = [kind |-> slots[i].entry.kind,
                              gen |-> slots[i].generation, index |-> i]
       /\ issued[o].age = reuse[i]

\* "A handle used after free resolves to StaleHandle" (handle.rs:3-6), with
\* the exact limit of a 24-bit generation: a freed object's handle can reach
\* another object only once its slot has been emptied GenMask times since
\* the handle was issued.
StaleWithinCycle ==
  \A o \in DOMAIN issued :
    LET h == issued[o].handle
    IN Valid(h, h.kind) /\ Object(h) # o => reuse[h.index] - issued[o].age >= GenMask

\* No child outlives its runtime: the owner of every live owned entry is a
\* live runtime, whatever creation raced kt_runtime_free (handle.rs:57).
OwnerLive ==
  \A i \in DOMAIN slots :
    slots[i].owner # Zero => Valid(slots[i].owner, "runtime")

\* A slot with an owner is occupied, by an entry of an ownable kind.
OwnedIsChild ==
  \A i \in DOMAIN slots :
    slots[i].owner # Zero => slots[i].entry.kind \in ChildKinds

\* What a removing call still has to release.
Held(t) == calls[t].todo \cup IF calls[t].op = "freeing" THEN {calls[t].robj} ELSE {}

\* The removed objects in the hands of one thread are in no other thread's,
\* not in the table and not released yet: each object has a single remover
\* however kt_*_free calls and kt_runtime_free race on the same handles.
SingleRemover ==
  \A t \in Threads :
    /\ Held(t) \cap released = {}
    /\ \A o \in Held(t) :
         \A i \in DOMAIN slots : slots[i].entry # NoEntry => slots[i].entry.obj # o
    /\ \A u \in Threads : u # t => Held(t) \cap Held(u) = {}

\* The handle issued for object o has lived through a whole generation cycle.
Wrapped(o) == reuse[issued[o].handle.index] - issued[o].age >= GenMask

\* A call that has passed its three separate lookups (runtime, require_owner,
\* typed getter) runs a child on the runtime that made it: one runtime's
\* client or worker is never driven by another runtime's reactor, however the
\* handles are freed and their slots reused between the lookups.  The only
\* way out is a slot that went round a whole generation cycle in between.
CallPairsMatch ==
  \A t \in Threads :
    calls[t].tobj # 0 =>
      \/ issued[calls[t].tobj].maker = calls[t].robj
      \/ \E o \in DOMAIN issued : Wrapped(o)

-----------------------------------------------------------------------------
(***************************************************************************)
(* The strengthenings the proofs rest on (see HandleTableProofs).          *)
(***************************************************************************)

\* A call that is building something builds an owned entry or a poller.
BuildsKnownKind ==
  \A t \in Threads : calls[t].op = "building" => calls[t].kind \in ChildKinds \cup {"poller"}

\* d bumps after generation g, for d smaller than a whole cycle.
Advance(g, d) == IF g + d <= GenMask THEN g + d ELSE g + d - GenMask

\* What a slot's generation says about every handle ever issued for it: the
\* distance between the two generations counts the removals in between, and
\* a handle with no removal since is the handle of the slot's occupant.
GenerationsCount ==
  \A o \in DOMAIN issued :
    LET h == issued[o].handle
        d == reuse[h.index] - issued[o].age
    IN /\ h.index \in DOMAIN slots
       /\ issued[o].age <= reuse[h.index]
       /\ d < GenMask => slots[h.index].generation = Advance(h.gen, d)
       /\ d = 0 => slots[h.index].entry.obj = o

\* Removed and released objects are issued ones, a runtime is not its own
\* child, and a live object is not released.
ObjectsAccounted ==
  /\ released \subseteq DOMAIN issued
  /\ \A t \in Threads : Held(t) \subseteq DOMAIN issued
  /\ \A t \in Threads : calls[t].op = "freeing" => calls[t].robj \notin calls[t].todo
  /\ \A i \in DOMAIN slots : slots[i].entry # NoEntry => slots[i].entry.obj \notin released

\* The inductive invariant for the slots, and the one for the removers.
TableInv ==
  TableTypeOK /\ FreeListExact /\ LiveResolves /\ GenerationsCount /\ OwnedIsChild /\ OwnerLive
RemoverInv == SingleRemover /\ ObjectsAccounted
=============================================================================
