-------------------------- MODULE HandleTableProofs --------------------------
(***************************************************************************)
(* Proofs about HandleTable for any number of threads, objects and any      *)
(* generation width.                                                       *)
(***************************************************************************)
EXTENDS HandleTable, SequenceTheorems, FiniteSetTheorems, TLAPS

USE GenMaskAssumption, MaxObjectsAssumption, CreatedAssumption

\* What the type invariant says of the elements of each sequence.
LEMMA TableTypes ==
  ASSUME TableTypeOK
  PROVE  /\ DOMAIN issued = 1..Len(issued) /\ Len(issued) \in Nat
         /\ DOMAIN slots = 1..Len(slots) /\ Len(slots) \in Nat
         /\ DOMAIN reuse = DOMAIN slots
         /\ DOMAIN free = 1..Len(free) /\ Len(free) \in Nat
         /\ \A i \in DOMAIN slots : slots[i] \in Slots /\ reuse[i] \in Nat
         /\ \A p \in DOMAIN issued :
              issued[p].handle \in Handles \ {Zero} /\ issued[p].age \in Nat
<1>1. DOMAIN issued = 1..Len(issued) /\ Len(issued) \in Nat
  BY DEF TableTypeOK
<1>2. DOMAIN slots = 1..Len(slots) /\ Len(slots) \in Nat /\ DOMAIN reuse = DOMAIN slots
  BY DEF TableTypeOK
<1>3. DOMAIN free = 1..Len(free) /\ Len(free) \in Nat
  BY DEF TableTypeOK
<1>4. \A i \in DOMAIN slots : slots[i] \in Slots
  BY DEF TableTypeOK
<1>5. \A i \in DOMAIN reuse : reuse[i] \in Nat
  BY DEF TableTypeOK
<1>6. \A p \in DOMAIN issued :
        issued[p] \in Issues
  BY DEF TableTypeOK
<1> QED BY <1>1, <1>2, <1>3, <1>4, <1>5, <1>6 DEF Issues

\* insert_into keeps the table consistent: it fills an empty slot, or a new
\* one, and the handle it issues is new to that slot's current generation.
LEMMA InsertTable ==
  ASSUME TableInv, NEW kind \in Kinds, NEW owner \in Handles, NEW maker \in Nat,
         InsertInto(kind, owner, maker),
         owner # Zero => Valid(owner, "runtime") /\ kind \in ChildKinds
  PROVE  TableInv'
<1> DEFINE o == Len(issued) + 1
           entry == [kind |-> kind, obj |-> o]
           full(g) == [generation |-> g, owner |-> owner, entry |-> entry]
           record(g, i, age) ==
             [handle |-> [kind |-> kind, gen |-> g, index |-> i], age |-> age, maker |-> maker]
<1> USE DEF TableInv
<1>a. /\ o \in Nat \ {0} /\ o \notin DOMAIN issued /\ DOMAIN issued = 1..Len(issued)
      /\ DOMAIN slots = 1..Len(slots) /\ DOMAIN reuse = DOMAIN slots /\ Len(slots) \in Nat
      /\ \A i \in DOMAIN slots : slots[i] \in Slots /\ reuse[i] \in Nat
      /\ \A p \in DOMAIN issued :
           issued[p].handle \in Handles \ {Zero} /\ issued[p].age \in Nat
  BY TableTypes
<1>e. entry \in Entries /\ entry # NoEntry /\ entry.obj = o /\ entry.kind = kind
  BY <1>a DEF Entries, NoEntry
<1>b. ASSUME NEW g \in 1..GenMask, NEW i \in Nat \ {0}, NEW age \in Nat
      PROVE  /\ full(g) \in Slots
             /\ record(g, i, age) \in Issues
  BY <1>a, <1>e DEF Slots, Issues, Handles, Kinds, ChildKinds, Zero
<1>1. CASE free # <<>>
  <2> DEFINE i == free[Len(free)]
  <2>1. /\ free' = SubSeq(free, 1, Len(free) - 1)
        /\ slots' = [slots EXCEPT ![i] = full(slots[i].generation)]
        /\ issued' = Append(issued, record(slots[i].generation, i, reuse[i]))
        /\ reuse' = reuse
    BY <1>1 DEF InsertInto
  <2>2. /\ i \in DOMAIN slots /\ slots[i].entry = NoEntry
        /\ Len(free) \in Nat \ {0}
        /\ Len(free) \in DOMAIN free
    BY <1>1 DEF FreeListExact, TableTypeOK
  <2> DEFINE g == slots[i].generation
  <2>c. g \in 1..GenMask /\ reuse[i] \in Nat /\ i \in Nat \ {0}
    BY <2>2, <1>a DEF Slots
  <2> HIDE DEF i, g, full, record, entry
  <2>d. /\ DOMAIN slots' = DOMAIN slots
        /\ slots'[i] = full(g)
        /\ \A j \in DOMAIN slots : j # i => slots'[j] = slots[j]
        /\ slots' \in Seq(Slots) /\ Len(slots') = Len(slots)
    <3>1. slots' = [slots EXCEPT ![i] = full(g)]
      BY <2>1 DEF g, i
    <3>2. full(g) \in Slots
      BY <1>b, <2>c
    <3> QED BY <3>1, <3>2, <2>2 DEF TableTypeOK
  <2>e. /\ DOMAIN issued' = DOMAIN issued \cup {o}
        /\ issued'[o] = record(g, i, reuse[i])
        /\ \A p \in DOMAIN issued : issued'[p] = issued[p]
        /\ issued' \in Seq(Issues)
    <3>1. issued' = Append(issued, record(g, i, reuse[i]))
      BY <2>1 DEF g, i
    <3>2. record(g, i, reuse[i]) \in Issues
      BY <1>b, <2>c
    <3> QED BY <3>1, <3>2 DEF TableTypeOK
  <2>f. /\ full(g).generation = g /\ full(g).owner = owner /\ full(g).entry = entry
        /\ record(g, i, reuse[i]).handle = [kind |-> kind, gen |-> g, index |-> i]
        /\ record(g, i, reuse[i]).age = reuse[i]
    BY DEF full, record
  <2>g. /\ free' \in Seq(Nat \ {0})
        /\ DOMAIN free = DOMAIN free' \cup {Len(free)}
        /\ Len(free) \notin DOMAIN free'
        /\ \A n \in DOMAIN free' : free'[n] = free[n]
    <3> DEFINE m == Len(free) - 1
    <3>1. m \in Nat /\ free' = SubSeq(free, 1, m) /\ m <= Len(free) /\ free \in Seq(Nat \ {0})
      BY <2>1, <2>2 DEF TableTypeOK
    <3>2. free' \in Seq(Nat \ {0}) /\ Len(free') = m /\ \A n \in 1..m : free'[n] = free[n]
      <4>1. \A n \in 1..m : free[n] \in Nat \ {0}
        BY <3>1
      <4> HIDE DEF m
      <4>2. /\ SubSeq(free, 1, m) \in Seq(Nat \ {0})
            /\ Len(SubSeq(free, 1, m)) = m
            /\ \A n \in 1..m : SubSeq(free, 1, m)[n] = free[n]
        BY <3>1, <4>1, SubSeqProperties
      <4> QED BY <3>1, <4>2
    <3>3. DOMAIN free' = 1..m /\ DOMAIN free = 1..(m+1) /\ Len(free) = m + 1
      BY <3>1, <3>2, <2>2
    <3> QED BY <3>1, <3>2, <3>3
  <2>3. TableTypeOK'
    BY <2>1, <2>d, <2>e, <2>g DEF TableTypeOK
  <2>4. FreeListExact'
    <3>1. \A n \in DOMAIN free' : free[n] # i
      BY <2>2, <2>g DEF FreeListExact, i
    <3>2. \A j \in DOMAIN slots' : slots'[j].entry = NoEntry => j # i /\ slots[j].entry = NoEntry
      BY <2>d, <2>f, <1>e
    <3>3. i = free[Len(free)]
      BY DEF i
    <3>4. \A n \in DOMAIN free' : free'[n] \in DOMAIN slots' /\ slots'[free'[n]].entry = NoEntry
      <4> SUFFICES ASSUME NEW n \in DOMAIN free'
                   PROVE  free'[n] \in DOMAIN slots' /\ slots'[free'[n]].entry = NoEntry
        OBVIOUS
      <4>1. n \in DOMAIN free /\ free'[n] = free[n] /\ free[n] # i
        BY <2>g, <3>1
      <4>2. free[n] \in DOMAIN slots /\ slots[free[n]].entry = NoEntry
        BY <4>1 DEF FreeListExact
      <4>3. DOMAIN slots' = DOMAIN slots /\ slots'[free[n]] = slots[free[n]]
        BY <4>1, <4>2, <2>d
      <4> QED BY <4>1, <4>2, <4>3
    <3>5. \A m, n \in DOMAIN free' : free'[m] = free'[n] => m = n
      BY <2>g DEF FreeListExact
    <3>6. \A j \in DOMAIN slots' :
            slots'[j].entry = NoEntry => \E n \in DOMAIN free' : free'[n] = j
      <4> SUFFICES ASSUME NEW j \in DOMAIN slots', slots'[j].entry = NoEntry
                   PROVE  \E n \in DOMAIN free' : free'[n] = j
        OBVIOUS
      <4>1. j \in DOMAIN slots /\ j # i /\ slots[j].entry = NoEntry
        BY <3>2, <2>d
      <4>2. PICK n \in DOMAIN free : free[n] = j
        BY <4>1 DEF FreeListExact
      <4>3. n \in DOMAIN free'
        BY <4>1, <4>2, <3>3, <2>g
      <4> QED BY <4>2, <4>3, <2>g
    <3> QED BY <3>4, <3>5, <3>6 DEF FreeListExact
  <2>5. LiveResolves'
    <3> SUFFICES ASSUME NEW j \in DOMAIN slots', slots'[j].entry # NoEntry
                 PROVE  LET q == slots'[j].entry.obj
                        IN /\ q \in DOMAIN issued'
                           /\ issued'[q].handle = [kind |-> slots'[j].entry.kind,
                                       gen |-> slots'[j].generation, index |-> j]
                           /\ issued'[q].age = reuse'[j]
      BY DEF LiveResolves
    <3>1. CASE j = i
      BY <3>1, <2>1, <2>d, <2>e, <2>f, <1>e
    <3>2. CASE j # i
      BY <3>2, <2>1, <2>d, <2>e DEF LiveResolves
    <3> QED BY <3>1, <3>2
  <2>6. GenerationsCount'
    <3> SUFFICES ASSUME NEW p \in DOMAIN issued'
                 PROVE  LET h == issued'[p].handle
                            d == reuse'[h.index] - issued'[p].age
                        IN /\ h.index \in DOMAIN slots'
                           /\ issued'[p].age <= reuse'[h.index]
                           /\ d < GenMask => slots'[h.index].generation = Advance(h.gen, d)
                           /\ d = 0 => slots'[h.index].entry.obj = p
      BY DEF GenerationsCount
    <3>1. CASE p = o
      BY <3>1, <2>1, <2>2, <2>c, <2>d, <2>e, <2>f, <1>e DEF Advance
    <3>2. CASE p # o
      <4>1. p \in DOMAIN issued /\ issued'[p] = issued[p]
        BY <3>2, <2>e
      <4>2. issued[p].handle.index = i => reuse[i] - issued[p].age # 0
        BY <4>1, <2>2, <1>a DEF GenerationsCount, NoEntry
      <4>3. i \in DOMAIN slots => slots'[i].generation = slots[i].generation
        BY <2>d, <2>f DEF g
      <4> QED BY <4>1, <4>2, <4>3, <2>1, <2>2, <2>d DEF GenerationsCount
    <3> QED BY <3>1, <3>2
  <2>7. OwnedIsChild'
    <3>1. slots'[i].owner = owner /\ slots'[i].entry.kind = kind
      BY <2>d, <2>f, <1>e
    <3> QED BY <3>1, <2>d DEF OwnedIsChild
  <2>8. OwnerLive'
    <3>1. slots'[i].owner = owner
      BY <2>d, <2>f
    <3>2. ASSUME NEW h, Valid(h, "runtime")
          PROVE  Valid(h, "runtime")'
      BY <3>2, <2>2, <2>d DEF Valid
    <3> QED BY <3>1, <3>2, <2>d DEF OwnerLive
  <2> QED BY <2>3, <2>4, <2>5, <2>6, <2>7, <2>8
<1>2. CASE free = <<>>
  <2> DEFINE i == Len(slots) + 1
  <2>1. /\ slots' = Append(slots, full(1))
        /\ issued' = Append(issued, record(1, i, 0))
        /\ reuse' = Append(reuse, 0)
        /\ free' = free
    BY <1>2 DEF InsertInto
  <2>c. 1 \in 1..GenMask /\ i \in Nat \ {0} /\ i \notin DOMAIN slots
    BY <1>a
  <2> HIDE DEF full, record, entry
  <2>d. /\ DOMAIN slots' = DOMAIN slots \cup {i}
        /\ slots'[i] = full(1)
        /\ \A j \in DOMAIN slots : slots'[j] = slots[j]
        /\ slots' \in Seq(Slots) /\ Len(slots') = Len(slots) + 1
    <3>2. full(1) \in Slots
      BY <1>b, <2>c
    <3> QED BY <2>1, <3>2 DEF TableTypeOK
  <2>e. /\ DOMAIN issued' = DOMAIN issued \cup {o}
        /\ issued'[o] = record(1, i, 0)
        /\ \A p \in DOMAIN issued : issued'[p] = issued[p]
        /\ issued' \in Seq(Issues)
    <3>2. record(1, i, 0) \in Issues
      BY <1>b, <2>c
    <3> QED BY <2>1, <3>2 DEF TableTypeOK
  <2>f. /\ full(1).generation = 1 /\ full(1).owner = owner /\ full(1).entry = entry
        /\ record(1, i, 0).handle = [kind |-> kind, gen |-> 1, index |-> i]
        /\ record(1, i, 0).age = 0
    BY DEF full, record
  <2>g. /\ reuse' \in Seq(Nat) /\ Len(reuse') = Len(reuse) + 1
        /\ DOMAIN reuse' = DOMAIN slots \cup {i}
        /\ reuse'[i] = 0
        /\ \A j \in DOMAIN slots : reuse'[j] = reuse[j]
    BY <2>1, <1>a DEF TableTypeOK
  <2> HIDE DEF i
  <2>3. TableTypeOK'
    BY <2>1, <2>d, <2>e, <2>g DEF TableTypeOK
  <2>4. FreeListExact'
    <3>1. \A j \in DOMAIN slots' : slots'[j].entry = NoEntry => j \in DOMAIN slots
      BY <2>d, <2>f, <1>e
    <3> QED BY <2>1, <2>d, <3>1 DEF FreeListExact
  <2>5. LiveResolves'
    <3> SUFFICES ASSUME NEW j \in DOMAIN slots', slots'[j].entry # NoEntry
                 PROVE  LET q == slots'[j].entry.obj
                        IN /\ q \in DOMAIN issued'
                           /\ issued'[q].handle = [kind |-> slots'[j].entry.kind,
                                       gen |-> slots'[j].generation, index |-> j]
                           /\ issued'[q].age = reuse'[j]
      BY DEF LiveResolves
    <3>1. CASE j = i
      BY <3>1, <2>d, <2>e, <2>f, <2>g, <1>e
    <3>2. CASE j # i
      <4>1. j \in DOMAIN slots /\ slots'[j] = slots[j] /\ reuse'[j] = reuse[j]
        BY <3>2, <2>d, <2>g
      <4> QED BY <4>1, <2>e DEF LiveResolves
    <3> QED BY <3>1, <3>2
  <2>6. GenerationsCount'
    <3> SUFFICES ASSUME NEW p \in DOMAIN issued'
                 PROVE  LET h == issued'[p].handle
                            d == reuse'[h.index] - issued'[p].age
                        IN /\ h.index \in DOMAIN slots'
                           /\ issued'[p].age <= reuse'[h.index]
                           /\ d < GenMask => slots'[h.index].generation = Advance(h.gen, d)
                           /\ d = 0 => slots'[h.index].entry.obj = p
      BY DEF GenerationsCount
    <3>1. CASE p = o
      BY <3>1, <2>c, <2>d, <2>e, <2>f, <2>g, <1>e DEF Advance
    <3>2. CASE p # o
      <4>1. p \in DOMAIN issued /\ issued'[p] = issued[p]
        BY <3>2, <2>e
      <4>2. /\ issued[p].handle.index \in DOMAIN slots
            /\ slots'[issued[p].handle.index] = slots[issued[p].handle.index]
            /\ reuse'[issued[p].handle.index] = reuse[issued[p].handle.index]
        BY <4>1, <2>d, <2>g DEF GenerationsCount
      <4> QED BY <4>1, <4>2, <2>d DEF GenerationsCount
    <3> QED BY <3>1, <3>2
  <2>7. OwnedIsChild'
    BY <2>d, <2>f, <1>a, <1>e DEF OwnedIsChild
  <2>8. OwnerLive'
    <3>1. slots'[i].owner = owner
      BY <2>d, <2>f
    <3>2. ASSUME NEW h, Valid(h, "runtime")
          PROVE  Valid(h, "runtime")'
      BY <3>2, <2>c, <2>d DEF Valid
    <3> QED BY <3>1, <3>2, <2>d DEF OwnerLive
  <2> QED BY <2>3, <2>4, <2>5, <2>6, <2>7, <2>8
<1> QED BY <1>1, <1>2

\* The set gone of live slots is emptied, and pushed on the free stack.
SlotsEmptied(gone) ==
  /\ slots' \in Seq(Slots)
  /\ Len(slots') = Len(slots)
  /\ \A i \in DOMAIN slots : slots'[i] = IF i \in gone THEN Emptied(slots[i]) ELSE slots[i]
ReuseCounted(gone) ==
  /\ reuse' \in Seq(Nat)
  /\ Len(reuse') = Len(reuse)
  /\ \A i \in DOMAIN slots : reuse'[i] = IF i \in gone THEN reuse[i] + 1 ELSE reuse[i]
FreePushed(gone) ==
  /\ free' \in Seq(Nat \ {0})
  /\ DOMAIN free \subseteq DOMAIN free'
  /\ \A n \in DOMAIN free : free'[n] = free[n]
  /\ \A n \in DOMAIN free' \ DOMAIN free : free'[n] \in gone
  /\ \A m, n \in DOMAIN free' \ DOMAIN free : free'[m] = free'[n] => m = n
  /\ \A i \in gone : \E n \in DOMAIN free' \ DOMAIN free : free'[n] = i
NoDangling(gone) ==
  \A i \in DOMAIN slots :
    i \notin gone /\ slots[i].owner # Zero => slots[i].owner.index \notin gone

\* Emptying a set of live slots that leaves no owner dangling keeps the table
\* consistent, whatever handles are still around for those slots.
LEMMA TakeTable ==
  ASSUME TableInv, NEW gone, gone \subseteq DOMAIN slots,
         \A i \in gone : slots[i].entry # NoEntry,
         NoDangling(gone), SlotsEmptied(gone), ReuseCounted(gone), FreePushed(gone),
         issued' = issued
  PROVE  TableInv'
<1> USE DEF TableInv
<1>a. /\ DOMAIN slots = 1..Len(slots) /\ DOMAIN reuse = DOMAIN slots /\ Len(slots) \in Nat
      /\ \A i \in DOMAIN slots : slots[i] \in Slots /\ reuse[i] \in Nat
      /\ \A p \in DOMAIN issued :
           issued[p].handle \in Handles \ {Zero} /\ issued[p].age \in Nat
  BY TableTypes
<1>b. DOMAIN slots' = DOMAIN slots /\ DOMAIN reuse' = DOMAIN slots
  BY <1>a DEF SlotsEmptied, ReuseCounted, TableTypeOK
<1>c. \A i \in gone : /\ slots'[i].entry = NoEntry
                      /\ slots'[i].owner = Zero
                      /\ slots'[i].generation = NextGeneration(slots[i].generation)
                      /\ reuse'[i] = reuse[i] + 1
  <2>1. \A sl : /\ Emptied(sl).entry = NoEntry /\ Emptied(sl).owner = Zero
                /\ Emptied(sl).generation = NextGeneration(sl.generation)
    BY DEF Emptied
  <2>2. \A i \in gone : slots'[i] = Emptied(slots[i]) /\ reuse'[i] = reuse[i] + 1
    BY DEF SlotsEmptied, ReuseCounted
  <2> QED BY <2>1, <2>2
<1>d. \A i \in DOMAIN slots : i \notin gone => slots'[i] = slots[i] /\ reuse'[i] = reuse[i]
  BY DEF SlotsEmptied, ReuseCounted
<1>3. TableTypeOK'
  BY DEF TableTypeOK, SlotsEmptied, ReuseCounted, FreePushed
<1>4. FreeListExact'
  <2>1. \A n \in DOMAIN free' : free'[n] \in DOMAIN slots' /\ slots'[free'[n]].entry = NoEntry
    <3> SUFFICES ASSUME NEW n \in DOMAIN free'
                 PROVE  free'[n] \in DOMAIN slots' /\ slots'[free'[n]].entry = NoEntry
      OBVIOUS
    <3>1. CASE n \in DOMAIN free
      <4>1. free'[n] \in DOMAIN slots /\ slots[free'[n]].entry = NoEntry
        BY <3>1 DEF FreeListExact, FreePushed
      <4>2. free'[n] \notin gone
        BY <4>1
      <4> QED BY <4>1, <4>2, <1>b, <1>d
    <3>2. CASE n \notin DOMAIN free
      BY <3>2, <1>b, <1>c DEF FreePushed
    <3> QED BY <3>1, <3>2
  <2>2. ASSUME NEW m \in DOMAIN free', NEW n \in DOMAIN free', free'[m] = free'[n]
        PROVE  m = n
    <3>1. \A k \in DOMAIN free : free'[k] = free[k] /\ free'[k] \notin gone
      BY DEF FreeListExact, FreePushed
    <3>2. CASE m \in DOMAIN free
      BY <2>2, <3>1, <3>2 DEF FreeListExact, FreePushed
    <3>3. CASE m \notin DOMAIN free
      BY <2>2, <3>1, <3>3 DEF FreePushed
    <3> QED BY <3>2, <3>3
  <2>3. ASSUME NEW i \in DOMAIN slots', slots'[i].entry = NoEntry
        PROVE  \E n \in DOMAIN free' : free'[n] = i
    <3>1. CASE i \in gone
      BY <3>1 DEF FreePushed
    <3>2. CASE i \notin gone
      <4>1. slots[i].entry = NoEntry /\ i \in DOMAIN slots
        BY <3>2, <2>3, <1>b, <1>d
      <4>2. PICK n \in DOMAIN free : free[n] = i
        BY <4>1 DEF FreeListExact
      <4> QED BY <4>2 DEF FreePushed
    <3> QED BY <3>1, <3>2
  <2> QED BY <2>1, <2>2, <2>3 DEF FreeListExact
<1>5. LiveResolves'
  <2> SUFFICES ASSUME NEW j \in DOMAIN slots', slots'[j].entry # NoEntry
               PROVE  LET q == slots'[j].entry.obj
                      IN /\ q \in DOMAIN issued'
                         /\ issued'[q].handle = [kind |-> slots'[j].entry.kind,
                                     gen |-> slots'[j].generation, index |-> j]
                         /\ issued'[q].age = reuse'[j]
    BY DEF LiveResolves
  <2>1. j \in DOMAIN slots /\ j \notin gone
    BY <1>b, <1>c
  <2>2. slots'[j] = slots[j] /\ reuse'[j] = reuse[j]
    BY <2>1, <1>d
  <2> QED BY <2>1, <2>2 DEF LiveResolves
<1>6. GenerationsCount'
  <2> SUFFICES ASSUME NEW p \in DOMAIN issued
               PROVE  LET h == issued[p].handle
                          d == reuse'[h.index] - issued[p].age
                      IN /\ h.index \in DOMAIN slots'
                         /\ issued[p].age <= reuse'[h.index]
                         /\ d < GenMask => slots'[h.index].generation = Advance(h.gen, d)
                         /\ d = 0 => slots'[h.index].entry.obj = p
    BY DEF GenerationsCount
  <2> DEFINE h == issued[p].handle
             i == h.index
             age == issued[p].age
             d == reuse[i] - age
  <2>1. /\ i \in DOMAIN slots /\ age <= reuse[i]
        /\ d < GenMask => slots[i].generation = Advance(h.gen, d)
        /\ d = 0 => slots[i].entry.obj = p
    BY DEF GenerationsCount
  <2>2. /\ age \in Nat /\ reuse[i] \in Nat /\ h.gen \in 1..GenMask
        /\ slots[i].generation \in 1..GenMask
    BY <2>1, <1>a DEF Handles, Slots
  <2> HIDE DEF h, i, age, d
  <2>3. d \in Nat /\ d = reuse[i] - age
    BY <2>1, <2>2 DEF d
  <2>4. CASE i \in gone
    <3>1. reuse'[i] - age = d + 1 /\ reuse'[i] = reuse[i] + 1
      <4>1. reuse'[i] = reuse[i] + 1
        BY <2>4, <1>c
      <4> QED BY <4>1, <2>2, <2>3
    <3>2. ASSUME d + 1 < GenMask
          PROVE  slots'[i].generation = Advance(h.gen, d + 1)
      <4>1. slots[i].generation = Advance(h.gen, d)
        BY <2>1, <2>3, <3>2
      <4>2. slots'[i].generation = NextGeneration(slots[i].generation)
        BY <2>4, <1>c
      <4>3. NextGeneration(Advance(h.gen, d)) = Advance(h.gen, d + 1)
        <5> DEFINE g == h.gen
        <5>1. g \in 1..GenMask /\ d \in Nat /\ d + 1 < GenMask
          BY <2>2, <2>3, <3>2
        <5> HIDE DEF g
        <5>2. NextGeneration(Advance(g, d)) = Advance(g, d + 1)
          BY <5>1 DEF NextGeneration, Advance
        <5> QED BY <5>2 DEF g
      <4> QED BY <4>1, <4>2, <4>3
    <3>3. age <= reuse'[i] /\ d + 1 # 0
      BY <2>1, <2>2, <2>3, <3>1
    <3> QED BY <3>1, <3>2, <3>3, <2>1, <1>b DEF h, i, age
  <2>5. CASE i \notin gone
    <3>1. slots'[i] = slots[i] /\ reuse'[i] = reuse[i]
      BY <2>5, <2>1, <1>d
    <3> QED BY <3>1, <2>1, <2>3, <1>b DEF h, i, age
  <2> QED BY <2>4, <2>5
<1>7. OwnedIsChild'
  BY <1>b, <1>c, <1>d DEF OwnedIsChild
<1>8. OwnerLive'
  <2> SUFFICES ASSUME NEW i \in DOMAIN slots', slots'[i].owner # Zero
               PROVE  Valid(slots[i].owner, "runtime")'
    BY DEF OwnerLive
  <2>1. i \in DOMAIN slots \ gone /\ slots'[i] = slots[i]
    BY <1>b, <1>c, <1>d
  <2>2. Valid(slots[i].owner, "runtime") /\ slots[i].owner.index \notin gone
    BY <2>1 DEF OwnerLive, NoDangling
  <2>3. slots'[slots[i].owner.index] = slots[slots[i].owner.index]
    BY <2>2, <1>d DEF Valid
  <2> QED BY <2>1, <2>2, <2>3, <1>b DEF Valid
<1> QED BY <1>3, <1>4, <1>5, <1>6, <1>7, <1>8

\* take leaves a well-formed, unoccupied and unowned slot of the next generation.
LEMMA EmptiedType ==
  ASSUME NEW s \in Slots
  PROVE  Emptied(s) \in Slots
<1>1. NextGeneration(s.generation) \in 1..GenMask
  BY DEF Slots, NextGeneration
<1> QED BY <1>1 DEF Emptied, Slots, Handles

\* remove_of_kind keeps the table consistent.  Only a runtime owns anything,
\* so removing any other kind of entry leaves no owner dangling.
LEMMA TakeOneTable ==
  ASSUME TableInv, NEW h, NEW kind, Valid(h, kind), kind # "runtime", TakeOne(h)
  PROVE  TableInv'
<1> USE DEF TableInv
<1> DEFINE i == h.index
           gone == {i}
<1>1. /\ i \in DOMAIN slots /\ slots[i].entry # NoEntry /\ slots[i].entry.kind = kind
      /\ slots[i] \in Slots /\ reuse[i] \in Nat /\ i \in 1..Len(slots) /\ i \in Nat \ {0}
      /\ Len(reuse) = Len(slots)
  BY TableTypes DEF Valid, TableTypeOK
<1>2. /\ slots' = [slots EXCEPT ![i] = Emptied(slots[i])]
      /\ free' = Append(free, i)
      /\ reuse' = [reuse EXCEPT ![i] = reuse[i] + 1]
      /\ issued' = issued
  BY DEF TakeOne
<1> HIDE DEF i
<1>3. SlotsEmptied({i})
  <2>1. Emptied(slots[i]) \in Slots
    BY <1>1, EmptiedType
  <2>2. slots \in Seq(Slots)
    BY DEF TableTypeOK
  <2>3. slots' \in Seq(Slots) /\ Len(slots') = Len(slots)
    BY <1>1, <1>2, <2>1, <2>2
  <2>4. \A j \in DOMAIN slots : slots'[j] = IF j \in {i} THEN Emptied(slots[j]) ELSE slots[j]
    BY <1>2
  <2> QED BY <2>3, <2>4 DEF SlotsEmptied
<1>4. ReuseCounted({i})
  <2>1. reuse \in Seq(Nat) /\ reuse[i] + 1 \in Nat
    BY <1>1 DEF TableTypeOK
  <2>2. reuse' \in Seq(Nat) /\ Len(reuse') = Len(reuse)
    <3>1. PICK k : k = reuse[i] + 1
      OBVIOUS
    <3>2. k \in Nat /\ reuse' = [reuse EXCEPT ![i] = k]
      BY <1>2, <2>1, <3>1
    <3> QED BY <1>1, <2>1, <3>2, ExceptSeq
  <2>3. DOMAIN slots = DOMAIN reuse
    BY <1>1, <2>1 DEF TableTypeOK
  <2>4. \A j \in DOMAIN slots : reuse'[j] = IF j \in {i} THEN reuse[j] + 1 ELSE reuse[j]
    BY <1>2, <2>3
  <2> QED BY <2>2, <2>4 DEF ReuseCounted
<1>5. FreePushed({i})
  <2>1. /\ free' \in Seq(Nat \ {0}) /\ Len(free') = Len(free) + 1
        /\ \A n \in 1..Len(free) : free'[n] = free[n]
        /\ free'[Len(free) + 1] = i
        /\ Len(free) \in Nat /\ DOMAIN free = 1..Len(free)
    BY <1>1, <1>2 DEF TableTypeOK
  <2>2. DOMAIN free' = 1..(Len(free) + 1)
    BY <2>1
  <2>3. DOMAIN free' \ DOMAIN free = {Len(free) + 1}
    BY <2>1, <2>2
  <2> QED BY <2>1, <2>2, <2>3 DEF FreePushed
<1>6. NoDangling({i})
  <2> SUFFICES ASSUME NEW j \in DOMAIN slots, slots[j].owner # Zero, slots[j].owner.index = i
               PROVE  FALSE
    BY DEF NoDangling
  <2>1. Valid(slots[j].owner, "runtime")
    BY DEF OwnerLive
  <2> QED BY <2>1, <1>1 DEF Valid
<1> QED BY <1>1, <1>2, <1>3, <1>4, <1>5, <1>6, TakeTable

\* remove_runtime keeps the table consistent: what it empties is exactly the
\* runtime and the slots that name it as their owner.
LEMMA TakeRuntimeTable ==
  ASSUME TableInv, NEW h \in Handles, Valid(h, "runtime"), TakeRuntime(h)
  PROVE  TableInv'
<1> USE DEF TableInv
<1> DEFINE i == h.index
           kids == ChildSlots(h)
           gone == kids \cup {i}
<1>1. /\ i \in DOMAIN slots /\ slots[i].entry # NoEntry /\ slots[i].entry.kind = "runtime"
      /\ h # Zero
  BY DEF Valid
<1>2. /\ slots' = [k \in DOMAIN slots |-> IF k \in gone THEN Emptied(slots[k]) ELSE slots[k]]
      /\ reuse' = [k \in DOMAIN slots |-> IF k \in gone THEN reuse[k] + 1 ELSE reuse[k]]
      /\ issued' = issued
  BY DEF TakeRuntime
<1>3. PICK q \in Ascending(kids) : free' = Append(free, i) \o q
  BY DEF TakeRuntime
<1>4. /\ DOMAIN slots = 1..Len(slots) /\ Len(slots) \in Nat /\ DOMAIN reuse = DOMAIN slots
      /\ \A k \in DOMAIN slots : slots[k] \in Slots /\ reuse[k] \in Nat
      /\ free \in Seq(Nat \ {0}) /\ Len(free) \in Nat /\ DOMAIN free = 1..Len(free)
      /\ Len(reuse) = Len(slots)
  BY TableTypes DEF TableTypeOK
<1>5. /\ kids \subseteq DOMAIN slots /\ i \notin kids
      /\ \A k \in kids : slots[k].owner = h /\ slots[k].entry # NoEntry
                         /\ slots[k].entry.kind \in ChildKinds
  <2>1. \A k \in kids : k \in DOMAIN slots /\ slots[k].owner = h /\ k # i
    BY DEF ChildSlots
  <2>2. \A k \in kids : slots[k].entry.kind \in ChildKinds
    BY <2>1, <1>1 DEF OwnedIsChild
  <2> QED BY <2>1, <2>2 DEF ChildKinds, NoEntry
<1> HIDE DEF i, kids
<1>6. SlotsEmptied(gone)
  <2>1. \A k \in DOMAIN slots :
          (IF k \in gone THEN Emptied(slots[k]) ELSE slots[k]) \in Slots
    BY <1>4, EmptiedType
  <2>2. slots' \in [1..Len(slots) -> Slots]
    BY <1>2, <1>4, <2>1
  <2>3. slots' \in Seq(Slots) /\ Len(slots') = Len(slots)
    BY <2>2, <1>4
  <2> QED BY <1>2, <2>3 DEF SlotsEmptied
<1>7. ReuseCounted(gone)
  <2>2. reuse' \in [1..Len(slots) -> Nat]
    BY <1>2, <1>4
  <2>3. reuse' \in Seq(Nat) /\ Len(reuse') = Len(slots)
    BY <2>2, <1>4
  <2> QED BY <1>2, <1>4, <2>3 DEF ReuseCounted
<1>8. FreePushed(gone)
  <2> DEFINE c == Cardinality(kids)
             n0 == Len(free)
             r == Append(free, i)
  <2>1. /\ q \in [1..c -> kids]
        /\ \A m, n \in 1..c : m < n => q[m] < q[n]
        /\ \A k \in kids : \E n \in 1..c : q[n] = k
    BY <1>3 DEF Ascending
  <2>2. c \in Nat
    <3>1. IsFiniteSet(kids)
      <4>1. IsFiniteSet(1..Len(slots))
        BY <1>4, FS_Interval
      <4>2. kids \in SUBSET (1..Len(slots))
        BY <1>4, <1>5
      <4> QED BY <4>1, <4>2, FS_Subset
    <3> QED BY <3>1, FS_CardinalityType
  <2> HIDE DEF c
  <2>3. /\ r \in Seq(Nat \ {0}) /\ Len(r) = n0 + 1
        /\ \A n \in 1..n0 : r[n] = free[n]
        /\ r[n0 + 1] = i
    <3>1. i \in Nat \ {0}
      BY <1>1, <1>4 DEF i
    <3> QED BY <3>1, <1>4
  <2>4. q \in Seq(Nat \ {0}) /\ Len(q) = c
    <3>1. \A k \in kids : k \in Nat \ {0}
      BY <1>4, <1>5
    <3>2. q \in [1..c -> Nat \ {0}]
      BY <2>1, <3>1
    <3> QED BY <2>2, <3>2
  <2> HIDE DEF r
  <2>5. /\ r \o q \in Seq(Nat \ {0}) /\ Len(r \o q) = n0 + 1 + c
        /\ \A n \in 1..(n0 + 1 + c) :
             (r \o q)[n] = IF n <= n0 + 1 THEN r[n] ELSE q[n - (n0 + 1)]
    BY <2>3, <2>4, ConcatProperties
  <2>6. free' = r \o q
    BY <1>3 DEF r
  <2> HIDE DEF n0
  <2>7. n0 \in Nat /\ DOMAIN free = 1..n0
    BY <1>4 DEF n0
  <2>8. DOMAIN free' = 1..(n0 + 1 + c)
    BY <2>5, <2>6
  <2>9. \A n \in 1..n0 : free'[n] = free[n]
    BY <2>2, <2>3, <2>5, <2>6, <2>7
  <2>10. free'[n0 + 1] = i
    BY <2>2, <2>3, <2>5, <2>6, <2>7
  <2>11. \A n \in 1..c : free'[n0 + 1 + n] = q[n]
    <3> SUFFICES ASSUME NEW n \in 1..c
                 PROVE  free'[n0 + 1 + n] = q[n]
      OBVIOUS
    <3> DEFINE m == n0 + 1 + n
    <3>1. m \in 1..(n0 + 1 + c) /\ ~(m <= n0 + 1) /\ m - (n0 + 1) = n
      BY <2>2, <2>7
    <3> HIDE DEF m
    <3>2. free'[m] = q[m - (n0 + 1)]
      BY <3>1, <2>5, <2>6
    <3> QED BY <3>1, <3>2 DEF m
  <2>12. \A n \in DOMAIN free' \ DOMAIN free :
           n = n0 + 1 \/ \E k \in 1..c : n = n0 + 1 + k
    <3> SUFFICES ASSUME NEW n \in DOMAIN free' \ DOMAIN free, n # n0 + 1
                 PROVE  \E k \in 1..c : n = n0 + 1 + k
      OBVIOUS
    <3>1. n - (n0 + 1) \in 1..c /\ n = n0 + 1 + (n - (n0 + 1))
      BY <2>2, <2>7, <2>8
    <3> QED BY <3>1
  <2>13. \A n \in DOMAIN free' \ DOMAIN free : free'[n] \in gone
    BY <2>1, <2>10, <2>11, <2>12
  <2>14. \A m, n \in 1..c : q[m] = q[n] => m = n
    <3> SUFFICES ASSUME NEW m \in 1..c, NEW n \in 1..c, q[m] = q[n], m # n PROVE FALSE
      OBVIOUS
    <3>1. q[m] \in Nat /\ q[n] \in Nat
      BY <2>4, <2>2
    <3>2. m < n \/ n < m
      BY <2>2
    <3> QED BY <2>1, <3>1, <3>2
  <2>15. ASSUME NEW m \in DOMAIN free' \ DOMAIN free, NEW n \in DOMAIN free' \ DOMAIN free,
                free'[m] = free'[n]
         PROVE  m = n
    <3>1. \A k \in 1..c : free'[n0 + 1 + k] # i
      BY <2>1, <2>11, <1>5
    <3>2. CASE m = n0 + 1
      BY <3>1, <3>2, <2>10, <2>12, <2>15
    <3>3. CASE n = n0 + 1
      BY <3>1, <3>3, <2>10, <2>12, <2>15
    <3>4. CASE m # n0 + 1 /\ n # n0 + 1
      <4>1. PICK k \in 1..c : m = n0 + 1 + k
        BY <3>4, <2>12
      <4>2. PICK l \in 1..c : n = n0 + 1 + l
        BY <3>4, <2>12
      <4>3. q[k] = q[l]
        BY <4>1, <4>2, <2>11, <2>15
      <4> QED BY <4>1, <4>2, <4>3, <2>14
    <3> QED BY <3>2, <3>3, <3>4
  <2>16. ASSUME NEW k \in gone
         PROVE  \E n \in DOMAIN free' \ DOMAIN free : free'[n] = k
    <3>1. CASE k = i
      <4>1. n0 + 1 \in DOMAIN free' \ DOMAIN free
        BY <2>2, <2>7, <2>8
      <4> QED BY <4>1, <3>1, <2>10
    <3>2. CASE k \in kids
      <4>1. PICK n \in 1..c : q[n] = k
        BY <3>2, <2>1
      <4>2. n0 + 1 + n \in DOMAIN free' \ DOMAIN free
        BY <2>2, <2>7, <2>8
      <4> QED BY <4>1, <4>2, <2>11
    <3> QED BY <2>16, <3>1, <3>2
  <2>17. DOMAIN free \subseteq DOMAIN free'
    BY <2>2, <2>7, <2>8
  <2> QED BY <2>5, <2>6, <2>7, <2>9, <2>13, <2>15, <2>16, <2>17 DEF FreePushed
<1>9. NoDangling(gone)
  <2> SUFFICES ASSUME NEW j \in DOMAIN slots, j \notin gone, slots[j].owner # Zero,
                      slots[j].owner.index \in gone
               PROVE  FALSE
    BY DEF NoDangling
  <2>1. Valid(slots[j].owner, "runtime")
    BY DEF OwnerLive
  <2>2. CASE slots[j].owner.index = i
    <3>1. slots[j].owner = h
      <4>1. slots[j] \in Slots
        BY <1>4
      <4> DEFINE g == slots[j].owner
      <4>2. g \in Handles /\ g # Zero /\ h # Zero
        BY <4>1, <1>1 DEF Slots
      <4>3. g.kind = h.kind /\ g.gen = h.gen /\ g.index = h.index
        BY <2>1, <2>2 DEF Valid, i
      <4> HIDE DEF g
      <4>4. g = h
        BY <4>2, <4>3 DEF Handles
      <4> QED BY <4>4 DEF g
    <3> QED BY <3>1, <1>5 DEF kids, ChildSlots, i
  <2>3. CASE slots[j].owner.index \in kids
    BY <2>1, <2>3, <1>5 DEF Valid, ChildKinds
  <2> QED BY <2>2, <2>3
<1>10. gone \subseteq DOMAIN slots /\ \A k \in gone : slots[k].entry # NoEntry
  BY <1>1, <1>5 DEF i
<1> QED BY <1>2, <1>6, <1>7, <1>8, <1>9, <1>10, TakeTable

-----------------------------------------------------------------------------
\* Every handle the JVM knows is a handle.
LEMMA KnownHandles ==
  ASSUME TableInv
  PROVE  Known \subseteq Handles
BY TableTypes DEF Known, TableInv, Handles

\* What each step does to the table: nothing, an insertion whose owner (if
\* any) is a live runtime, or a removal.
LEMMA TableStep ==
  ASSUME TypeOK, BuildsKnownKind, TableInv, [Next]_vars
  PROVE  TableInv'
<1>0. ASSUME UNCHANGED <<slots, free, issued, reuse>>
      PROVE  TableInv'
  BY <1>0 DEF TableInv, TableTypeOK, FreeListExact, LiveResolves, GenerationsCount,
              OwnedIsChild, OwnerLive, Valid
<1>1. CASE UNCHANGED vars
  BY <1>0, <1>1 DEF vars
<1> SUFFICES ASSUME NEW t \in Threads,
                    \/ RuntimeNew(t)
                    \/ \E h \in Known, k \in Created \cup {"none"}, g \in Known :
                          Resolve(t, h, k, g)
                    \/ RequireOwner(t)
                    \/ ResolveTarget(t)
                    \/ Return(t)
                    \/ Insert(t)
                    \/ \E h \in Known, k \in Kinds : FreeOfKind(t, h, k)
                    \/ \E h \in Known : RuntimeFree(t, h)
                    \/ \E o \in Objects : Close(t, o)
                    \/ FinishFree(t)
             PROVE  TableInv'
  BY <1>1 DEF Next
<1>2. CASE RuntimeNew(t)
  BY <1>2, InsertTable DEF RuntimeNew, Kinds, Handles
<1>3. CASE \E h \in Known, k \in Created \cup {"none"}, g \in Known : Resolve(t, h, k, g)
  BY <1>0, <1>3 DEF Resolve
<1>4. CASE RequireOwner(t) \/ ResolveTarget(t) \/ Return(t) \/ FinishFree(t)
  BY <1>0, <1>4 DEF RequireOwner, ResolveTarget, Return, FinishFree
<1>5. CASE Insert(t)
  <2> DEFINE c == calls[t]
  <2>1. c \in Calls /\ c.robj \in Nat /\ c.runtime \in Handles /\ c.kind \in Kinds \cup {"none"}
    BY DEF TypeOK, Calls
  <2>2. CASE InsertInto("poller", Zero, c.robj)
    BY <2>1, <2>2, InsertTable DEF Kinds, Handles
  <2>3. CASE /\ c.kind # "poller"
             /\ Valid(c.runtime, "runtime")
             /\ InsertInto(c.kind, c.runtime, c.robj)
    <3>1. c.kind \in ChildKinds
      BY <1>5, <2>3 DEF Insert, BuildsKnownKind
    <3> QED BY <2>1, <2>3, <3>1, InsertTable DEF Kinds
  <2>4. CASE UNCHANGED <<slots, free, issued, reuse>>
    BY <2>4, <1>0
  <2> QED BY <1>5, <2>2, <2>3, <2>4 DEF Insert
<1>6. CASE \E h \in Known, k \in Kinds : FreeOfKind(t, h, k)
  BY <1>6, TakeOneTable DEF FreeOfKind
<1>7. CASE \E h \in Known : RuntimeFree(t, h)
  BY <1>7, KnownHandles, TakeRuntimeTable DEF RuntimeFree
<1>8. CASE \E o \in Objects : Close(t, o)
  BY <1>0, <1>8 DEF Close
<1> QED BY <1>2, <1>3, <1>4, <1>5, <1>6, <1>7, <1>8

\* The calls in progress keep their types, and build only creatable kinds.
LEMMA CallsStep ==
  ASSUME TypeOK, BuildsKnownKind, TableInv, [Next]_vars
  PROVE  TypeOK' /\ BuildsKnownKind'
<1>0. TableTypeOK'
  BY TableStep DEF TableInv
<1>1. CASE UNCHANGED vars
  BY <1>0, <1>1 DEF vars, TypeOK, BuildsKnownKind
<1>2. ASSUME NEW t \in Threads, NEW c \in Calls, Goto(t, c), released' \subseteq Nat,
             c.op = "building" => c.kind \in ChildKinds \cup {"poller"}
      PROVE  TypeOK' /\ BuildsKnownKind'
  BY <1>0, <1>2 DEF Goto, TypeOK, BuildsKnownKind
<1>i. Idle \in Calls /\ Idle.op # "building"
  BY DEF Idle, Calls, Ops, Handles
<1>o. ASSUME NEW h \in Handles, NEW kind \in Kinds, Valid(h, kind)
      PROVE  Object(h) \in Nat \ {0}
  <2>1. slots[h.index] \in Slots /\ slots[h.index].entry # NoEntry
    BY <1>o, TableTypes DEF Valid, TableInv
  <2> QED BY <2>1 DEF Slots, Entries, Object
<1> SUFFICES ASSUME NEW t \in Threads,
                    \/ RuntimeNew(t)
                    \/ \E h \in Known, k \in Created \cup {"none"}, g \in Known :
                          Resolve(t, h, k, g)
                    \/ RequireOwner(t)
                    \/ ResolveTarget(t)
                    \/ Return(t)
                    \/ Insert(t)
                    \/ \E h \in Known, k \in Kinds : FreeOfKind(t, h, k)
                    \/ \E h \in Known : RuntimeFree(t, h)
                    \/ \E o \in Objects : Close(t, o)
                    \/ FinishFree(t)
             PROVE  TypeOK' /\ BuildsKnownKind'
  BY <1>1 DEF Next
<1>c. calls[t] \in Calls /\ released \subseteq Nat
  BY DEF TypeOK
<1>3. CASE RuntimeNew(t)
  BY <1>0, <1>3 DEF RuntimeNew, TypeOK, BuildsKnownKind
<1>4. ASSUME NEW h \in Known, NEW k \in Created \cup {"none"}, NEW g \in Known, Resolve(t, h, k, g)
      PROVE  TypeOK' /\ BuildsKnownKind'
  <2> DEFINE op == IF k \in {"worker", "none"} THEN "resolved" ELSE "building"
             tgt == IF k \in {"worker", "none"} THEN g ELSE Zero
             c == [Idle EXCEPT !.op = op, !.kind = k, !.runtime = h, !.robj = Object(h),
                               !.target = tgt]
  <2>1. h \in Handles /\ g \in Handles /\ tgt \in Handles
    BY KnownHandles DEF Handles
  <2>2. Object(h) \in Nat
    BY <1>4, <1>o, <2>1 DEF Resolve, Kinds
  <2>3. k \in Kinds \cup {"none"} /\ (op = "building" => k \in ChildKinds \cup {"poller"})
        /\ op \in Ops
    BY DEF Kinds, Ops
  <2>4. c \in Calls
    <3> HIDE DEF op, tgt
    <3> QED BY <1>i, <2>1, <2>2, <2>3 DEF Calls, Idle
  <2>5. Goto(t, c) /\ released' = released
    BY <1>4 DEF Resolve
  <2>6. c.op = op /\ c.kind = k
    BY DEF Idle
  <2> HIDE DEF c, op
  <2> QED BY <1>2, <1>c, <2>3, <2>4, <2>5, <2>6
<1>5. CASE RequireOwner(t)
  <2> DEFINE c == [calls[t] EXCEPT !.op = "owned"]
  <2>1. c \in Calls /\ c.op # "building"
    BY <1>c DEF Calls, Ops
  <2>2. (Goto(t, c) \/ Goto(t, Idle)) /\ released' = released
    BY <1>5 DEF RequireOwner
  <2> HIDE DEF c
  <2>3. CASE Goto(t, c)
    BY <1>2, <1>c, <2>1, <2>2, <2>3
  <2>4. CASE Goto(t, Idle)
    BY <1>2, <1>c, <1>i, <2>2, <2>4
  <2> QED BY <2>2, <2>3, <2>4
<1>6. CASE ResolveTarget(t)
  <2> DEFINE h == calls[t].target
             wanted == IF calls[t].kind = "worker" THEN "client" ELSE h.kind
             op == IF calls[t].kind = "worker" THEN "building" ELSE "calling"
             c == [calls[t] EXCEPT !.op = op, !.tobj = Object(h)]
  <2>1. CASE Valid(h, wanted)
    <3>1. h \in Handles
      BY <1>c DEF Calls
    <3>2. Object(h) \in Nat
      <4>1. h \in Handles \ {Zero} /\ wanted = h.kind
        BY <2>1, <3>1 DEF Valid
      <4>2. wanted \in Kinds
        BY <4>1 DEF Handles
      <4> QED BY <1>o, <2>1, <3>1, <4>2
    <3>3. c \in Calls
      BY <1>c, <3>2 DEF Calls, Ops
    <3>4. c.op = "building" => c.kind \in ChildKinds
      BY <1>c DEF Calls, ChildKinds
    <3>5. Goto(t, c) /\ released' = released
      BY <1>6, <2>1 DEF ResolveTarget
    <3> HIDE DEF c
    <3> QED BY <1>2, <1>c, <3>3, <3>4, <3>5
  <2>2. CASE ~Valid(h, wanted)
    BY <1>2, <1>6, <1>i, <1>c, <2>2 DEF ResolveTarget
  <2> QED BY <2>1, <2>2
<1>7. CASE Return(t) \/ Insert(t)
  BY <1>2, <1>7, <1>i, <1>c DEF Return, Insert
<1>8. ASSUME NEW h \in Known, NEW k \in Kinds, FreeOfKind(t, h, k)
      PROVE  TypeOK' /\ BuildsKnownKind'
  <2> DEFINE c == [Idle EXCEPT !.op = "closing", !.todo = {Object(h)}]
  <2>1. Object(h) \in Nat \ {0}
    BY <1>8, <1>o, KnownHandles DEF FreeOfKind
  <2>2. c \in Calls /\ c.op # "building"
    BY <2>1, <1>i DEF Calls, Ops, Idle
  <2> QED BY <1>2, <1>8, <1>c, <2>2 DEF FreeOfKind
<1>9. ASSUME NEW h \in Known, RuntimeFree(t, h)
      PROVE  TypeOK' /\ BuildsKnownKind'
  <2> DEFINE todo == { slots[i].entry.obj : i \in ChildSlots(h) }
             c == [Idle EXCEPT !.op = "freeing", !.robj = Object(h), !.todo = todo]
  <2>1. Object(h) \in Nat /\ Valid(h, "runtime")
    BY <1>9, <1>o, KnownHandles DEF RuntimeFree, Kinds
  <2>2. todo \subseteq Nat \ {0}
    <3> SUFFICES ASSUME NEW i \in ChildSlots(h)
                 PROVE  slots[i].entry.obj \in Nat \ {0}
      OBVIOUS
    <3>1. slots[i] \in Slots /\ slots[i].owner = h /\ h # Zero
      BY <2>1, TableTypes DEF ChildSlots, TableInv, Valid
    <3>2. slots[i].entry # NoEntry
      BY <3>1 DEF ChildSlots, TableInv, OwnedIsChild, ChildKinds, NoEntry
    <3> QED BY <3>1, <3>2 DEF Slots, Entries
  <2>3. c \in Calls /\ c.op # "building"
    BY <2>1, <2>2, <1>i DEF Calls, Ops, Idle
  <2> QED BY <1>2, <1>9, <1>c, <2>3 DEF RuntimeFree
<1>10. ASSUME NEW o \in Objects, Close(t, o)
       PROVE  TypeOK' /\ BuildsKnownKind'
  <2>1. [calls[t] EXCEPT !.todo = calls[t].todo \ {o}] \in Calls
    BY <1>c DEF Calls
  <2>2. calls[t].op # "building" /\ released' \subseteq Nat
    BY <1>10, <1>c DEF Close, Objects
  <2> QED BY <1>2, <1>10, <1>c, <2>1, <2>2 DEF Close, Calls
<1>11. CASE FinishFree(t)
  <2>1. released' \subseteq Nat
    BY <1>11, <1>c DEF FinishFree, Calls
  <2> QED BY <1>2, <1>11, <1>i, <2>1 DEF FinishFree
<1> QED BY <1>3, <1>4, <1>5, <1>6, <1>7, <1>8, <1>9, <1>10, <1>11

-----------------------------------------------------------------------------
\* A step that removes nothing, and inserts at most a fresh object.
LEMMA NoRemoval ==
  ASSUME RemoverInv, TableInv, TableInv',
         DOMAIN issued \subseteq DOMAIN issued',
         released' = released,
         \A u \in Threads : Held(u)' \subseteq Held(u),
         \A u \in Threads : calls'[u].op = "freeing" => calls'[u] = calls[u],
         \A i \in DOMAIN slots' : slots'[i].entry # NoEntry =>
            \/ i \in DOMAIN slots /\ slots'[i].entry = slots[i].entry
            \/ slots'[i].entry.obj \notin DOMAIN issued
  PROVE  RemoverInv'
<1>1. SingleRemover'
  <2> SUFFICES ASSUME NEW t \in Threads
               PROVE  /\ Held(t)' \cap released' = {}
                      /\ \A o \in Held(t)' : \A i \in DOMAIN slots' :
                           slots'[i].entry # NoEntry => slots'[i].entry.obj # o
                      /\ \A u \in Threads : u # t => Held(t)' \cap Held(u)' = {}
    BY DEF SingleRemover
  <2>1. Held(t) \cap released = {} /\ Held(t) \subseteq DOMAIN issued
    BY DEF RemoverInv, SingleRemover, ObjectsAccounted
  <2>2. ASSUME NEW o \in Held(t)', NEW i \in DOMAIN slots', slots'[i].entry # NoEntry
        PROVE  slots'[i].entry.obj # o
    <3>1. o \in Held(t) /\ o \in DOMAIN issued
      BY <2>1
    <3> QED BY <2>2, <3>1 DEF RemoverInv, SingleRemover
  <2>3. ASSUME NEW u \in Threads, u # t
        PROVE  Held(t)' \cap Held(u)' = {}
    <3>1. Held(t) \cap Held(u) = {}
      BY <2>3 DEF RemoverInv, SingleRemover
    <3> QED BY <3>1
  <2> QED BY <2>1, <2>2, <2>3
<1>2. ObjectsAccounted'
  <2>1. released' \subseteq DOMAIN issued' /\ released \subseteq DOMAIN issued
    BY DEF RemoverInv, ObjectsAccounted
  <2>2. \A t \in Threads : Held(t)' \subseteq DOMAIN issued'
    BY DEF RemoverInv, ObjectsAccounted
  <2>3. \A t \in Threads : calls'[t].op = "freeing" => calls'[t].robj \notin calls'[t].todo
    BY DEF RemoverInv, ObjectsAccounted
  <2>4. \A i \in DOMAIN slots' : slots'[i].entry # NoEntry => slots'[i].entry.obj \notin released'
    BY <2>1 DEF RemoverInv, ObjectsAccounted
  <2> QED BY <2>1, <2>2, <2>3, <2>4 DEF ObjectsAccounted
<1> QED BY <1>1, <1>2 DEF RemoverInv

\* A removal hands a set of live objects, no longer in the table, to one thread.
LEMMA Removal ==
  ASSUME RemoverInv, TableInv, NEW t \in Threads, NEW taken,
         taken \subseteq { slots[i].entry.obj : i \in { j \in DOMAIN slots : slots[j].entry # NoEntry } },
         taken \subseteq DOMAIN issued, issued' = issued, released' = released,
         Held(t)' = taken,
         calls'[t].op = "freeing" => calls'[t].robj \notin calls'[t].todo,
         \A u \in Threads : u # t => calls'[u] = calls[u],
         \A i \in DOMAIN slots' : slots'[i].entry # NoEntry =>
            /\ i \in DOMAIN slots /\ slots'[i].entry = slots[i].entry
            /\ slots'[i].entry.obj \notin taken
  PROVE  RemoverInv'
<1>0. \A u \in Threads : u # t => Held(u)' = Held(u)
  BY DEF Held
<1>1. /\ taken \cap released = {}
      /\ \A u \in Threads : taken \cap Held(u) = {}
  <2>1. \A o \in taken : \E i \in DOMAIN slots : slots[i].entry # NoEntry /\ slots[i].entry.obj = o
    OBVIOUS
  <2> QED BY <2>1 DEF RemoverInv, SingleRemover, ObjectsAccounted
<1>2. SingleRemover'
  <2> SUFFICES ASSUME NEW u \in Threads
               PROVE  /\ Held(u)' \cap released' = {}
                      /\ \A o \in Held(u)' : \A i \in DOMAIN slots' :
                           slots'[i].entry # NoEntry => slots'[i].entry.obj # o
                      /\ \A v \in Threads : v # u => Held(u)' \cap Held(v)' = {}
    BY DEF SingleRemover
  <2>1. CASE u = t
    BY <1>0, <1>1, <2>1
  <2>2. CASE u # t
    <3>1. /\ Held(u) \cap released = {}
          /\ \A o \in Held(u) : \A i \in DOMAIN slots :
               slots[i].entry # NoEntry => slots[i].entry.obj # o
          /\ \A v \in Threads : v # u => Held(u) \cap Held(v) = {}
      BY DEF RemoverInv, SingleRemover
    <3> QED BY <1>0, <1>1, <2>2, <3>1
  <2> QED BY <2>1, <2>2
<1>3. ObjectsAccounted'
  <2>1. \A u \in Threads : Held(u)' \subseteq DOMAIN issued'
    BY <1>0 DEF RemoverInv, ObjectsAccounted
  <2>2. \A u \in Threads : calls'[u].op = "freeing" => calls'[u].robj \notin calls'[u].todo
    BY DEF RemoverInv, ObjectsAccounted
  <2> QED BY <2>1, <2>2 DEF RemoverInv, ObjectsAccounted
<1> QED BY <1>2, <1>3 DEF RemoverInv

\* A release moves objects from the hands of one thread to the released.
LEMMA Release ==
  ASSUME RemoverInv, NEW t \in Threads, NEW done, done \subseteq Held(t),
         UNCHANGED <<slots, issued>>, released' = released \cup done,
         Held(t)' = Held(t) \ done,
         calls'[t].op = "freeing" => calls'[t].robj \notin calls'[t].todo,
         \A u \in Threads : u # t => calls'[u] = calls[u]
  PROVE  RemoverInv'
<1>0. \A u \in Threads : u # t => Held(u)' = Held(u)
  BY DEF Held
<1>1. \A u \in Threads : Held(u)' \subseteq Held(u)
  BY <1>0
<1>2. SingleRemover'
  <2> SUFFICES ASSUME NEW u \in Threads
               PROVE  /\ Held(u)' \cap (released \cup done) = {}
                      /\ \A o \in Held(u)' : \A i \in DOMAIN slots :
                           slots[i].entry # NoEntry => slots[i].entry.obj # o
                      /\ \A v \in Threads : v # u => Held(u)' \cap Held(v)' = {}
    BY DEF SingleRemover
  <2>1. /\ Held(u) \cap released = {}
        /\ \A o \in Held(u) : \A i \in DOMAIN slots :
             slots[i].entry # NoEntry => slots[i].entry.obj # o
        /\ \A v \in Threads : v # u => Held(u) \cap Held(v) = {}
    BY DEF RemoverInv, SingleRemover
  <2>2. Held(u)' \cap done = {}
    BY <1>0, <2>1
  <2> QED BY <1>1, <2>1, <2>2
<1>3. ObjectsAccounted'
  <2>1. \A u \in Threads : Held(u)' \subseteq DOMAIN issued'
    BY <1>1 DEF RemoverInv, ObjectsAccounted
  <2>2. \A u \in Threads : calls'[u].op = "freeing" => calls'[u].robj \notin calls'[u].todo
    BY DEF RemoverInv, ObjectsAccounted
  <2>3. released' \subseteq DOMAIN issued'
    BY DEF RemoverInv, ObjectsAccounted
  <2>4. \A i \in DOMAIN slots : slots[i].entry # NoEntry => slots[i].entry.obj \notin released \cup done
    BY DEF RemoverInv, ObjectsAccounted, SingleRemover
  <2> QED BY <2>1, <2>2, <2>3, <2>4 DEF ObjectsAccounted
<1> QED BY <1>2, <1>3 DEF RemoverInv

\* Two live slots never hold the same object, and a live object was issued.
LEMMA LiveDistinct ==
  ASSUME TableInv
  PROVE  /\ \A m \in DOMAIN slots : slots[m].entry # NoEntry => slots[m].entry.obj \in DOMAIN issued
         /\ \A m, n \in DOMAIN slots :
              slots[m].entry # NoEntry /\ slots[n].entry # NoEntry
                 /\ slots[m].entry.obj = slots[n].entry.obj => m = n
<1>1. ASSUME NEW m \in DOMAIN slots, slots[m].entry # NoEntry
      PROVE  slots[m].entry.obj \in DOMAIN issued /\ issued[slots[m].entry.obj].handle.index = m
  <2>1. /\ slots[m].entry.obj \in DOMAIN issued
        /\ issued[slots[m].entry.obj].handle =
             [kind |-> slots[m].entry.kind, gen |-> slots[m].generation, index |-> m]
    BY <1>1 DEF TableInv, LiveResolves
  <2> QED BY <2>1
<1> QED BY <1>1

\* Every step keeps each removed object in the hands of one thread: lookups and
\* inserts leave the removers alone, a free takes live objects over from the
\* table, and closing moves them to the released ones.
LEMMA RemoverStep ==
  ASSUME TypeOK, BuildsKnownKind, TableInv, RemoverInv, [Next]_vars
  PROVE  RemoverInv'
<1>t. TableInv' /\ TypeOK'
  BY TableStep, CallsStep
<1>1. CASE UNCHANGED vars
  BY <1>1 DEF vars, RemoverInv, SingleRemover, ObjectsAccounted, Held
<1> SUFFICES ASSUME NEW t \in Threads,
                    \/ RuntimeNew(t)
                    \/ \E h \in Known, k \in Created \cup {"none"}, g \in Known :
                          Resolve(t, h, k, g)
                    \/ RequireOwner(t)
                    \/ ResolveTarget(t)
                    \/ Return(t)
                    \/ Insert(t)
                    \/ \E h \in Known, k \in Kinds : FreeOfKind(t, h, k)
                    \/ \E h \in Known : RuntimeFree(t, h)
                    \/ \E o \in Objects : Close(t, o)
                    \/ FinishFree(t)
             PROVE  RemoverInv'
  BY <1>1 DEF Next
<1>c. calls \in [Threads -> Calls] /\ calls[t] \in Calls
  BY DEF TypeOK
<1>d. ASSUME NEW kind, NEW owner, NEW maker, InsertInto(kind, owner, maker)
      PROVE  /\ DOMAIN issued \subseteq DOMAIN issued'
             /\ \A i \in DOMAIN slots' : slots'[i].entry # NoEntry =>
                  \/ i \in DOMAIN slots /\ slots'[i].entry = slots[i].entry
                  \/ slots'[i].entry.obj \notin DOMAIN issued
  <2>1. DOMAIN issued = 1..Len(issued) /\ Len(issued) \in Nat
        /\ DOMAIN slots = 1..Len(slots) /\ Len(slots) \in Nat
    BY TableTypes DEF TableInv
  <2> DEFINE o == Len(issued) + 1
             entry == [kind |-> kind, obj |-> o]
  <2>2. entry.obj \notin DOMAIN issued
    BY <2>1
  <2> HIDE DEF entry
  <2>3. PICK r : issued' = Append(issued, r)
    BY <1>d DEF InsertInto
  <2>4. DOMAIN issued \subseteq DOMAIN issued'
    BY <1>t, <2>1, <2>3, TableTypes DEF TableInv, TableTypeOK
  <2>5. CASE free # <<>>
    <3>1. PICK i, g : slots' = [slots EXCEPT ![i] =
                                  [generation |-> g, owner |-> owner, entry |-> entry]]
      BY <1>d, <2>5 DEF InsertInto, entry
    <3>2. ASSUME NEW j \in DOMAIN slots', slots'[j].entry # NoEntry
          PROVE  \/ j \in DOMAIN slots /\ slots'[j].entry = slots[j].entry
                 \/ slots'[j].entry.obj \notin DOMAIN issued
      <4>1. CASE j = i
        BY <3>1, <4>1, <2>2
      <4>2. CASE j # i
        BY <3>1, <4>2
      <4> QED BY <4>1, <4>2
    <3> QED BY <2>4, <3>2
  <2>6. CASE free = <<>>
    <3>1. slots' = Append(slots, [generation |-> 1, owner |-> owner, entry |-> entry])
      BY <1>d, <2>6 DEF InsertInto, entry
    <3>2. ASSUME NEW j \in DOMAIN slots', slots'[j].entry # NoEntry
          PROVE  \/ j \in DOMAIN slots /\ slots'[j].entry = slots[j].entry
                 \/ slots'[j].entry.obj \notin DOMAIN issued
      <4>1. CASE j = Len(slots) + 1
        BY <3>1, <4>1, <2>1, <2>2 DEF TableInv, TableTypeOK
      <4>2. CASE j # Len(slots) + 1
        BY <3>1, <4>2, <2>1 DEF TableInv, TableTypeOK
      <4> QED BY <4>1, <4>2
    <3> QED BY <2>4, <3>2
  <2> QED BY <2>5, <2>6
<1>n. ASSUME NEW c, Goto(t, c), c.todo \subseteq calls[t].todo, c.op # "freeing"
      PROVE  /\ \A u \in Threads : Held(u)' \subseteq Held(u)
             /\ \A u \in Threads : calls'[u].op = "freeing" => calls'[u] = calls[u]
  BY <1>n, <1>c DEF Goto, Held
<1>i. Idle.todo = {} /\ Idle.op = "idle"
  BY DEF Idle
<1>2. CASE RuntimeNew(t)
  <2>1. calls' = calls /\ released' = released
    BY <1>2 DEF RuntimeNew
  <2>2. \A u \in Threads : Held(u)' \subseteq Held(u)
    BY <2>1 DEF Held
  <2> QED BY <1>2, <1>d, <1>t, <2>1, <2>2, NoRemoval DEF RuntimeNew
<1>3. ASSUME NEW h \in Known, NEW k \in Created \cup {"none"}, NEW g \in Known, Resolve(t, h, k, g)
      PROVE  RemoverInv'
  <2> DEFINE op == IF k \in {"worker", "none"} THEN "resolved" ELSE "building"
             tgt == IF k \in {"worker", "none"} THEN g ELSE Zero
             c == [Idle EXCEPT !.op = op, !.kind = k, !.runtime = h, !.robj = Object(h),
                               !.target = tgt]
  <2>1. Goto(t, c)
    BY <1>3 DEF Resolve
  <2>2. c.todo = {} /\ c.op # "freeing"
    BY DEF Idle
  <2> HIDE DEF c
  <2> QED BY <1>3, <1>n, <1>t, <2>1, <2>2, NoRemoval DEF Resolve
<1>4. CASE RequireOwner(t) \/ ResolveTarget(t) \/ Return(t)
  <2> DEFINE b == [calls[t] EXCEPT !.op = "owned"]
             op == IF calls[t].kind = "worker" THEN "building" ELSE "calling"
             c == [calls[t] EXCEPT !.op = op, !.tobj = Object(calls[t].target)]
  <2>1. Goto(t, b) \/ Goto(t, c) \/ Goto(t, Idle)
    BY <1>4 DEF RequireOwner, ResolveTarget, Return
  <2>2. /\ b.todo = calls[t].todo /\ b.op # "freeing"
        /\ c.todo = calls[t].todo /\ c.op # "freeing"
    BY <1>c DEF Calls
  <2> HIDE DEF b, c
  <2>3. /\ \A u \in Threads : Held(u)' \subseteq Held(u)
        /\ \A u \in Threads : calls'[u].op = "freeing" => calls'[u] = calls[u]
    BY <1>i, <1>n, <2>1, <2>2
  <2> QED BY <1>4, <1>t, <2>3, NoRemoval DEF RequireOwner, ResolveTarget, Return
<1>5. CASE Insert(t)
  <2>1. Goto(t, Idle) /\ released' = released
    BY <1>5 DEF Insert
  <2>2. /\ \A u \in Threads : Held(u)' \subseteq Held(u)
        /\ \A u \in Threads : calls'[u].op = "freeing" => calls'[u] = calls[u]
    BY <1>n, <1>i, <2>1
  <2>3. \/ \E kind, owner, maker : InsertInto(kind, owner, maker)
        \/ UNCHANGED <<slots, free, issued, reuse>>
    BY <1>5 DEF Insert
  <2>4. /\ DOMAIN issued \subseteq DOMAIN issued'
        /\ \A i \in DOMAIN slots' : slots'[i].entry # NoEntry =>
              \/ i \in DOMAIN slots /\ slots'[i].entry = slots[i].entry
              \/ slots'[i].entry.obj \notin DOMAIN issued
    BY <1>d, <2>3
  <2> QED BY <1>t, <2>1, <2>2, <2>4, NoRemoval
<1>6. ASSUME NEW h \in Known, NEW k \in Kinds, FreeOfKind(t, h, k)
      PROVE  RemoverInv'
  <2> DEFINE i == h.index
             taken == {Object(h)}
             c == [Idle EXCEPT !.op = "closing", !.todo = taken]
  <2>1. /\ i \in DOMAIN slots /\ slots[i].entry # NoEntry /\ Object(h) = slots[i].entry.obj
        /\ slots' = [slots EXCEPT ![i] = Emptied(slots[i])]
        /\ issued' = issued /\ released' = released /\ Goto(t, c)
    BY <1>6 DEF FreeOfKind, Valid, TakeOne, Object
  <2>2. c.op = "closing" /\ c.todo = taken
    BY DEF Idle
  <2> HIDE DEF c
  <2>3. /\ Held(t)' = taken /\ calls'[t].op # "freeing"
        /\ \A u \in Threads : u # t => calls'[u] = calls[u]
    BY <2>1, <2>2, <1>c DEF Held, Goto
  <2>4. taken \subseteq DOMAIN issued
    BY <2>1, LiveDistinct
  <2>5. ASSUME NEW j \in DOMAIN slots', slots'[j].entry # NoEntry
        PROVE  /\ j \in DOMAIN slots /\ slots'[j].entry = slots[j].entry
               /\ slots'[j].entry.obj \notin taken
    <3>1. j \in DOMAIN slots /\ j # i /\ slots'[j] = slots[j]
      <4>1. Emptied(slots[i]).entry = NoEntry
        BY DEF Emptied
      <4> QED BY <2>1, <2>5, <4>1
    <3>2. slots[j].entry.obj # slots[i].entry.obj
      BY <2>1, <2>5, <3>1, LiveDistinct
    <3> QED BY <2>1, <3>1, <3>2
  <2>6. taken \subseteq { slots[m].entry.obj : m \in { j \in DOMAIN slots : slots[j].entry # NoEntry } }
    BY <2>1
  <2> HIDE DEF taken
  <2> QED BY <2>1, <2>3, <2>4, <2>5, <2>6, Removal
<1>7. ASSUME NEW h \in Known, RuntimeFree(t, h)
      PROVE  RemoverInv'
  <2> DEFINE i == h.index
             kids == ChildSlots(h)
             gone == kids \cup {i}
             todo == { slots[m].entry.obj : m \in kids }
             taken == { slots[m].entry.obj : m \in gone }
             c == [Idle EXCEPT !.op = "freeing", !.robj = Object(h), !.todo = todo]
  <2>1. /\ i \in DOMAIN slots /\ slots[i].entry # NoEntry /\ Object(h) = slots[i].entry.obj
        /\ slots' = [m \in DOMAIN slots |-> IF m \in gone THEN Emptied(slots[m]) ELSE slots[m]]
        /\ issued' = issued /\ released' = released /\ Goto(t, c) /\ h # Zero
    BY <1>7 DEF RuntimeFree, Valid, TakeRuntime, Object
  <2>2. c.op = "freeing" /\ c.todo = todo /\ c.robj = slots[i].entry.obj
    BY <2>1 DEF Idle
  <2>3. /\ gone \subseteq DOMAIN slots /\ i \notin kids
        /\ \A m \in gone : slots[m].entry # NoEntry
    <3>1. \A m \in kids : m \in DOMAIN slots /\ slots[m].owner = h /\ m # i
      BY DEF ChildSlots
    <3>2. \A m \in kids : slots[m].entry.kind \in ChildKinds
      BY <2>1, <3>1 DEF TableInv, OwnedIsChild
    <3> QED BY <2>1, <3>1, <3>2 DEF ChildKinds, NoEntry
  <2>4. \A m, n \in DOMAIN slots :
          slots[m].entry # NoEntry /\ slots[n].entry # NoEntry
             /\ slots[m].entry.obj = slots[n].entry.obj => m = n
    BY LiveDistinct
  <2> HIDE DEF c, kids
  <2>5. /\ calls'[t] = c
        /\ \A u \in Threads : u # t => calls'[u] = calls[u]
    BY <2>1, <1>c DEF Goto
  <2>6. Held(t)' = todo \cup {slots[i].entry.obj}
    BY <2>2, <2>5 DEF Held
  <2>7. todo \cup {slots[i].entry.obj} = taken
    OBVIOUS
  <2>8. calls'[t].robj \notin calls'[t].todo
    BY <2>1, <2>2, <2>3, <2>4, <2>5
  <2>9. taken \subseteq DOMAIN issued
    BY <2>3, LiveDistinct
  <2>10. ASSUME NEW j \in DOMAIN slots', slots'[j].entry # NoEntry
         PROVE  /\ j \in DOMAIN slots /\ slots'[j].entry = slots[j].entry
                /\ slots'[j].entry.obj \notin taken
    <3>1. \A m \in DOMAIN slots : Emptied(slots[m]).entry = NoEntry
      BY DEF Emptied
    <3>2. j \in DOMAIN slots /\ j \notin gone /\ slots'[j] = slots[j]
      BY <2>1, <2>10, <3>1
    <3> QED BY <2>3, <2>4, <2>10, <3>2
  <2>11. taken \subseteq { slots[m].entry.obj : m \in { j \in DOMAIN slots : slots[j].entry # NoEntry } }
    BY <2>3
  <2> HIDE DEF taken
  <2> QED BY <2>1, <2>5, <2>6, <2>7, <2>8, <2>9, <2>10, <2>11, Removal
<1>8. ASSUME NEW o \in Objects, Close(t, o)
      PROVE  RemoverInv'
  <2> DEFINE c == [calls[t] EXCEPT !.todo = calls[t].todo \ {o}]
  <2>1. /\ o \in calls[t].todo /\ released' = released \cup {o} /\ Goto(t, c)
        /\ UNCHANGED <<slots, issued>>
    BY <1>8 DEF Close
  <2>2. c.op = calls[t].op /\ c.robj = calls[t].robj /\ c.todo = calls[t].todo \ {o}
    BY <1>c DEF Calls
  <2> HIDE DEF c
  <2>3. /\ calls'[t] = c
        /\ \A u \in Threads : u # t => calls'[u] = calls[u]
    BY <2>1, <1>c DEF Goto
  <2>4. calls[t].op = "freeing" => calls[t].robj \notin calls[t].todo
    BY DEF RemoverInv, ObjectsAccounted
  <2>5. Held(t)' = Held(t) \ {o} /\ o \in Held(t)
    BY <2>1, <2>2, <2>3, <2>4 DEF Held
  <2> QED BY <2>1, <2>2, <2>3, <2>4, <2>5, Release
<1>9. CASE FinishFree(t)
  <2> DEFINE done == Held(t)
  <2>1. /\ released' = released \cup done /\ Goto(t, Idle)
        /\ UNCHANGED <<slots, issued>>
    BY <1>9 DEF FinishFree, Held
  <2>2. /\ calls'[t] = Idle
        /\ \A u \in Threads : u # t => calls'[u] = calls[u]
    BY <2>1, <1>c DEF Goto
  <2>3. Held(t)' = {}
    BY <2>2, <1>i DEF Held
  <2> QED BY <1>i, <2>1, <2>2, <2>3, Release
<1> QED BY <1>2, <1>3, <1>4, <1>5, <1>6, <1>7, <1>8, <1>9

-----------------------------------------------------------------------------
(***************************************************************************)
(* The three lookups of a call, each in its own critical section.            *)
(***************************************************************************)

\* A slot issues one handle between two removals.
AgesDistinct ==
  \A o, p \in DOMAIN issued :
    issued[o].handle.index = issued[p].handle.index /\ issued[o].age = issued[p].age => o = p

\* Object o was made by a call on a runtime of handle h.
MadeBy(o, h) == issued[o].maker \in DOMAIN issued /\ issued[issued[o].maker].handle = h

MakerOwns ==
  \A i \in DOMAIN slots : slots[i].owner # Zero => MadeBy(slots[i].entry.obj, slots[i].owner)

\* What the lookups of call c have established, whatever has been freed since.
Looked(c) ==
  /\ c.op \in {"resolved", "owned", "building", "calling"} =>
       c.robj \in DOMAIN issued /\ issued[c.robj].handle = c.runtime
  /\ c.op = "owned" =>
       \E o \in DOMAIN issued : issued[o].handle = c.target /\ MadeBy(o, c.runtime)
  /\ c.tobj # 0 =>
       /\ c.op \in {"building", "calling"}
       /\ c.tobj \in DOMAIN issued
       /\ \E o \in DOMAIN issued :
            issued[o].handle = issued[c.tobj].handle /\ MadeBy(o, c.runtime)

LookupInv == \A t \in Threads : Looked(calls[t])
PairInv == AgesDistinct /\ MakerOwns /\ LookupInv

\* What was issued stays on record.
IssuedKept == DOMAIN issued \subseteq DOMAIN issued' /\ \A o \in DOMAIN issued : issued'[o] = issued[o]

LEMMA MadeByKept ==
  ASSUME IssuedKept, NEW o \in DOMAIN issued, NEW h, MadeBy(o, h)
  PROVE  MadeBy(o, h)'
BY DEF IssuedKept, MadeBy

LEMMA LookedKept ==
  ASSUME IssuedKept, NEW c, Looked(c)
  PROVE  Looked(c)'
<1>1. c.op \in {"resolved", "owned", "building", "calling"} =>
        c.robj \in DOMAIN issued' /\ issued'[c.robj].handle = c.runtime
  BY DEF IssuedKept, Looked
<1>2. ASSUME c.op = "owned"
      PROVE  \E o \in DOMAIN issued' : issued'[o].handle = c.target /\ MadeBy(o, c.runtime)'
  <2>1. PICK o \in DOMAIN issued : issued[o].handle = c.target /\ MadeBy(o, c.runtime)
    BY <1>2 DEF Looked
  <2> QED BY <2>1, MadeByKept DEF IssuedKept
<1>3. ASSUME c.tobj # 0
      PROVE  /\ c.op \in {"building", "calling"}
             /\ c.tobj \in DOMAIN issued'
             /\ \E o \in DOMAIN issued' :
                  issued'[o].handle = issued'[c.tobj].handle /\ MadeBy(o, c.runtime)'
  <2>1. c.op \in {"building", "calling"} /\ c.tobj \in DOMAIN issued
    BY <1>3 DEF Looked
  <2>2. PICK o \in DOMAIN issued :
          issued[o].handle = issued[c.tobj].handle /\ MadeBy(o, c.runtime)
    BY <1>3 DEF Looked
  <2> QED BY <2>1, <2>2, MadeByKept DEF IssuedKept
<1> QED BY <1>1, <1>2, <1>3 DEF Looked

\* insert_into appends a record of what it issued, fills one slot that was empty
\* or missing, and issues the slot's first handle since it was emptied.
LEMMA InsertEffect ==
  ASSUME TableInv, NEW kind, NEW owner, NEW maker, InsertInto(kind, owner, maker)
  PROVE  \E r, i :
           /\ issued' = Append(issued, r) /\ r.maker = maker /\ r.handle.index = i
           /\ \A o \in DOMAIN issued : issued[o].handle.index = i => issued[o].age # r.age
           /\ slots'[i].owner = owner /\ slots'[i].entry.obj = Len(issued) + 1
           /\ \A j \in DOMAIN slots' : j # i => j \in DOMAIN slots /\ slots'[j] = slots[j]
<1> DEFINE n == Len(issued) + 1
           full(g) == [generation |-> g, owner |-> owner, entry |-> [kind |-> kind, obj |-> n]]
           record(g, i, age) ==
             [handle |-> [kind |-> kind, gen |-> g, index |-> i], age |-> age, maker |-> maker]
<1>a. /\ DOMAIN issued = 1..Len(issued) /\ Len(issued) \in Nat
      /\ DOMAIN slots = 1..Len(slots) /\ Len(slots) \in Nat
      /\ \A i \in DOMAIN slots : reuse[i] \in Nat
      /\ \A o \in DOMAIN issued : issued[o].age \in Nat /\ issued[o].handle.index \in DOMAIN slots
  BY TableTypes DEF TableInv, GenerationsCount
<1>f. \A g, i, age : /\ full(g).owner = owner /\ full(g).entry.obj = n
                     /\ record(g, i, age).maker = maker /\ record(g, i, age).handle.index = i
                     /\ record(g, i, age).age = age
  OBVIOUS
<1>1. CASE free # <<>>
  <2>1. PICK i : i = free[Len(free)]
    OBVIOUS
  <2>2. PICK g, age : g = slots[i].generation /\ age = reuse[i]
    OBVIOUS
  <2>3. /\ slots' = [slots EXCEPT ![i] = full(g)]
        /\ issued' = Append(issued, record(g, i, age))
    BY <1>1, <2>1, <2>2 DEF InsertInto
  <2>4. i \in DOMAIN slots /\ slots[i].entry = NoEntry
    BY <1>1, <2>1 DEF TableInv, FreeListExact, TableTypeOK
  <2>5. ASSUME NEW o \in DOMAIN issued, issued[o].handle.index = i, issued[o].age = age PROVE FALSE
    <3>1. reuse[i] - issued[o].age = 0
      BY <1>a, <2>2, <2>4, <2>5
    <3>2. slots[i].entry.obj = o
      BY <2>5, <3>1 DEF TableInv, GenerationsCount
    <3> QED BY <1>a, <2>4, <3>2 DEF NoEntry
  <2> HIDE DEF full, record
  <2>6. /\ slots'[i] = full(g)
        /\ \A j \in DOMAIN slots' : j # i => j \in DOMAIN slots /\ slots'[j] = slots[j]
    BY <2>3, <2>4
  <2> QED BY <1>f, <2>3, <2>5, <2>6
<1>2. CASE free = <<>>
  <2>1. PICK i : i = Len(slots) + 1
    OBVIOUS
  <2>2. slots' = Append(slots, full(1)) /\ issued' = Append(issued, record(1, i, 0))
    BY <1>2, <2>1 DEF InsertInto
  <2>3. i \notin DOMAIN slots
    BY <1>a, <2>1
  <2> HIDE DEF full, record
  <2>4. /\ slots'[i] = full(1)
        /\ \A j \in DOMAIN slots' : j # i => j \in DOMAIN slots /\ slots'[j] = slots[j]
    BY <1>a, <2>1, <2>2 DEF TableInv, TableTypeOK
  <2> QED BY <1>a, <1>f, <2>2, <2>3, <2>4
<1> QED BY <1>1, <1>2

LEMMA InsertPairs ==
  ASSUME TableInv, AgesDistinct, MakerOwns, NEW kind, NEW owner, NEW maker,
         InsertInto(kind, owner, maker),
         owner # Zero => maker \in DOMAIN issued /\ issued[maker].handle = owner
  PROVE  IssuedKept /\ AgesDistinct' /\ MakerOwns'
<1>1. PICK r, i :
        /\ issued' = Append(issued, r) /\ r.maker = maker /\ r.handle.index = i
        /\ \A o \in DOMAIN issued : issued[o].handle.index = i => issued[o].age # r.age
        /\ slots'[i].owner = owner /\ slots'[i].entry.obj = Len(issued) + 1
        /\ \A j \in DOMAIN slots' : j # i => j \in DOMAIN slots /\ slots'[j] = slots[j]
  BY InsertEffect
<1>2. PICK n : n = Len(issued) + 1
  OBVIOUS
<1>3. /\ DOMAIN issued' = DOMAIN issued \cup {n} /\ n \notin DOMAIN issued /\ issued'[n] = r
      /\ \A o \in DOMAIN issued : issued'[o] = issued[o]
  BY <1>1, <1>2, TableTypes DEF TableInv, TableTypeOK
<1>4. IssuedKept
  BY <1>3 DEF IssuedKept
<1>5. AgesDistinct'
  <2> SUFFICES ASSUME NEW o \in DOMAIN issued', NEW p \in DOMAIN issued',
                      issued'[o].handle.index = issued'[p].handle.index,
                      issued'[o].age = issued'[p].age
               PROVE  o = p
    BY DEF AgesDistinct
  <2>1. CASE o \in DOMAIN issued /\ p \in DOMAIN issued
    BY <1>3, <2>1 DEF AgesDistinct
  <2>2. CASE o = n \/ p = n
    BY <1>1, <1>3, <2>2
  <2> QED BY <1>3, <2>1, <2>2
<1>6. MakerOwns'
  <2> SUFFICES ASSUME NEW j \in DOMAIN slots', slots'[j].owner # Zero
               PROVE  /\ issued'[slots'[j].entry.obj].maker \in DOMAIN issued'
                      /\ issued'[issued'[slots'[j].entry.obj].maker].handle = slots'[j].owner
    BY DEF MakerOwns, MadeBy
  <2>1. CASE j = i
    BY <1>1, <1>2, <1>3, <2>1
  <2>2. CASE j # i
    <3>1. j \in DOMAIN slots /\ slots'[j] = slots[j]
      BY <1>1, <2>2
    <3>2. PICK o : o = slots[j].entry.obj
      OBVIOUS
    <3>3. o \in DOMAIN issued
      BY <3>1, <3>2, LiveDistinct DEF TableInv, OwnedIsChild, ChildKinds, NoEntry
    <3>4. issued[o].maker \in DOMAIN issued /\ issued[issued[o].maker].handle = slots[j].owner
      BY <3>1, <3>2 DEF MakerOwns, MadeBy
    <3> QED BY <1>3, <3>1, <3>2, <3>3, <3>4
  <2> QED BY <2>1, <2>2
<1> QED BY <1>4, <1>5, <1>6

\* What a valid handle resolves to was issued under this handle.
LEMMA ResolvedIssued ==
  ASSUME TableInv, NEW h, NEW kind, h \in Handles, Valid(h, kind)
  PROVE  Object(h) \in DOMAIN issued /\ issued[Object(h)].handle = h
<1>1. /\ h \in [kind : Kinds, gen : 1..GenMask, index : Nat \ {0}]
      /\ h.kind = slots[h.index].entry.kind /\ h.gen = slots[h.index].generation
      /\ h.index \in DOMAIN slots /\ slots[h.index].entry # NoEntry
  BY DEF Valid, Handles
<1>2. /\ Object(h) \in DOMAIN issued
      /\ issued[Object(h)].handle = [kind |-> slots[h.index].entry.kind,
                                     gen |-> slots[h.index].generation, index |-> h.index]
  BY <1>1 DEF TableInv, LiveResolves, Object
<1>3. h = [kind |-> h.kind, gen |-> h.gen, index |-> h.index]
  BY <1>1
<1> QED BY <1>1, <1>2, <1>3

\* The calls keep what their lookups established: each lookup adds to it, and a free
\* in between takes nothing away.
LEMMA PairStep ==
  ASSUME TypeOK, BuildsKnownKind, TableInv, PairInv, [Next]_vars
  PROVE  PairInv'
<1>p. AgesDistinct /\ MakerOwns /\ LookupInv
  BY DEF PairInv
<1>0. ASSUME issued' = issued, MakerOwns', LookupInv' PROVE PairInv'
  BY <1>0, <1>p DEF PairInv, AgesDistinct
<1>m. ASSUME UNCHANGED <<slots, issued>> PROVE MakerOwns' /\ IssuedKept
  BY <1>m, <1>p DEF MakerOwns, MadeBy, IssuedKept
<1>1. CASE UNCHANGED vars
  BY <1>1, <1>p DEF vars, PairInv, AgesDistinct, MakerOwns, LookupInv, Looked, MadeBy
<1> SUFFICES ASSUME NEW t \in Threads,
                    \/ RuntimeNew(t)
                    \/ \E h \in Known, k \in Created \cup {"none"}, g \in Known :
                          Resolve(t, h, k, g)
                    \/ RequireOwner(t)
                    \/ ResolveTarget(t)
                    \/ Return(t)
                    \/ Insert(t)
                    \/ \E h \in Known, k \in Kinds : FreeOfKind(t, h, k)
                    \/ \E h \in Known : RuntimeFree(t, h)
                    \/ \E o \in Objects : Close(t, o)
                    \/ FinishFree(t)
             PROVE  PairInv'
  BY <1>1 DEF Next
<1>c. calls \in [Threads -> Calls] /\ calls[t] \in Calls /\ Looked(calls[t])
  BY <1>p DEF TypeOK, LookupInv
<1>l. ASSUME IssuedKept, NEW c, Goto(t, c), Looked(c) PROVE LookupInv'
  <2> SUFFICES ASSUME NEW u \in Threads PROVE Looked(calls[u])'
    BY DEF LookupInv
  <2>1. PICK b : b = calls'[u]
    OBVIOUS
  <2>2. b = c \/ b = calls[u]
    BY <1>c, <1>l, <2>1 DEF Goto
  <2>3. Looked(b)
    BY <1>l, <1>p, <2>2 DEF LookupInv
  <2>4. Looked(b)'
    BY <1>l, <2>3, LookedKept
  <2> QED BY <2>1, <2>4
<1>i. /\ Looked(Idle) /\ Idle.op = "idle" /\ Idle.tobj = 0
      /\ \A c : c.op \in {"idle", "closing", "freeing"} /\ c.tobj = 0 => Looked(c)
  BY DEF Looked, Idle
<1>2. CASE RuntimeNew(t)
  <2>1. IssuedKept /\ AgesDistinct' /\ MakerOwns'
    BY <1>2, <1>p, InsertPairs DEF RuntimeNew
  <2>2. Goto(t, calls[t])
    BY <1>2, <1>c DEF RuntimeNew, Goto
  <2> QED BY <1>c, <1>l, <2>1, <2>2 DEF PairInv
<1>3. ASSUME NEW h \in Known, NEW k \in Created \cup {"none"}, NEW g \in Known, Resolve(t, h, k, g)
      PROVE  PairInv'
  <2>0. PICK op, tgt, r : /\ op = IF k \in {"worker", "none"} THEN "resolved" ELSE "building"
                          /\ tgt = IF k \in {"worker", "none"} THEN g ELSE Zero
                          /\ r = Object(h)
    OBVIOUS
  <2>1. /\ op \in {"resolved", "building"}
        /\ Goto(t, [Idle EXCEPT !.op = op, !.kind = k, !.runtime = h, !.robj = r, !.target = tgt])
    BY <1>3, <2>0 DEF Resolve
  <2>2. r \in DOMAIN issued /\ issued[r].handle = h
    BY <1>3, <2>0, KnownHandles, ResolvedIssued DEF Resolve
  <2>3. PICK c : c = [Idle EXCEPT !.op = op, !.kind = k, !.runtime = h, !.robj = r, !.target = tgt]
    OBVIOUS
  <2>4. c.op = op /\ c.runtime = h /\ c.robj = r /\ c.tobj = 0
    BY <2>3 DEF Idle
  <2>5. Looked(c) /\ Goto(t, c)
    BY <2>1, <2>2, <2>3, <2>4 DEF Looked
  <2>6. UNCHANGED <<slots, issued>>
    BY <1>3 DEF Resolve
  <2> QED BY <1>0, <1>l, <1>m, <2>5, <2>6
<1>4. CASE RequireOwner(t)
  <2>1. UNCHANGED <<slots, issued>> /\ calls[t].op = "resolved"
    BY <1>4 DEF RequireOwner
  <2>2. PICK h : h = calls[t].target
    OBVIOUS
  <2>3. CASE Valid(h, h.kind) /\ slots[h.index].owner = calls[t].runtime
    <3>1. PICK c : c = [calls[t] EXCEPT !.op = "owned"]
      OBVIOUS
    <3>2. /\ c.op = "owned" /\ c.runtime = calls[t].runtime /\ c.robj = calls[t].robj
          /\ c.target = h /\ c.tobj = calls[t].tobj
      BY <1>c, <2>2, <3>1 DEF Calls
    <3>3. c.robj \in DOMAIN issued /\ issued[c.robj].handle = c.runtime /\ c.tobj = 0
      BY <1>c, <2>1, <3>2 DEF Looked
    <3>4. h \in Handles /\ h.index \in DOMAIN slots
      BY <1>c, <2>2, <2>3 DEF Calls, Valid
    <3>5. Object(h) \in DOMAIN issued /\ issued[Object(h)].handle = h
      BY <2>3, <3>4, ResolvedIssued
    <3>6. c.runtime # Zero
      BY <3>3, TableTypes DEF TableInv
    <3>7. MadeBy(Object(h), c.runtime)
      BY <1>p, <2>3, <3>2, <3>4, <3>6 DEF MakerOwns, Object
    <3>8. Looked(c)
      BY <3>2, <3>3, <3>5, <3>7 DEF Looked
    <3>9. Goto(t, c)
      BY <1>4, <2>2, <2>3, <3>1 DEF RequireOwner
    <3> QED BY <1>0, <1>l, <1>m, <2>1, <3>8, <3>9
  <2>4. CASE ~(Valid(h, h.kind) /\ slots[h.index].owner = calls[t].runtime)
    <3>1. Goto(t, Idle)
      BY <1>4, <2>2, <2>4 DEF RequireOwner
    <3> QED BY <1>0, <1>i, <1>l, <1>m, <2>1, <3>1
  <2> QED BY <2>3, <2>4
<1>5. CASE ResolveTarget(t)
  <2>1. UNCHANGED <<slots, issued>> /\ calls[t].op = "owned"
    BY <1>5 DEF ResolveTarget
  <2>2. PICK h, wanted : /\ h = calls[t].target
                         /\ wanted = IF calls[t].kind = "worker" THEN "client" ELSE h.kind
    OBVIOUS
  <2>3. CASE Valid(h, wanted)
    <3>0. PICK op, o : /\ op = IF calls[t].kind = "worker" THEN "building" ELSE "calling"
                       /\ o = Object(h)
      OBVIOUS
    <3>1. op \in {"building", "calling"} /\ Goto(t, [calls[t] EXCEPT !.op = op, !.tobj = o])
      BY <1>5, <2>2, <2>3, <3>0 DEF ResolveTarget
    <3>2. PICK c : c = [calls[t] EXCEPT !.op = op, !.tobj = o]
      OBVIOUS
    <3>3. /\ c.op = op /\ c.runtime = calls[t].runtime /\ c.robj = calls[t].robj /\ c.tobj = o
      BY <1>c, <3>2 DEF Calls
    <3>4. h \in Handles
      BY <1>c, <2>2 DEF Calls
    <3>5. o \in DOMAIN issued /\ issued[o].handle = h
      BY <2>3, <3>0, <3>4, ResolvedIssued
    <3>6. /\ c.robj \in DOMAIN issued /\ issued[c.robj].handle = c.runtime
          /\ \E p \in DOMAIN issued : issued[p].handle = h /\ MadeBy(p, c.runtime)
      BY <1>c, <2>1, <2>2, <3>3 DEF Looked
    <3>7. Looked(c)
      BY <3>1, <3>3, <3>5, <3>6 DEF Looked
    <3> QED BY <1>0, <1>l, <1>m, <2>1, <3>1, <3>2, <3>7
  <2>4. CASE ~Valid(h, wanted)
    <3>1. Goto(t, Idle)
      BY <1>5, <2>2, <2>4 DEF ResolveTarget
    <3> QED BY <1>0, <1>i, <1>l, <1>m, <2>1, <3>1
  <2> QED BY <2>3, <2>4
<1>6. CASE Return(t) \/ FinishFree(t)
  <2>1. UNCHANGED <<slots, issued>> /\ Goto(t, Idle)
    BY <1>6 DEF Return, FinishFree
  <2> QED BY <1>0, <1>i, <1>l, <1>m, <2>1
<1>7. CASE Insert(t)
  <2>1. PICK c : c = calls[t]
    OBVIOUS
  <2>2. c.op = "building" /\ Goto(t, Idle)
    BY <1>7, <2>1 DEF Insert
  <2>3. c.robj \in DOMAIN issued /\ issued[c.robj].handle = c.runtime
    BY <1>c, <2>1, <2>2 DEF Looked
  <2>4. CASE InsertInto("poller", Zero, c.robj)
    BY <1>i, <1>l, <1>p, <2>2, <2>4, InsertPairs DEF PairInv
  <2>5. CASE InsertInto(c.kind, c.runtime, c.robj)
    BY <1>i, <1>l, <1>p, <2>2, <2>3, <2>5, InsertPairs DEF PairInv
  <2>6. CASE UNCHANGED <<slots, free, issued, reuse>>
    BY <1>0, <1>i, <1>l, <1>m, <2>2, <2>6
  <2> QED BY <1>7, <2>1, <2>4, <2>5, <2>6 DEF Insert
<1>8. ASSUME NEW h \in Known, NEW k \in Kinds, FreeOfKind(t, h, k) PROVE PairInv'
  <2>1. PICK c : /\ c = [Idle EXCEPT !.op = "closing", !.todo = {Object(h)}]
                 /\ Goto(t, c)
    BY <1>8 DEF FreeOfKind
  <2>2. Looked(c)
    BY <1>i, <2>1 DEF Idle
  <2>3. issued' = issued /\ slots' = [slots EXCEPT ![h.index] = Emptied(slots[h.index])]
    BY <1>8 DEF FreeOfKind, TakeOne
  <2>4. \A i \in DOMAIN slots' :
          i \in DOMAIN slots /\ (slots'[i].owner # Zero => slots'[i] = slots[i])
    <3>1. PICK e : e = Emptied(slots[h.index])
      OBVIOUS
    <3>2. e.owner = Zero
      BY <3>1 DEF Emptied
    <3>3. slots' = [slots EXCEPT ![h.index] = e]
      BY <2>3, <3>1
    <3> QED BY <3>2, <3>3
  <2>5. MakerOwns' /\ IssuedKept
    BY <1>p, <2>3, <2>4 DEF MakerOwns, MadeBy, IssuedKept
  <2> QED BY <1>0, <1>l, <2>1, <2>2, <2>3, <2>5
<1>9. ASSUME NEW h \in Known, RuntimeFree(t, h) PROVE PairInv'
  <2>1. PICK r, todo, c : /\ c = [Idle EXCEPT !.op = "freeing", !.robj = r, !.todo = todo]
                          /\ Goto(t, c)
    BY <1>9 DEF RuntimeFree
  <2>2. Looked(c)
    BY <1>i, <2>1 DEF Idle
  <2>3. PICK gone : slots' = [i \in DOMAIN slots |-> IF i \in gone THEN Emptied(slots[i]) ELSE slots[i]]
    BY <1>9 DEF RuntimeFree, TakeRuntime
  <2>4. issued' = issued
    BY <1>9 DEF RuntimeFree, TakeRuntime
  <2>5. \A i \in DOMAIN slots' :
          i \in DOMAIN slots /\ (slots'[i].owner # Zero => slots'[i] = slots[i])
    BY <2>3 DEF Emptied
  <2>6. MakerOwns' /\ IssuedKept
    BY <1>p, <2>4, <2>5 DEF MakerOwns, MadeBy, IssuedKept
  <2> QED BY <1>0, <1>l, <2>1, <2>2, <2>4, <2>6
<1>10. ASSUME NEW o \in Objects, Close(t, o) PROVE PairInv'
  <2>1. PICK c : c = [calls[t] EXCEPT !.todo = calls[t].todo \ {o}] /\ Goto(t, c)
    BY <1>10 DEF Close
  <2>2. UNCHANGED <<slots, issued>> /\ calls[t].op \in {"closing", "freeing"}
    BY <1>10 DEF Close
  <2>3. c.op = calls[t].op /\ c.tobj = calls[t].tobj
    BY <1>c, <2>1 DEF Calls
  <2>4. Looked(c)
    BY <1>c, <2>2, <2>3 DEF Looked
  <2> QED BY <1>0, <1>l, <1>m, <2>1, <2>2, <2>4
<1> QED BY <1>2, <1>3, <1>4, <1>5, <1>6, <1>7, <1>8, <1>9, <1>10

-----------------------------------------------------------------------------
HandleInv == TypeOK /\ BuildsKnownKind /\ TableInv /\ RemoverInv /\ PairInv

\* Every reachable state of the table satisfies the inductive invariant, for
\* any number of threads and objects and any generation width.
THEOREM HandleInvariant == Spec => []HandleInv
<1>1. Init => HandleInv
  <2> SUFFICES ASSUME Init PROVE HandleInv
    OBVIOUS
  <2>1. Idle \in Calls /\ Idle.op = "idle" /\ Idle.todo = {}
    BY DEF Idle, Calls, Ops, Handles
  <2>2. \A t \in Threads : calls[t] = Idle
    BY DEF Init
  <2>3. TypeOK /\ BuildsKnownKind
    BY <2>1 DEF Init, TypeOK, TableTypeOK, BuildsKnownKind
  <2>4. TableInv
    BY <2>3 DEF Init, TypeOK, TableInv, FreeListExact, LiveResolves, GenerationsCount,
                OwnedIsChild, OwnerLive
  <2>5. RemoverInv
    BY <2>1, <2>2 DEF Init, RemoverInv, SingleRemover, ObjectsAccounted, Held
  <2>6. PairInv
    BY <2>1, <2>2 DEF Init, PairInv, AgesDistinct, MakerOwns, LookupInv, Looked, Idle
  <2> QED BY <2>3, <2>4, <2>5, <2>6 DEF HandleInv
<1>2. HandleInv /\ [Next]_vars => HandleInv'
  BY TableStep, CallsStep, RemoverStep, PairStep DEF HandleInv
<1> QED BY <1>1, <1>2, PTL DEF Spec

\* Type correctness of the handle table and of every call in progress.
THEOREM HandleTypes == Spec => []TypeOK
<1>1. HandleInv => TypeOK
  BY DEF HandleInv
<1> QED BY <1>1, HandleInvariant, PTL

\* insert_into never overwrites a live entry and take never loses a slot.
THEOREM FreeListIsExact == Spec => []FreeListExact
<1>1. HandleInv => FreeListExact
  BY DEF HandleInv, TableInv
<1> QED BY <1>1, HandleInvariant, PTL

\* A live object is reachable through the handle issued for it, across any
\* number of generation wraps of its slot.
THEOREM LiveHandlesResolve == Spec => []LiveResolves
<1>1. HandleInv => LiveResolves
  BY DEF HandleInv, TableInv
<1> QED BY <1>1, HandleInvariant, PTL

\* A handle used after free is stale, until its slot has been emptied as
\* often as there are generations (2^24 - 1 in the code).
THEOREM UseAfterFreeIsStale == Spec => []StaleWithinCycle
<1>1. HandleInv => StaleWithinCycle
  <2> SUFFICES ASSUME HandleInv, NEW o \in DOMAIN issued,
                      Valid(issued[o].handle, issued[o].handle.kind),
                      Object(issued[o].handle) # o
               PROVE  reuse[issued[o].handle.index] - issued[o].age >= GenMask
    BY DEF StaleWithinCycle
  <2> DEFINE h == issued[o].handle
             i == h.index
             age == issued[o].age
             d == reuse[i] - age
  <2>1. /\ i \in DOMAIN slots /\ age <= reuse[i]
        /\ d < GenMask => slots[i].generation = Advance(h.gen, d)
        /\ d = 0 => slots[i].entry.obj = o
    BY DEF HandleInv, TableInv, GenerationsCount
  <2>2. slots[i].generation = h.gen /\ slots[i].entry.obj # o
    BY DEF Valid, Object
  <2>3. age \in Nat /\ reuse[i] \in Nat /\ h.gen \in 1..GenMask
    BY <2>1, TableTypes DEF HandleInv, TableInv, Handles
  <2> HIDE DEF h, i, age
  <2>4. CASE d < GenMask
    <3>1. d \in Nat /\ d # 0
      BY <2>1, <2>2, <2>3
    <3>2. h.gen = Advance(h.gen, d)
      BY <2>1, <2>2, <2>4
    <3> HIDE DEF d
    <3> QED BY <2>3, <2>4, <3>1, <3>2 DEF Advance
  <2> QED BY <2>3, <2>4 DEF h, i, age
<1> QED BY <1>1, HandleInvariant, PTL

\* No owned entry outlives its runtime in the table, however creations race
\* kt_runtime_free.
THEOREM ChildrenDieWithRuntime == Spec => []OwnerLive
<1>1. HandleInv => OwnerLive
  BY DEF HandleInv, TableInv
<1> QED BY <1>1, HandleInvariant, PTL

\* Every object leaves the table through one remover and is released once,
\* however kt_*_free and kt_runtime_free race.
THEOREM OneRemover == Spec => []SingleRemover
<1>1. HandleInv => SingleRemover
  BY DEF HandleInv, RemoverInv
<1> QED BY <1>1, HandleInvariant, PTL

\* Two objects issued under one handle: the older one's slot has gone round a
\* whole generation cycle since.
LEMMA TwinsWrapped ==
  ASSUME TableInv, AgesDistinct, NEW o \in DOMAIN issued, NEW p \in DOMAIN issued, o # p,
         issued[o].handle = issued[p].handle
  PROVE  Wrapped(o) \/ Wrapped(p)
<1>1. PICK h, i, g : h = issued[o].handle /\ i = h.index /\ g = h.gen
  OBVIOUS
<1>2. PICK d, e : d = reuse[i] - issued[o].age /\ e = reuse[i] - issued[p].age
  OBVIOUS
<1>3. /\ h \in Handles \ {Zero} /\ issued[o].age \in Nat /\ issued[p].age \in Nat
      /\ i \in DOMAIN slots /\ reuse[i] \in Nat
  BY <1>1, TableTypes DEF TableInv, GenerationsCount
<1>4. g \in 1..GenMask
  BY <1>1, <1>3 DEF Handles
<1>5. /\ issued[o].age <= reuse[i] /\ (d < GenMask => slots[i].generation = Advance(g, d))
      /\ issued[p].age <= reuse[i] /\ (e < GenMask => slots[i].generation = Advance(g, e))
  BY <1>1, <1>2 DEF TableInv, GenerationsCount
<1>6. issued[o].age # issued[p].age
  BY DEF AgesDistinct
<1>7. d \in Nat /\ e \in Nat /\ d # e
  BY <1>2, <1>3, <1>5, <1>6
<1>8. ~(d < GenMask /\ e < GenMask)
  BY <1>4, <1>5, <1>7 DEF Advance
<1>9. d >= GenMask \/ e >= GenMask
  BY <1>7, <1>8
<1> QED BY <1>1, <1>2, <1>9 DEF Wrapped

\* A call that has passed its three lookups drives a child on the runtime that
\* made it, however the handles are freed and reused in between, until a slot has
\* been emptied as often as there are generations.
THEOREM LookupsAgree == Spec => []CallPairsMatch
<1>1. HandleInv => CallPairsMatch
  <2> SUFFICES ASSUME HandleInv, NEW t \in Threads, calls[t].tobj # 0,
                      \A o \in DOMAIN issued : ~Wrapped(o)
               PROVE  issued[calls[t].tobj].maker = calls[t].robj
    BY DEF CallPairsMatch
  <2>1. TableInv /\ AgesDistinct /\ Looked(calls[t])
    BY DEF HandleInv, PairInv, LookupInv
  <2>2. PICK c : c = calls[t]
    OBVIOUS
  <2>3. /\ c.tobj \in DOMAIN issued /\ c.robj \in DOMAIN issued
        /\ issued[c.robj].handle = c.runtime
    BY <2>1, <2>2 DEF Looked
  <2>4. PICK o \in DOMAIN issued :
          issued[o].handle = issued[c.tobj].handle /\ MadeBy(o, c.runtime)
    BY <2>1, <2>2 DEF Looked
  <2>5. o = c.tobj
    BY <2>1, <2>3, <2>4, TwinsWrapped
  <2>6. issued[o].maker = c.robj
    BY <2>1, <2>3, <2>4, TwinsWrapped DEF MadeBy
  <2> QED BY <2>2, <2>5, <2>6
<1> QED BY <1>1, HandleInvariant, PTL
=============================================================================
