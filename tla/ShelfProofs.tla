----------------------------- MODULE ShelfProofs -----------------------------
(***************************************************************************)
(* The shelf's invariants and its promise to its buyers, and what a run of *)
(* the publisher leaves and its verify finds, for shelves of any size, any *)
(* cards and any runs.                                                     *)
(***************************************************************************)
EXTENDS Publisher, TLAPS

\* What a growth does to the size and the rent.
LEMMA ResizeFits ==
    ASSUME TypeOK, NEW n \in Nat, ResizeTo(n)
    PROVE  capacity' = n /\ funds' \in Nat /\ funds' >= MinBalance(n)
  BY ShelfAssumption DEF TypeOK, ResizeTo, MinBalance, AtLeast

\* A growth leaves every written slot where it was and adds zeroed ones.
LEMMA ResizedSlots ==
    ASSUME TypeOK, NEW n \in Nat, n >= capacity
    PROVE  /\ Resized(slots, capacity, n) \in [0 .. n - 1 -> Cards \union {Zeroed}]
           /\ \A i \in 0 .. capacity - 1 : Resized(slots, capacity, n)[i] = slots[i]
  BY DEF TypeOK, Resized

\* What the proofs carry: types, the count within the slots, the rent paid,
\* nothing in the account before it is made.
IInv == TypeOK /\ CountFits /\ RentPaid

LEMMA InitInv == Init => IInv
  <1>1. ASSUME Nothing PROVE IInv
    <2>1. capacity = 0 /\ count = 0 /\ funds = 0 /\ made = FALSE
      BY <1>1 DEF Nothing
    <2>2. slots = [i \in 0 .. capacity - 1 |-> Zeroed]
      BY <1>1 DEF Nothing
    <2>3. slots \in [0 .. capacity - 1 -> Cards \union {Zeroed}]
      BY <2>2, Zenon
    <2>4. TypeOK
      BY <2>1, <2>3 DEF TypeOK
    <2>5. CountFits /\ RentPaid
      BY <2>1 DEF CountFits, RentPaid
    <2> QED  BY <2>4, <2>5 DEF IInv
  <1>2. ASSUME CarriedOver PROVE IInv
    <2>1. capacity \in Nat
      BY <1>2, ShelfAssumption DEF CarriedOver
    <2>2. count \in Nat /\ count <= capacity
      BY <1>2, <2>1 DEF CarriedOver
    <2> QED  BY <1>2, <2>1, <2>2, ShelfAssumption
             DEF CarriedOver, IInv, TypeOK, CountFits, RentPaid, MinBalance
  <1> QED  BY <1>1, <1>2 DEF Init

\* One step for each instruction: the size the account takes, then what is in
\* it, then the count.
LEMMA NextInv == IInv /\ [Next]_vars => IInv'
  <1> SUFFICES ASSUME IInv, [Next]_vars PROVE IInv'  OBVIOUS
  <1> USE DEF IInv
  <1>1. ASSUME NEW n \in Declared, Initialize(n) PROVE IInv'
    <2> DEFINE size == AtLeast(capacity, INITIAL_CARDS)
    <2>1. n \in Nat /\ size \in Nat /\ size >= capacity /\ n <= size
      BY <1>1, ShelfAssumption DEF Initialize, AtLeast, TypeOK
    <2>2. capacity' = size /\ funds' \in Nat /\ funds' >= MinBalance(size)
      BY <1>1, <2>1, ResizeFits DEF Initialize
    <2>3. slots' \in [0 .. capacity' - 1 -> Cards \union {Zeroed}]
      BY <1>1, <2>1, <2>2, ResizedSlots DEF Initialize
    <2>4. count' \in Nat /\ count' <= size
      BY <1>1, <2>1 DEF Initialize, AtLeast, TypeOK, CountFits
    <2> QED  BY <1>1, <2>1, <2>2, <2>3, <2>4 DEF Initialize, TypeOK, CountFits, RentPaid
  <1>2. ASSUME NEW i \in Indices, NEW c \in Cards \union Refused, SetCard(i, c)
        PROVE  IInv'
    <2> DEFINE size == AtLeast(capacity, i + 1)
    <2>1. i \in Nat /\ size \in Nat /\ size >= capacity /\ i + 1 <= size /\ c \in Cards
      BY <1>2, ShelfAssumption DEF SetCard, AtLeast, TypeOK
    <2>2. capacity' = size /\ funds' \in Nat /\ funds' >= MinBalance(size)
      BY <1>2, <2>1, ResizeFits DEF SetCard
    <2>3. slots' \in [0 .. capacity' - 1 -> Cards \union {Zeroed}]
      BY <1>2, <2>1, <2>2, ResizedSlots DEF SetCard
    <2>4. count' \in Nat /\ count' <= size
      BY <1>2, <2>1 DEF SetCard, AtLeast, TypeOK, CountFits
    <2> QED  BY <1>2, <2>1, <2>2, <2>3, <2>4 DEF SetCard, TypeOK, CountFits, RentPaid
  <1>3. ASSUME NEW n \in 0 .. MaxSlots, GrowConfig(n) PROVE IInv'
    <2>1. n \in Nat /\ n >= capacity
      BY <1>3, ShelfAssumption DEF GrowConfig, TypeOK
    <2>2. capacity' = n /\ funds' \in Nat /\ funds' >= MinBalance(n)
      BY <1>3, <2>1, ResizeFits DEF GrowConfig
    <2>3. slots' \in [0 .. capacity' - 1 -> Cards \union {Zeroed}]
      BY <1>3, <2>1, <2>2, ResizedSlots DEF GrowConfig
    <2> QED  BY <1>3, <2>1, <2>2, <2>3 DEF GrowConfig, TypeOK, CountFits, RentPaid
  <1>4. CASE UNCHANGED vars
    BY <1>4 DEF vars, TypeOK, CountFits, RentPaid
  <1> QED  BY <1>1, <1>2, <1>3, <1>4 DEF Next

THEOREM InvAlways == Spec => []IInv
  BY InitInv, NextInv, PTL DEF Spec

\* The types of the account.
THEOREM TypeOKAlways == Spec => []TypeOK
  BY InvAlways, PTL DEF IInv

\* The count never passes the slots, whatever counts Initialize is given.
THEOREM CountFitsAlways == Spec => []CountFits
  BY InvAlways, PTL DEF IInv

\* The shelf is exempt from rent at every size it takes.
THEOREM RentPaidAlways == Spec => []RentPaid
  BY InvAlways, PTL DEF IInv

\* SetCard writes one slot, and the count ends past it.
LEMMA SetCardWrites ==
    ASSUME IInv, NEW i \in Indices, NEW c \in Cards \union Refused, SetCard(i, c)
    PROVE  /\ slots'[i] = c /\ i <= count /\ i < count' /\ count <= count'
           /\ \A j \in 0 .. capacity - 1 : j # i => slots'[j] = slots[j]
  <1> DEFINE size == AtLeast(capacity, i + 1)
             grown == Resized(slots, capacity, size)
  <1>1. i \in Nat /\ size \in Nat /\ size >= capacity /\ i + 1 <= size
    BY ShelfAssumption DEF AtLeast, IInv, TypeOK
  <1>2. /\ grown \in [0 .. size - 1 -> Cards \union {Zeroed}]
        /\ \A j \in 0 .. capacity - 1 : grown[j] = slots[j]
    BY <1>1, ResizedSlots DEF IInv
  <1>3. slots' = [grown EXCEPT ![i] = c] /\ count' = AtLeast(count, i + 1) /\ i <= count
    BY DEF SetCard
  <1>4. slots'[i] = c /\ \A j \in 0 .. size - 1 : j # i => slots'[j] = grown[j]
    BY <1>1, <1>2, <1>3
  <1>5. i < count' /\ count <= count'
    BY <1>1, <1>3 DEF AtLeast, IInv, TypeOK
  <1>6. \A j \in 0 .. capacity - 1 : j # i => slots'[j] = slots[j]
    BY <1>1, <1>2, <1>4 DEF IInv, TypeOK
  <1> QED  BY <1>3, <1>4, <1>5, <1>6

\* Room alone writes no slot and publishes none.
LEMMA GrowthKeeps ==
    ASSUME IInv, Initialize(0) \/ \E n \in 0 .. MaxSlots : GrowConfig(n)
    PROVE  count' = count /\ \A j \in 0 .. capacity - 1 : slots'[j] = slots[j]
  <1>1. ASSUME Initialize(0)
        PROVE  count' = count /\ \A j \in 0 .. capacity - 1 : slots'[j] = slots[j]
    <2> DEFINE size == AtLeast(capacity, INITIAL_CARDS)
    <2>1. size \in Nat /\ size >= capacity
      BY ShelfAssumption DEF AtLeast, IInv, TypeOK
    <2>2. slots' = Resized(slots, capacity, size) /\ count' = count
      BY <1>1 DEF Initialize, AtLeast, IInv, TypeOK
    <2> QED  BY <2>1, <2>2, ResizedSlots DEF IInv
  <1>2. ASSUME NEW n \in 0 .. MaxSlots, GrowConfig(n)
        PROVE  count' = count /\ \A j \in 0 .. capacity - 1 : slots'[j] = slots[j]
    <2>1. n \in Nat /\ n >= capacity
      BY <1>2, ShelfAssumption DEF GrowConfig, IInv, TypeOK
    <2>2. slots' = Resized(slots, capacity, n) /\ count' = count
      BY <1>2 DEF GrowConfig
    <2> QED  BY <2>1, <2>2, ResizedSlots DEF IInv
  <1> QED  BY <1>1, <1>2

-----------------------------------------------------------------------------
(* The promise, where Initialize declares no cards, as the operator's setup *)
(* does (main.rs 524).                                                      *)

LInv == IInv /\ PublishedWritten

LEMMA InitWritten == Init => PublishedWritten
  <1>1. Nothing => PublishedWritten
    BY DEF Nothing, PublishedWritten
  <1>2. ASSUME CarriedOver PROVE PublishedWritten
    <2>1. capacity \in Nat
      BY <1>2, ShelfAssumption DEF CarriedOver
    <2>2. count \in Nat
      BY <1>2, <2>1 DEF CarriedOver
    <2>3. \A i \in 0 .. capacity - 1 : slots[i] \in Cards \union {Zeroed}
      BY <1>2 DEF CarriedOver
    <2>4. \A i \in 0 .. capacity - 1 : slots[i] = Zeroed <=> i >= count
      BY <1>2 DEF CarriedOver
    <2> QED  BY <2>1, <2>2, <2>3, <2>4 DEF PublishedWritten
  <1> QED  BY <1>1, <1>2 DEF Init

\* A step keeps every published slot or is one of the list's two steps.
LEMMA StepOfList ==
    ASSUME Declared \subseteq {0}, LInv, [Next]_vars
    PROVE  PublishedWritten' /\ [List!Next]_<<count, Published>>
  <1> DEFINE Kept == count' = count /\ \A i \in 0 .. count - 1 : slots'[i] = slots[i]
  <1>0. ASSUME Kept, capacity' \in Nat
        PROVE  PublishedWritten' /\ [List!Next]_<<count, Published>>
    <2>1. Published' = Published
      BY <1>0, Zenon DEF Published
    <2>2. PublishedWritten'
      BY <1>0 DEF LInv, IInv, TypeOK, CountFits, PublishedWritten
    <2> QED  BY <1>0, <2>1, <2>2
  <1>1. CASE Initialize(0) \/ \E n \in 0 .. MaxSlots : GrowConfig(n)
    <2>1. count' = count /\ \A i \in 0 .. capacity - 1 : slots'[i] = slots[i]
      BY <1>1, GrowthKeeps DEF LInv
    <2> QED  BY <1>0, <2>1, NextInv DEF LInv, IInv, TypeOK, CountFits
  <1>2. ASSUME NEW i \in Indices, NEW c \in Cards \union Refused, SetCard(i, c)
        PROVE  PublishedWritten' /\ [List!Next]_<<count, Published>>
    <2>1. i \in Nat /\ c \in Cards
      BY <1>2, ShelfAssumption DEF SetCard
    <2>2. /\ slots'[i] = c /\ i <= count
          /\ \A j \in 0 .. capacity - 1 : j # i => slots'[j] = slots[j]
      BY <1>2, SetCardWrites DEF LInv
    <2>3. count' = AtLeast(count, i + 1)
      BY <1>2 DEF SetCard
    <2>4. count \in Nat /\ count <= capacity /\ capacity \in Nat
      BY DEF LInv, IInv, TypeOK, CountFits
    <2>5. ASSUME NEW j \in 0 .. capacity' - 1, j < count' PROVE slots'[j] \in Cards
      <3>1. CASE j = i
        BY <2>1, <2>2, <3>1
      <3>2. CASE j # i
        <4>1. j \in 0 .. capacity - 1 /\ j < count
          BY <2>1, <2>2, <2>3, <2>4, <2>5, <3>2 DEF AtLeast
        <4> QED  BY <2>2, <3>2, <4>1 DEF LInv, PublishedWritten
      <3> QED  BY <3>1, <3>2
    <2>6. CASE i < count
      <3>1. count' = count
        BY <2>1, <2>3, <2>4, <2>6 DEF AtLeast
      <3>2. \A j \in 0 .. count - 1 : slots'[j] = IF j = i THEN c ELSE slots[j]
        BY <2>2, <2>4
      <3>3. Published' = [Published EXCEPT ![i] = c]
        BY <3>1, <3>2 DEF Published
      <3>4. List!Overwrite(i, c) /\ i \in 0 .. count - 1
        BY <2>1, <2>4, <2>6, <3>1, <3>3 DEF List!Overwrite
      <3> QED  BY <2>1, <2>5, <3>4 DEF List!Next, PublishedWritten
    <2>7. CASE i = count
      <3>1. count' = count + 1
        BY <2>1, <2>3, <2>4, <2>7 DEF AtLeast
      <3>2. Published' = [j \in 0 .. count |-> IF j = count THEN c ELSE Published[j]]
        BY <2>1, <2>2, <2>4, <2>7, <3>1 DEF Published
      <3>3. List!Append(c)
        BY <3>1, <3>2 DEF List!Append
      <3> QED  BY <2>1, <2>5, <3>3 DEF List!Next, PublishedWritten
    <2> QED  BY <2>1, <2>2, <2>4, <2>6, <2>7
  <1>3. CASE UNCHANGED vars
    BY <1>0, <1>3 DEF vars, LInv, IInv, TypeOK
  <1> QED  BY <1>1, <1>2, <1>3 DEF Next

LEMMA InitOfList ==
    ASSUME LInv PROVE List!Init
  <1>1. count \in Nat /\ count <= capacity /\ capacity \in Nat
    BY DEF LInv, IInv, TypeOK, CountFits
  <1>2. \A i \in 0 .. count - 1 : slots[i] \in Cards
    BY <1>1 DEF LInv, PublishedWritten
  <1> QED  BY <1>1, <1>2 DEF List!Init, Published

\* No card is for sale that nobody wrote.
THEOREM PublishedWrittenAlways ==
    ASSUME Declared \subseteq {0} PROVE Spec => []PublishedWritten
  <1>1. Init => LInv
    BY InitInv, InitWritten DEF LInv
  <1>2. LInv /\ [Next]_vars => LInv'
    BY NextInv, StepOfList DEF LInv
  <1>3. LInv => PublishedWritten
    BY DEF LInv
  <1> QED  BY <1>1, <1>2, <1>3, PTL DEF Spec

\* The shelf implements the list: buyers see cards overwritten or appended,
\* never lost, never a hole.
THEOREM KeepsTheListAlways ==
    ASSUME Declared \subseteq {0} PROVE Spec => KeepsTheList
  <1>1. Init => LInv /\ List!Init
    BY InitInv, InitWritten, InitOfList DEF LInv
  <1>2. LInv /\ [Next]_vars => LInv' /\ [List!Next]_<<count, Published>>
    BY NextInv, StepOfList DEF LInv
  <1> QED  BY <1>1, <1>2, PTL DEF Spec, KeepsTheList, List!Spec

-----------------------------------------------------------------------------
(* The publisher changes the shelf by the program's instructions only, so    *)
(* the shelf keeps its promise however runs are stopped, repeated or mixed.  *)

\* What a run reads of the file it loaded.
LEMMA WantCard ==
    ASSUME NEW s \in Sheets, NEW i \in Nat PROVE Want(s, i) \in Cards \union Refused
  <1>1. s \in Seq(Cards \union Refused) /\ s # <<>> /\ Len(s) \in Nat
    BY PublisherAssumption
  <1>2. Len(s) > 0
    BY <1>1
  <1>3. \A j \in 1 .. Len(s) : s[j] \in Cards \union Refused
    BY <1>1
  <1>4. CASE i < Len(s)
    BY <1>1, <1>3, <1>4 DEF Want
  <1>5. CASE ~(i < Len(s))
    BY <1>1, <1>2, <1>3, <1>5 DEF Want
  <1> QED  BY <1>4, <1>5

\* Which of the program's instructions a step of the operator is.
LEMMA PubStep ==
    ASSUME 0 \in Declared, sheet \in Sheets, [PubNext]_pubVars PROVE [Next]_vars
  <1> USE DEF Next
  <1>1. ASSUME NEW i \in Indices, SetCard(i, Want(sheet, i)) PROVE Next
    BY <1>1, WantCard, ShelfAssumption
  <1>2. CASE Setup
    BY <1>2 DEF Setup
  <1>3. ASSUME NEW n \in 0 .. MaxSlots, Grow(n) PROVE Next
    BY <1>3 DEF Grow
  <1>4. ASSUME NEW i \in Indices, NEW c \in Cards, Other(i, c) PROVE Next
    BY <1>4 DEF Other
  <1>5. ASSUME NEW i \in Indices, BreakOff(i) PROVE [Next]_vars
    BY <1>1, <1>5 DEF BreakOff
  <1>6. ASSUME NEW i \in Indices, Write(i) PROVE Next
    BY <1>1, <1>6 DEF Write
  <1>7. ASSUME NEW i \in Indices, Skip(i) PROVE UNCHANGED vars
    BY <1>7 DEF Skip
  <1>8. CASE (\E s \in Sheets : EditSheet(s)) \/ (\E f \in Forces : StartPublish(f))
    BY <1>8 DEF EditSheet, StartPublish
  <1>9. CASE StopAtRefused \/ FinishPublish \/ Verify
    BY <1>9 DEF StopAtRefused, FinishPublish, Verify
  <1>10. CASE UNCHANGED pubVars
    BY <1>10 DEF pubVars
  <1> QED
    BY <1>2, <1>3, <1>4, <1>5, <1>6, <1>7, <1>8, <1>9, <1>10 DEF PubNext, Publish

Sheeted == file \in Sheets /\ sheet \in Sheets

LEMMA SheetedNext == Sheeted /\ [PubNext]_pubVars => Sheeted'
  <1> SUFFICES ASSUME Sheeted, [PubNext]_pubVars PROVE Sheeted'  OBVIOUS
  <1> USE DEF Sheeted
  <1>1. CASE Setup \/ \E n \in 0 .. MaxSlots : Grow(n)
    BY <1>1 DEF Setup, Grow, opVars
  <1>2. CASE \E i \in Indices, c \in Cards : Other(i, c)
    BY <1>2 DEF Other
  <1>3. CASE \E s \in Sheets : EditSheet(s)
    BY <1>3 DEF EditSheet
  <1>4. CASE \E f \in Forces : StartPublish(f)
    BY <1>4 DEF StartPublish
  <1>5. CASE Publish
    BY <1>5 DEF Publish, StopAtRefused, FinishPublish, Skip, Write
  <1>6. CASE \E i \in Indices : BreakOff(i)
    BY <1>6 DEF BreakOff
  <1>7. CASE Verify
    BY <1>7 DEF Verify
  <1>8. CASE UNCHANGED pubVars
    BY <1>8 DEF pubVars, opVars
  <1> QED  BY <1>1, <1>2, <1>3, <1>4, <1>5, <1>6, <1>7, <1>8 DEF PubNext

\* The publisher sends the program's instructions and does nothing else to the
\* shelf, as its actions are written: what is proved of the shelf alone carries
\* over to a shelf that is published to, runs that stop between two cards
\* included.
LEMMA PubIsShelf == ASSUME 0 \in Declared PROVE PubSpec => Spec
  <1>1. PubInit => Init /\ Sheeted
    BY DEF PubInit, Sheeted
  <1>2. Sheeted /\ [PubNext]_pubVars => Sheeted' /\ [Next]_vars
    BY SheetedNext, PubStep DEF Sheeted
  <1> QED  BY <1>1, <1>2, PTL DEF PubSpec, Spec

-----------------------------------------------------------------------------
(* What a run without an error has done.  Besides the slots it has passed,   *)
(* the invariant keeps those ahead of it as it read them, others' writes     *)
(* aside: this is what makes a slot skipped on an old read a slot that holds *)
(* its card now.                                                             *)

Ahead == \A i \in at .. seen.count - 1 : i \in touched \/ slots[i] = seen.slots[i]

Passed == \A i \in 0 .. at - 1 : Landed(i)

Running == pc \in {"publishing", "verifying"}

RunInv ==
    /\ IInv /\ Sheeted
    /\ Running => /\ at \in Nat /\ at <= count
                  /\ seen.count \in Nat /\ seen.count <= count
                  /\ Passed /\ Ahead

\* Neither others nor more room disturb what a run has done and read.
LEMMA OthersKeep ==
    ASSUME RunInv, Running, IInv',
           count <= count',
           \A j \in 0 .. capacity - 1 : j \in touched' \/ slots'[j] = slots[j],
           touched \subseteq touched',
           UNCHANGED <<sheet, seen, at>>
    PROVE  Passed' /\ Ahead' /\ at' <= count' /\ seen'.count <= count'
  <1>1. /\ at \in Nat /\ at <= count /\ seen.count \in Nat /\ seen.count <= count
        /\ Passed /\ Ahead /\ count \in Nat /\ capacity \in Nat /\ count <= capacity
        /\ count' \in Nat
    BY DEF RunInv, IInv, TypeOK, CountFits
  <1>2. Passed'
    BY <1>1 DEF Passed, Landed, Want
  <1>3. Ahead'
    BY <1>1 DEF Ahead
  <1> QED  BY <1>1, <1>2, <1>3

\* A slot the run writes itself joins those it has passed.
LEMMA WriteLands ==
    ASSUME RunInv, IInv' /\ Sheeted', NEW i \in Indices, Write(i)
    PROVE  RunInv'
  <1>1. /\ i = at /\ pc = "publishing" /\ i \in Nat /\ Running
    BY ShelfAssumption DEF Write, Sending, Running
  <1>2. /\ at <= count /\ seen.count \in Nat /\ seen.count <= count /\ Passed /\ Ahead
        /\ count \in Nat /\ capacity \in Nat /\ count <= capacity /\ sheet \in Sheets
    BY <1>1 DEF RunInv, IInv, TypeOK, CountFits, Sheeted
  <1>3. Want(sheet, i) \in Cards \union Refused
    BY <1>1, <1>2, WantCard
  <1>4. /\ slots'[i] = Want(sheet, i) /\ i < count' /\ count <= count'
        /\ \A j \in 0 .. capacity - 1 : j # i => slots'[j] = slots[j]
    BY <1>3, SetCardWrites DEF Write, RunInv
  <1>5. UNCHANGED <<sheet, seen, touched, pc>> /\ at' = at + 1
    BY DEF Write
  <1>6. Passed'
    <2> SUFFICES ASSUME NEW j \in 0 .. at PROVE Landed(j)'
      BY <1>1, <1>5 DEF Passed
    <2>1. CASE j = at
      BY <1>1, <1>4, <1>5, <2>1 DEF Landed, Want
    <2>2. CASE j # at
      BY <1>1, <1>2, <1>4, <1>5, <2>2 DEF Passed, Landed, Want
    <2> QED  BY <2>1, <2>2
  <1>7. Ahead'
    BY <1>1, <1>2, <1>4, <1>5 DEF Ahead
  <1>8. count' \in Nat
    BY DEF IInv, TypeOK
  <1> QED  BY <1>1, <1>2, <1>4, <1>5, <1>6, <1>7, <1>8 DEF RunInv

LEMMA RunNext ==
    ASSUME Declared = {0}, RunInv, [PubNext]_pubVars PROVE RunInv'
  <1>0. IInv' /\ Sheeted'
    BY PubStep, NextInv, SheetedNext DEF RunInv, Sheeted
  <1>1. ASSUME Setup \/ \E n \in 0 .. MaxSlots : Grow(n) PROVE RunInv'
    <2>1. count' = count /\ \A j \in 0 .. capacity - 1 : slots'[j] = slots[j]
      BY <1>1, GrowthKeeps DEF Setup, Grow, RunInv
    <2>2. UNCHANGED <<sheet, seen, at, touched, pc>>
      BY <1>1 DEF Setup, Grow, opVars
    <2>3. count <= count' /\ \A j \in 0 .. capacity - 1 : j \in touched' \/ slots'[j] = slots[j]
      BY <2>1 DEF RunInv, IInv, TypeOK
    <2>4. CASE Running
      BY <1>0, <2>2, <2>3, <2>4, OthersKeep DEF RunInv, Running
    <2>5. CASE ~Running
      BY <1>0, <2>2, <2>5 DEF RunInv, Running
    <2> QED  BY <2>4, <2>5
  <1>2. ASSUME NEW i \in Indices, NEW c \in Cards, Other(i, c) PROVE RunInv'
    <2>1. /\ count <= count'
          /\ \A j \in 0 .. capacity - 1 : j # i => slots'[j] = slots[j]
      BY <1>2, SetCardWrites DEF Other, RunInv
    <2>2. touched' = touched \union {i} /\ UNCHANGED <<sheet, seen, at, pc>>
      BY <1>2 DEF Other
    <2> QED  BY <1>0, <2>1, <2>2, OthersKeep DEF RunInv, Running
  <1>3. ASSUME NEW s \in Sheets, EditSheet(s) PROVE RunInv'
    BY <1>0, <1>3
    DEF EditSheet, RunInv, Running, Passed, Landed, Ahead, Want, vars
  <1>4. ASSUME NEW f \in Forces, StartPublish(f) PROVE RunInv'
    <2>1. at' = 0 /\ seen'.count = count /\ seen'.slots = slots
      BY <1>4 DEF StartPublish
    <2>2. UNCHANGED vars
      BY <1>4 DEF StartPublish
    <2> QED  BY <1>0, <2>1, <2>2
             DEF RunInv, IInv, TypeOK, Passed, Ahead, vars
  <1>5. ASSUME NEW i \in Indices, Write(i) PROVE RunInv'
    BY <1>0, <1>5, WriteLands
  <1>6. ASSUME NEW i \in Indices, Skip(i) PROVE RunInv'
    <2>1. /\ i = at /\ pc = "publishing" /\ i \in Nat /\ Running
          /\ i < seen.count /\ seen.slots[i] = Want(sheet, i)
      BY <1>6, ShelfAssumption DEF Skip, Sending, AlreadyPublished, Running
    <2>2. /\ at <= count /\ seen.count \in Nat /\ seen.count <= count
          /\ Passed /\ Ahead /\ count \in Nat
      BY <2>1 DEF RunInv, IInv, TypeOK
    <2>3. UNCHANGED <<vars, sheet, seen, touched, pc>> /\ at' = at + 1
      BY <1>6 DEF Skip
    <2>4. Landed(i)
      BY <2>1, <2>2 DEF Ahead, Landed
    <2>5. Passed'
      BY <2>1, <2>2, <2>3, <2>4 DEF Passed, Landed, Want, vars
    <2>6. Ahead'
      BY <2>1, <2>2, <2>3 DEF Ahead, vars
    <2> QED  BY <1>0, <2>1, <2>2, <2>3, <2>5, <2>6 DEF RunInv, vars
  <1>7. ASSUME \/ \E i \in Indices : BreakOff(i)
               \/ StopAtRefused \/ Verify
        PROVE  RunInv'
    BY <1>0, <1>7 DEF BreakOff, StopAtRefused, Verify, RunInv, Running
  <1>8. ASSUME FinishPublish \/ UNCHANGED pubVars PROVE RunInv'
    BY <1>0, <1>8
    DEF FinishPublish, pubVars, opVars, vars, RunInv, Running, Passed, Landed,
        Ahead, Want
  <1> QED
    BY <1>1, <1>2, <1>3, <1>4, <1>5, <1>6, <1>7, <1>8 DEF PubNext, Publish

\* Publishing without an error puts the whole sheet on the chain, whatever was
\* there, whoever else writes and however many runs broke off before.
THEOREM PublishLandsAlways == ASSUME Declared = {0} PROVE PubSpec => []PublishLands
  <1>1. PubInit => RunInv
    BY InitInv DEF PubInit, RunInv, Sheeted, Running
  <1>2. RunInv /\ [PubNext]_pubVars => RunInv'
    BY RunNext
  <1>3. RunInv => PublishLands
    BY DEF RunInv, Running, Passed, PublishLands
  <1> QED  BY <1>1, <1>2, <1>3, PTL DEF PubSpec

-----------------------------------------------------------------------------
(* What a run leaves wherever it is cut.  A send that failed may have      *)
(* landed, so the slot it was for may be of either sheet.                  *)

MixInv == IInv /\ Sheeted /\ at \in Nat /\ MixesOnlyTwo

\* A card of the run's sheet sent to the slot the run is at, whatever becomes
\* of the run then.
LEMMA SendMixes ==
    ASSUME MixInv, NEW i \in Indices, i = at, SetCard(i, Want(sheet, i)),
           UNCHANGED <<sheet, seen, touched>>, at' \in {at, at + 1}
    PROVE  MixesOnlyTwo'
  <1>1. /\ i \in Nat /\ at \in Nat /\ count \in Nat /\ capacity \in Nat
        /\ count <= capacity /\ IInv /\ sheet \in Sheets
    BY ShelfAssumption DEF MixInv, IInv, TypeOK, CountFits, Sheeted
  <1>2. Want(sheet, i) \in Cards \union Refused
    BY <1>1, WantCard
  <1>3. /\ slots'[i] = Want(sheet, i) /\ i <= count
        /\ \A j \in 0 .. capacity - 1 : j # i => slots'[j] = slots[j]
    BY <1>1, <1>2, SetCardWrites
  <1>4. count' = AtLeast(count, i + 1)
    BY DEF SetCard
  <1>5. ASSUME NEW j \in 0 .. count' - 1
        PROVE  \/ j \in touched'
               \/ j <= at' /\ slots'[j] = Want(sheet', j)
               \/ j >= at' /\ j < seen'.count /\ slots'[j] = seen'.slots[j]
    <2>1. CASE j = i
      BY <1>1, <1>3, <2>1 DEF Want
    <2>2. CASE j # i
      <3>1. j \in 0 .. count - 1 /\ j \in 0 .. capacity - 1
        BY <1>1, <1>3, <1>4, <2>2 DEF AtLeast
      <3>2. slots'[j] = slots[j]
        BY <1>3, <2>2, <3>1
      <3>3. \/ j \in touched
            \/ j <= at /\ slots[j] = Want(sheet, j)
            \/ j >= at /\ j < seen.count /\ slots[j] = seen.slots[j]
        BY <3>1 DEF MixInv, MixesOnlyTwo
      <3> QED  BY <1>1, <2>2, <3>1, <3>2, <3>3 DEF Want
    <2> QED  BY <2>1, <2>2
  <1> QED  BY <1>5 DEF MixesOnlyTwo

\* Where the shelf, the run and the history of others stay, so does the mix.
LEMMA QuietMixes ==
    ASSUME MixInv, UNCHANGED <<vars, sheet, seen, at, touched>>
    PROVE  MixesOnlyTwo'
  BY DEF MixInv, MixesOnlyTwo, Want, vars

LEMMA MixNext ==
    ASSUME Declared = {0}, MixInv, [PubNext]_pubVars PROVE MixInv'
  <1>0. IInv' /\ Sheeted'
    BY PubStep, NextInv, SheetedNext DEF MixInv, Sheeted
  <1>1. /\ at \in Nat /\ count \in Nat /\ capacity \in Nat /\ count <= capacity /\ IInv
    BY DEF MixInv, IInv, TypeOK, CountFits
  <1>2. ASSUME Setup \/ \E n \in 0 .. MaxSlots : Grow(n) PROVE MixInv'
    <2>1. count' = count /\ \A j \in 0 .. capacity - 1 : slots'[j] = slots[j]
      BY <1>1, <1>2, GrowthKeeps DEF Setup, Grow
    <2>2. UNCHANGED <<sheet, seen, at, touched>>
      BY <1>2 DEF Setup, Grow, opVars
    <2> QED  BY <1>0, <1>1, <2>1, <2>2 DEF MixInv, MixesOnlyTwo, Want
  <1>3. ASSUME NEW i \in Indices, NEW c \in Cards, Other(i, c) PROVE MixInv'
    <2>1. /\ i \in Nat /\ i <= count /\ count' = AtLeast(count, i + 1)
          /\ \A j \in 0 .. capacity - 1 : j # i => slots'[j] = slots[j]
      BY <1>1, <1>3, SetCardWrites, ShelfAssumption DEF Other, SetCard
    <2>2. touched' = touched \union {i} /\ UNCHANGED <<sheet, seen, at>>
      BY <1>3 DEF Other
    <2>3. ASSUME NEW j \in 0 .. count' - 1, j # i
          PROVE  j \in 0 .. count - 1 /\ slots'[j] = slots[j]
      BY <1>1, <2>1, <2>3 DEF AtLeast
    <2> QED  BY <1>0, <1>1, <2>2, <2>3 DEF MixInv, MixesOnlyTwo, Want
  <1>4. ASSUME NEW f \in Forces, StartPublish(f) PROVE MixInv'
    <2>1. at' = 0 /\ seen'.count = count /\ seen'.slots = slots /\ UNCHANGED vars
      BY <1>4 DEF StartPublish
    <2> QED  BY <1>0, <1>1, <2>1 DEF MixInv, MixesOnlyTwo, vars
  <1>5. ASSUME NEW i \in Indices, Write(i) \/ BreakOff(i) PROVE MixInv'
    <2>1. /\ i = at /\ UNCHANGED <<sheet, seen, touched>> /\ at' \in {at, at + 1}
          /\ SetCard(i, Want(sheet, i)) \/ UNCHANGED <<vars, at>>
      BY <1>5 DEF Write, BreakOff, Sending
    <2>2. MixesOnlyTwo'
      BY <2>1, SendMixes, QuietMixes
    <2> QED  BY <1>0, <1>1, <2>1, <2>2 DEF MixInv
  <1>6. ASSUME NEW i \in Indices, Skip(i) PROVE MixInv'
    <2>1. /\ i = at /\ i < seen.count /\ seen.slots[i] = Want(sheet, i)
          /\ at' = at + 1 /\ UNCHANGED <<vars, sheet, seen, touched>>
      BY <1>6 DEF Skip, Sending, AlreadyPublished
    <2> QED  BY <1>0, <1>1, <2>1 DEF MixInv, MixesOnlyTwo, Want, vars
  <1>7. CASE \/ \E s \in Sheets : EditSheet(s)
             \/ StopAtRefused \/ FinishPublish \/ Verify \/ UNCHANGED pubVars
    <2>1. UNCHANGED <<vars, sheet, seen, at, touched>>
      BY <1>7 DEF EditSheet, StopAtRefused, FinishPublish, Verify, pubVars, opVars
    <2> QED  BY <1>0, <1>1, <2>1, QuietMixes DEF MixInv
  <1> QED
    BY <1>2, <1>3, <1>4, <1>5, <1>6, <1>7 DEF PubNext, Publish

\* Cut wherever it may be, a run leaves the new sheet up to the card it was
\* sending and the shelf it found from there on, and nothing changes that but
\* other writers and the next run.
THEOREM MixesOnlyTwoAlways == ASSUME Declared = {0} PROVE PubSpec => []MixesOnlyTwo
  <1>1. PubInit => MixInv
    <2> SUFFICES ASSUME PubInit PROVE MixInv
      OBVIOUS
    <2>1. IInv /\ Sheeted /\ at = 0 /\ seen.count = count /\ seen.slots = slots
      BY InitInv DEF PubInit, Sheeted
    <2>2. count \in Nat
      BY <2>1 DEF IInv, TypeOK
    <2>3. MixesOnlyTwo
      BY <2>1, <2>2 DEF MixesOnlyTwo
    <2> QED  BY <2>1, <2>3 DEF MixInv
  <1>2. MixInv /\ [PubNext]_pubVars => MixInv'
    BY MixNext
  <1>3. MixInv => MixesOnlyTwo
    BY DEF MixInv
  <1> QED  BY <1>1, <1>2, <1>3, PTL DEF PubSpec

-----------------------------------------------------------------------------
(* What is for sale after such a run.  The run sends the slots up to the     *)
(* count it read, which is not the count it leaves: the invariant says that  *)
(* only others' writes can have put a slot on sale out of its reach.         *)

Counted == \A i \in 0 .. count - 1 : i < Goal \/ i \in touched

ReachInv ==
    /\ RunInv
    /\ Running => Counted
    /\ pc = "verifying" => at >= Goal

LEMMA GoalIsNat ==
    ASSUME Sheeted, seen.count \in Nat
    PROVE  Goal \in Nat /\ Goal >= seen.count /\ Goal >= Len(sheet) /\ Len(sheet) > 0
  <1>1. sheet \in Seq(Cards \union Refused) /\ sheet # <<>>
    BY PublisherAssumption DEF Sheeted
  <1>2. Len(sheet) \in Nat /\ Len(sheet) > 0
    BY <1>1
  <1> QED  BY <1>2 DEF Goal, AtLeast

\* Slots put on sale since the run began lie within its reach or are others'.
LEMMA StaysCounted ==
    ASSUME ReachInv, RunInv', Running, [PubNext]_pubVars, pc' # "idle",
           Declared = {0}
    PROVE  Counted'
  <1>1. /\ seen.count \in Nat /\ at \in Nat /\ count \in Nat /\ Counted
        /\ Goal \in Nat /\ Sheeted
    BY GoalIsNat DEF ReachInv, RunInv, IInv, TypeOK
  <1>2. ASSUME UNCHANGED <<sheet, seen, touched, count>> PROVE Counted'
    BY <1>1, <1>2 DEF Counted, Goal, AtLeast
  <1>3. CASE Setup \/ \E n \in 0 .. MaxSlots : Grow(n)
    <2>1. count' = count
      BY <1>3, GrowthKeeps DEF Setup, Grow, ReachInv, RunInv
    <2> QED  BY <1>2, <1>3, <2>1 DEF Setup, Grow, opVars
  <1>4. ASSUME NEW i \in Indices, NEW c \in Cards, Other(i, c) PROVE Counted'
    <2>1. /\ i \in Nat /\ i <= count /\ count' = AtLeast(count, i + 1)
          /\ touched' = touched \union {i} /\ UNCHANGED <<sheet, seen>>
      BY <1>4, ShelfAssumption DEF Other, SetCard
    <2>2. Goal' = Goal
      BY <2>1 DEF Goal
    <2> QED  BY <1>1, <2>1, <2>2 DEF Counted, AtLeast
  <1>5. ASSUME NEW i \in Indices, Write(i) PROVE Counted'
    <2>1. /\ i \in Nat /\ i <= count /\ count' = AtLeast(count, i + 1) /\ i < Goal
          /\ UNCHANGED <<sheet, seen, touched>>
      BY <1>5, ShelfAssumption DEF Write, Sending, SetCard
    <2>2. Goal' = Goal
      BY <2>1 DEF Goal
    <2> QED  BY <1>1, <2>1, <2>2 DEF Counted, AtLeast
  <1>6. CASE \/ \E s \in Sheets : EditSheet(s)
             \/ FinishPublish \/ Verify \/ UNCHANGED pubVars
             \/ \E i \in Indices : Skip(i)
    BY <1>2, <1>6 DEF EditSheet, FinishPublish, Verify, Skip, pubVars, opVars, vars
  <1>7. ~(\E f \in Forces : StartPublish(f)) /\ ~StopAtRefused
        /\ ~(\E i \in Indices : BreakOff(i))
    BY DEF StartPublish, StopAtRefused, BreakOff, Running
  <1> QED  BY <1>3, <1>4, <1>5, <1>6, <1>7 DEF PubNext, Publish

LEMMA ReachNext ==
    ASSUME Declared = {0}, ReachInv, [PubNext]_pubVars PROVE ReachInv'
  <1>1. RunInv'
    BY RunNext DEF ReachInv
  <1>2. ASSUME Running' PROVE Counted'
    <2>1. CASE Running
      BY <1>1, <1>2, <2>1, StaysCounted DEF Running
    <2>2. CASE ~Running
      <3>1. PICK f \in Forces : StartPublish(f)
        BY <1>2, <2>2
        DEF Running, PubNext, Publish, Setup, Grow, Other, EditSheet, StopAtRefused,
            FinishPublish, Skip, Write, Sending, BreakOff, Verify, pubVars, opVars
      <3>2. seen'.count = count /\ count' = count /\ count \in Nat
        BY <3>1 DEF StartPublish, vars, ReachInv, RunInv, IInv, TypeOK
      <3>3. Goal' \in Nat /\ Goal' >= count'
        <4>1. Sheeted' /\ seen'.count \in Nat
          BY <1>1, <3>2 DEF RunInv
        <4>2. Len(sheet') \in Nat
          BY <4>1, PublisherAssumption DEF Sheeted
        <4> QED  BY <3>2, <4>2 DEF Goal, AtLeast
      <3> QED  BY <3>2, <3>3 DEF Counted
    <2> QED  BY <2>1, <2>2
  <1>3. ASSUME pc' = "verifying" PROVE at' >= Goal'
    <2>1. CASE FinishPublish
      BY <2>1 DEF FinishPublish, Goal
    <2>2. CASE ~FinishPublish
      <3>1. pc = "verifying" /\ UNCHANGED <<at, sheet, seen>>
        BY <1>3, <2>2
        DEF PubNext, Publish, Setup, Grow, Other, EditSheet, StopAtRefused,
            StartPublish, Skip, Write, Sending, BreakOff, Verify, pubVars, opVars
      <3> QED  BY <3>1 DEF ReachInv, Goal
    <2> QED  BY <2>1, <2>2
  <1> QED  BY <1>1, <1>2, <1>3 DEF ReachInv

\* What a slot is to hold is always a card of the sheet.
LEMMA WantIsOfSheet ==
    ASSUME Sheeted, NEW i \in Nat PROVE \E j \in DOMAIN sheet : Want(sheet, i) = sheet[j]
  <1>1. sheet \in Seq(Cards \union Refused) /\ sheet # <<>>
    BY PublisherAssumption DEF Sheeted
  <1>2. Len(sheet) \in Nat /\ Len(sheet) > 0 /\ DOMAIN sheet = 1 .. Len(sheet)
    BY <1>1
  <1>3. CASE i < Len(sheet)
    <2>1. i + 1 \in DOMAIN sheet
      BY <1>2, <1>3
    <2> QED  BY <1>3, <2>1 DEF Want
  <1>4. CASE ~(i < Len(sheet))
    <2>1. Len(sheet) \in DOMAIN sheet
      BY <1>2
    <2> QED  BY <1>4, <2>1 DEF Want
  <1> QED  BY <1>3, <1>4

\* Whatever the shelf held, and however far past the sheet it reached, after a
\* run without an error nothing of an older sheet is for sale but what others
\* wrote meanwhile.
THEOREM NothingRetiredSellsAlways ==
    ASSUME Declared = {0} PROVE PubSpec => []NothingRetiredSells
  <1>1. PubInit => ReachInv
    BY InitInv DEF PubInit, ReachInv, RunInv, Sheeted, Running
  <1>2. ReachInv /\ [PubNext]_pubVars => ReachInv'
    BY ReachNext
  <1>3. ReachInv => NothingRetiredSells
    <2> SUFFICES ASSUME ReachInv, pc = "verifying", NEW i \in 0 .. count - 1, i \notin touched
                 PROVE  \E j \in DOMAIN sheet : slots[i] = sheet[j]
      BY DEF NothingRetiredSells
    <2>1. /\ Running /\ Passed /\ Counted /\ at >= Goal /\ Sheeted
          /\ at \in Nat /\ seen.count \in Nat /\ count \in Nat
      BY DEF ReachInv, RunInv, Running, IInv, TypeOK
    <2>2. i < Goal /\ Goal \in Nat
      BY <2>1, GoalIsNat DEF Counted
    <2>3. i \in 0 .. at - 1
      BY <2>1, <2>2
    <2>4. slots[i] = Want(sheet, i)
      BY <2>1, <2>3 DEF Passed, Landed
    <2> QED  BY <2>1, <2>4, WantIsOfSheet
  <1> QED  BY <1>1, <1>2, <1>3, PTL DEF PubSpec

-----------------------------------------------------------------------------
(* What verify finds after such a run: of Converges, everything but that the *)
(* runs come to their end, which is a matter of fairness.                    *)

\* All of the sheet is for sale, and a slot that is not what it wants is one
\* that somebody else wrote since the run read the shelf.
OnlyOthersDiffer ==
    pc = "verifying" =>
        /\ Len(sheet) <= count
        /\ \A i \in 0 .. count - 1 : Differs(slots[i], Want(sheet, i)) => i \in touched

LEMMA ReachedAgrees == ReachInv => OnlyOthersDiffer
  <1> SUFFICES ASSUME ReachInv, pc = "verifying" PROVE OnlyOthersDiffer
    BY DEF OnlyOthersDiffer
  <1>1. /\ Running /\ Passed /\ Counted /\ at >= Goal /\ Sheeted /\ at <= count
        /\ at \in Nat /\ seen.count \in Nat /\ count \in Nat
    BY DEF ReachInv, RunInv, Running, IInv, TypeOK
  <1>2. Goal \in Nat /\ Goal >= Len(sheet) /\ Len(sheet) \in Nat
    BY <1>1, GoalIsNat, PublisherAssumption DEF Sheeted
  <1>3. ASSUME NEW i \in 0 .. count - 1, i \notin touched PROVE slots[i] = Want(sheet, i)
    <2>1. i \in 0 .. at - 1
      BY <1>1, <1>2, <1>3 DEF Counted
    <2> QED  BY <1>1, <1>3, <2>1 DEF Passed, Landed
  <1>4. Len(sheet) <= count
    BY <1>1, <1>2
  <1> QED  BY <1>3, <1>4 DEF OnlyOthersDiffer, Differs

LEMMA ReachAlways == ASSUME Declared = {0} PROVE PubSpec => []ReachInv
  <1>1. PubInit => ReachInv
    BY InitInv DEF PubInit, ReachInv, RunInv, Sheeted, Running
  <1>2. ReachInv /\ [PubNext]_pubVars => ReachInv'
    BY ReachNext
  <1> QED  BY <1>1, <1>2, PTL DEF PubSpec

\* What verify lists after a run without an error is others' doing (main.rs
\* 375-422): the run left no slot of its own behind, of the sheet or past it.
THEOREM OnlyOthersDifferAlways ==
    ASSUME Declared = {0} PROVE PubSpec => []OnlyOthersDiffer
  <1> QED  BY ReachAlways, ReachedAgrees, PTL

\* A verify that follows a run of the file as it is, with nobody else writing,
\* ends the procedure: the operator is not sent back to publish for nothing.
VerifyEnds == Verify /\ sheet = file /\ touched = {} => pc' = "done"

THEOREM VerifyEndsAlways ==
    ASSUME Declared = {0} PROVE PubSpec => [][VerifyEnds]_pubVars
  <1>1. OnlyOthersDiffer => VerifyEnds
    BY DEF OnlyOthersDiffer, VerifyEnds, Verify, Matches
  <1> QED  BY <1>1, OnlyOthersDifferAlways, PTL

\* Once the chain matches the file it goes on matching it until the file is
\* edited or somebody else writes a card: publishing again, with --force or
\* breaking off anywhere, setting up again and growing the shelf undo nothing.
OthersWrite == \E i \in Indices, c \in Cards : Other(i, c)

KeepsMatching ==
    Matches(file) /\ (Running => sheet = file) /\ UNCHANGED file /\ ~OthersWrite
        => Matches(file)'

\* A card of the file sent to a shelf that matches it changes no slot.
LEMMA RewritesTheSame ==
    ASSUME ReachInv, Matches(file), sheet = file, NEW i \in Indices,
           Sending(i), SetCard(i, Want(sheet, i)), UNCHANGED file
    PROVE  Matches(file)'
  <1>1. /\ i \in Nat /\ i < Goal /\ Running /\ Sheeted /\ RunInv
        /\ seen.count \in Nat /\ seen.count <= count /\ count \in Nat
        /\ capacity \in Nat /\ count <= capacity
    BY ShelfAssumption
    DEF ReachInv, RunInv, Sending, Running, IInv, TypeOK, CountFits
  <1>2. Len(sheet) \in Nat /\ Len(sheet) <= count
    BY <1>1, PublisherAssumption DEF Sheeted, Matches
  <1>3. i < count
    BY <1>1, <1>2 DEF Goal, AtLeast
  <1>4. Want(sheet, i) \in Cards \union Refused
    BY <1>1, WantCard DEF Sheeted
  <1>5. /\ slots'[i] = Want(sheet, i)
        /\ \A j \in 0 .. capacity - 1 : j # i => slots'[j] = slots[j]
    BY <1>1, <1>4, SetCardWrites DEF RunInv
  <1>6. count' = count
    BY <1>1, <1>3 DEF SetCard, AtLeast
  <1>7. ASSUME NEW j \in 0 .. count - 1 PROVE slots'[j] = Want(file, j)
    <2>1. slots[j] = Want(file, j) /\ j \in 0 .. capacity - 1
      BY <1>1 DEF Matches, Differs
    <2> QED  BY <1>5, <2>1
  <1> QED  BY <1>6, <1>7 DEF Matches, Differs, Want

LEMMA StepKeepsMatching ==
    ASSUME Declared = {0}, ReachInv, [PubNext]_pubVars PROVE KeepsMatching
  <1> SUFFICES ASSUME Matches(file), Running => sheet = file, UNCHANGED file, ~OthersWrite
               PROVE  Matches(file)'
    BY DEF KeepsMatching
  <1>1. /\ IInv /\ count \in Nat /\ capacity \in Nat /\ count <= capacity
    BY DEF ReachInv, RunInv, IInv, TypeOK, CountFits
  <1>2. ASSUME UNCHANGED vars PROVE Matches(file)'
    BY <1>2 DEF Matches, Differs, Want, vars
  <1>3. CASE Setup \/ \E n \in 0 .. MaxSlots : Grow(n)
    <2>1. count' = count /\ \A j \in 0 .. capacity - 1 : slots'[j] = slots[j]
      BY <1>1, <1>3, GrowthKeeps DEF Setup, Grow
    <2> QED  BY <1>1, <2>1 DEF Matches, Differs, Want
  <1>4. ASSUME NEW i \in Indices, Write(i) \/ BreakOff(i) PROVE Matches(file)'
    <2>1. Sending(i) /\ Running /\ (SetCard(i, Want(sheet, i)) \/ UNCHANGED vars)
      BY <1>4 DEF Write, BreakOff, Sending, Running
    <2> QED  BY <1>2, <2>1, RewritesTheSame
  <1>5. CASE \/ \E s \in Sheets : EditSheet(s)
             \/ \E f \in Forces : StartPublish(f)
             \/ StopAtRefused \/ FinishPublish \/ Verify \/ UNCHANGED pubVars
             \/ \E i \in Indices : Skip(i)
    BY <1>2, <1>5
    DEF EditSheet, StartPublish, StopAtRefused, FinishPublish, Verify, Skip, pubVars
  <1> QED  BY <1>3, <1>4, <1>5 DEF PubNext, Publish, OthersWrite

THEOREM KeepsMatchingAlways ==
    ASSUME Declared = {0} PROVE PubSpec => [][KeepsMatching]_pubVars
  <1>1. ReachInv /\ [PubNext]_pubVars => KeepsMatching
    BY StepKeepsMatching
  <1> QED  BY <1>1, ReachAlways, PTL DEF PubSpec
=============================================================================
