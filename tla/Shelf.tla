-------------------------------- MODULE Shelf --------------------------------
(***************************************************************************)
(* The config account: the shelf the program sells cards from.  It is a    *)
(* header with the count of published cards, then one slot per card the    *)
(* account has room for, and it holds the rent its size asks for.          *)
(*                                                                         *)
(* An instruction that fails leaves the account as it was, so a refusal is *)
(* a guard here.  Slots are numbered from 0, as the program numbers them.  *)
(***************************************************************************)
EXTENDS Naturals

CONSTANTS
    Cards,          \* what SetCard::validate accepts
    Refused,        \* and what it does not
    Zeroed,         \* what a slot holds before it is written
    INITIAL_CARDS,  \* the size a shelf starts at
    HeaderRent,     \* the rent of an account without slots, in slots' rents
    Declared,       \* the card counts Initialize is called with
    Indices,        \* the card indices an instruction can carry (a byte)
    CarriedSizes,   \* sizes of shelves an earlier program left
    MaxSlots        \* bound: how far GrowConfig grows the shelf

ASSUME ShelfAssumption ==
    /\ Zeroed \notin Cards
    /\ Cards \cap Refused = {}
    /\ INITIAL_CARDS \in Nat /\ HeaderRent \in Nat /\ MaxSlots \in Nat
    /\ Declared \subseteq Nat /\ Indices \subseteq Nat /\ CarriedSizes \subseteq Nat

VARIABLES
    made,       \* the account exists
    capacity,   \* slots it has room for
    slots,      \* what each holds
    count,      \* the header's count: cards below it are for sale
    funds       \* lamports of the account, in slots' rents

vars == <<made, capacity, slots, count, funds>>

MinBalance(n) == HeaderRent + n
AtLeast(a, b) == IF a < b THEN b ELSE a

\* AccountInfo::resize: what is kept keeps its place, what is new is zeroes.
Resized(s, old, new) == [i \in 0 .. new - 1 |-> IF i < old THEN s[i] ELSE Zeroed]

TypeOK ==
    /\ made \in BOOLEAN
    /\ capacity \in Nat
    /\ slots \in [0 .. capacity - 1 -> Cards \union {Zeroed}]
    /\ count \in Nat
    /\ funds \in Nat

-----------------------------------------------------------------------------

Nothing ==
    /\ made = FALSE /\ capacity = 0 /\ count = 0 /\ funds = 0
    /\ slots = [i \in 0 .. capacity - 1 |-> Zeroed]

\* What an earlier program left: every card below the count written.
CarriedOver ==
    /\ made = TRUE
    /\ capacity \in CarriedSizes
    /\ count \in 0 .. capacity
    /\ slots \in [0 .. capacity - 1 -> Cards \union {Zeroed}]
    /\ \A i \in 0 .. capacity - 1 : slots[i] = Zeroed <=> i >= count
    /\ funds = MinBalance(capacity)

Init == Nothing \/ CarriedOver

\* The shelf takes n slots, with the rent they ask for.
ResizeTo(n) ==
    /\ capacity' = n
    /\ funds' = AtLeast(funds, MinBalance(n))

\* mutant: the count declared replaces the one there was
InitializeResets(n) ==
    LET size == AtLeast(capacity, INITIAL_CARDS)
    IN  /\ n <= size
        /\ made' = TRUE
        /\ ResizeTo(size)
        /\ slots' = Resized(slots, capacity, size)
        /\ count' = n

\* mutant: a shelf that has grown is cut back
InitializeShrinks(n) ==
    LET size == INITIAL_CARDS
    IN  /\ n <= size
        /\ made' = TRUE
        /\ ResizeTo(size)
        /\ slots' = Resized(slots, capacity, size)
        /\ count' = AtLeast(count, n)

\* Initialize: creates the shelf or grows a short one, never shrinks it, and
\* refuses a count there is no room for; the count only rises.
Initialize(n) ==
    LET size == AtLeast(capacity, INITIAL_CARDS)
    IN  /\ n <= size
        /\ made' = TRUE
        /\ ResizeTo(size)
        /\ slots' = Resized(slots, capacity, size)
        /\ count' = AtLeast(count, n)

\* mutant: the check on the index is off by one
SetCardGap(i, c) ==
    /\ made
    /\ c \notin Refused
    /\ i <= count + 1
    /\ LET size == AtLeast(capacity, i + 1)
       IN  /\ ResizeTo(size)
           /\ slots' = [Resized(slots, capacity, size) EXCEPT ![i] = c]
    /\ count' = AtLeast(count, i + 1)
    /\ UNCHANGED made

\* mutant: the account grows without its rent
SetCardNoRent(i, c) ==
    /\ made
    /\ c \notin Refused
    /\ i <= count
    /\ capacity' = AtLeast(capacity, i + 1)
    /\ slots' = [Resized(slots, capacity, capacity') EXCEPT ![i] = c]
    /\ count' = AtLeast(count, i + 1)
    /\ UNCHANGED <<made, funds>>

\* SetCard: overwrite a published card or append the next, growing the shelf
\* by one slot where the next has none, then publish it.
SetCard(i, c) ==
    /\ made
    /\ c \notin Refused
    /\ i <= count
    /\ LET size == AtLeast(capacity, i + 1)
       IN  /\ ResizeTo(size)
           /\ slots' = [Resized(slots, capacity, size) EXCEPT ![i] = c]
    /\ count' = AtLeast(count, i + 1)
    /\ UNCHANGED made

\* GrowConfig: more room, nothing in it.
GrowConfig(n) ==
    /\ made
    /\ n \in capacity + 1 .. MaxSlots
    /\ ResizeTo(n)
    /\ slots' = Resized(slots, capacity, n)
    /\ UNCHANGED <<made, count>>

Next ==
    \/ \E n \in Declared : Initialize(n)
    \/ \E i \in Indices, c \in Cards \union Refused : SetCard(i, c)
    \/ \E n \in 0 .. MaxSlots : GrowConfig(n)

Spec == Init /\ [][Next]_vars

-----------------------------------------------------------------------------
(* What must hold *)

\* The count never passes the slots there are: a purchase or a deal of any
\* index below the count reads a slot of the account, whatever was declared,
\* grown and appended in whatever order (initialize.rs 129, set_card.rs 224).
CountFits == count <= capacity

\* No card is for sale that nobody wrote: every slot below the count holds a
\* card SetCard accepted (set_card.rs 219, "never leave a gap, which would
\* publish zeroed cards").
PublishedWritten == \A i \in 0 .. capacity - 1 : i < count => slots[i] \in Cards

\* The account holds the rent of the size it has, through every growth, or
\* the runtime would refuse the transaction that grows it.
RentPaid == made => funds >= MinBalance(capacity)

\* The shelf as its buyers see it.
Published == [i \in 0 .. count - 1 |-> slots[i]]
List == INSTANCE CardList WITH size <- count, list <- Published

\* Whatever the operator does to the account, its buyers see a list without
\* gaps of real cards, overwritten or appended one at a time and never
\* shortened: a card once for sale at an index stays for sale at it.
KeepsTheList == List!Spec
=============================================================================
