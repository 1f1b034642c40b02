----------------------------- MODULE StraysProofs ----------------------------
(***************************************************************************)
(* Of Strays, for every set of players and relics, every part of them the  *)
(* admin can read and every number of purchases: a run is refused only     *)
(* over a card of today, never over one closed already, and a run that met *)
(* no refusal and lost no send left nothing.                               *)
(***************************************************************************)
EXTENDS Strays, TLAPS

-----------------------------------------------------------------------------
(* Shape *)

\* An account of the program's seed is a card, and what List takes down is
\* readable: the shapes TypeOK names are kept by every step.
THEOREM StraysTypes == Spec => []TypeOK
<1>1. Init => TypeOK
  <2> SUFFICES ASSUME Init PROVE TypeOK
    OBVIOUS
  <2>1. buys \in 0 .. MaxBuys
    BY StraysAssumption DEF Init
  <2>2. listed \subseteq Readable /\ found \subseteq Readable
        /\ closed \subseteq [reached : BOOLEAN, card : Card]
    BY DEF Init
  <2> QED BY <2>1, <2>2 DEF Init, TypeOK
<1>2. TypeOK /\ [Next]_vars => TypeOK'
  <2> SUFFICES ASSUME TypeOK, [Next]_vars
               PROVE  TypeOK'
    OBVIOUS
  <2> USE StraysAssumption DEF TypeOK
  <2>1. ASSUME NEW a \in Addresses, Close(a)
        PROVE  /\ cards' \in [Addresses -> Card]
               /\ closed' \subseteq [reached : BOOLEAN, card : Card]
    <3>1. NoCard \in Card /\ cards[a] \in Card
      BY DEF NoCard, Card, Layouts
    <3>2. [reached |-> a \in Players, card |-> cards[a]] \in [reached : BOOLEAN, card : Card]
      BY <3>1
    <3> QED BY <2>1, <3>1, <3>2 DEF Close
  <2>2. ASSUME NEW p \in Players, Collect(p)
        PROVE  TypeOK'
    <3>1. p \in Addresses /\ [cards[p] EXCEPT !.paid = TRUE] \in Card
      BY DEF Addresses, Card
    <3> QED BY <2>2, <3>1 DEF Collect
  <2>3. ASSUME NEW p \in Players, Buy(p)
        PROVE  TypeOK'
    <3>1. [layout |-> "full", paid |-> FALSE] \in Card
      BY DEF Card, Layouts
    <3>2. buys + 1 \in 0 .. MaxBuys
      BY <2>3 DEF Buy
    <3> QED BY <2>3, <3>1, <3>2 DEF Buy, Addresses
  <2>4. CASE List
    BY <2>4 DEF List, Strays, OldCards
  <2>5. ASSUME NEW a \in Addresses, Send(a)
        PROVE  TypeOK'
    BY <2>1, <2>5 DEF Send
  <2>6. ASSUME NEW a \in Addresses, Refusal(a)
        PROVE  TypeOK'
    BY <2>6 DEF Refusal
  <2>7. ASSUME NEW a \in Addresses, LoseSend(a)
        PROVE  TypeOK'
    BY <2>1, <2>7 DEF LoseSend
  <2>8. CASE UNCHANGED vars
    BY <2>8 DEF vars
  <2> QED BY <2>2, <2>3, <2>4, <2>5, <2>6, <2>7, <2>8 DEF Next
<1> QED BY <1>1, <1>2, PTL DEF Spec

-----------------------------------------------------------------------------
(* What ends a run *)

\* What is at an address the program does not derive was never made by it.
RelicsOld == \A x \in Relics : cards[x].layout \in {"none", "stub", "short"}

\* A listing is acted on long after it was read, and players act meanwhile; but
\* all they can do to a card on it is to turn it into a card of today, and only
\* a send, which takes it off the list, makes it nothing.  A card of today at a
\* player's address stays one.
THEOREM StraysStoppedOnlyByToday == Spec => []StoppedOnlyByToday
<1>1. Init => RelicsOld /\ StoppedOnlyByToday
  BY DEF Init, RelicsOld, StoppedOnlyByToday, Addresses
<1>2. TypeOK /\ RelicsOld /\ StoppedOnlyByToday /\ [Next]_vars => (RelicsOld /\ StoppedOnlyByToday)'
  <2> SUFFICES ASSUME TypeOK, RelicsOld, StoppedOnlyByToday, [Next]_vars
               PROVE  (RelicsOld /\ StoppedOnlyByToday)'
    OBVIOUS
  <2> USE DEF RelicsOld, StoppedOnlyByToday
  <2>1. /\ Readable \subseteq Addresses /\ Players \cap Relics = {}
        /\ \A x \in Addresses : x \in Players \/ x \in Relics
        /\ listed \subseteq Addresses /\ listed \subseteq Readable
        /\ \A x \in Addresses : cards[x].layout \in Layouts
    BY StraysAssumption DEF Addresses, TypeOK, Card
  <2>2. ASSUME NEW p \in Players, Collect(p)
        PROVE  (RelicsOld /\ StoppedOnlyByToday)'
    <3>1. \A x \in Addresses : cards'[x].layout = cards[x].layout
      BY <2>2 DEF Collect, TypeOK, Addresses, Card
    <3>2. UNCHANGED <<listed, refused>>
      BY <2>2 DEF Collect
    <3> QED BY <2>1, <3>1, <3>2 DEF Addresses
  <2>3. ASSUME NEW p \in Players, Buy(p)
        PROVE  (RelicsOld /\ StoppedOnlyByToday)'
    <3>1. \A x \in Addresses : cards'[x].layout = IF x = p THEN "full" ELSE cards[x].layout
      BY <2>3 DEF Buy, TypeOK, Addresses
    <3>2. UNCHANGED <<listed, refused>>
      BY <2>3 DEF Buy
    <3> QED BY <2>1, <3>1, <3>2 DEF Addresses
  <2>4. CASE List
    <3>1. \A x \in listed' : x \in Readable /\ cards[x].layout \notin {"none", "terms"}
      BY <2>4 DEF List, Strays
    <3>2. UNCHANGED cards /\ ~refused'
      BY <2>4 DEF List
    <3>3. \A x \in listed' : \/ cards[x].layout \in {"stub", "short"}
                             \/ x \in Players /\ cards[x].layout = "full"
      BY <2>1, <3>1 DEF Layouts
    <3> QED BY <3>2, <3>3
  <2>5. ASSUME NEW a \in Addresses, ~Refuses(cards[a]), Close(a), refused' = refused
        PROVE  /\ RelicsOld'
               /\ \A x \in Addresses : x # a => cards'[x] = cards[x]
               /\ refused' => \E p \in Players \cap Readable : cards'[p].layout = "full"
    <3>1. \A x \in Addresses : cards'[x] = IF x = a THEN NoCard ELSE cards[x]
      BY <2>5 DEF Close, TypeOK
    <3>2. cards[a].layout # "full"
      BY <2>5 DEF Refuses
    <3>3. NoCard.layout = "none"
      BY DEF NoCard
    <3>4. RelicsOld'
      BY <3>1, <3>3 DEF Addresses
    <3>5. refused' => \E p \in Players \cap Readable : cards'[p].layout = "full"
      BY <2>1, <2>5, <3>1, <3>2 DEF Addresses
    <3> QED BY <3>1, <3>4, <3>5
  <2>6. ASSUME NEW a \in Addresses, Send(a)
        PROVE  (RelicsOld /\ StoppedOnlyByToday)'
    <3>1. listed' = listed \ {a} /\ refused' = refused /\ ~Refuses(cards[a]) /\ Close(a)
      BY <2>6 DEF Send
    <3> QED BY <2>1, <2>5, <3>1
  <2>7. ASSUME NEW a \in Addresses, Refusal(a)
        PROVE  (RelicsOld /\ StoppedOnlyByToday)'
    <3>1. a \in listed /\ cards[a].layout \notin {"stub", "short"} /\ listed' = {} /\ UNCHANGED cards
      BY <2>7 DEF Refusal, Refuses
    <3> QED BY <2>1, <3>1
  <2>8. ASSUME NEW a \in Addresses, LoseSend(a)
        PROVE  (RelicsOld /\ StoppedOnlyByToday)'
    <3>1. listed' = {} /\ refused' = refused
      BY <2>8 DEF LoseSend
    <3>2. CASE UNCHANGED cards
      BY <3>1, <3>2
    <3>3. CASE ~Refuses(cards[a]) /\ Close(a)
      BY <2>5, <3>1, <3>3
    <3> QED BY <2>8, <3>2, <3>3 DEF LoseSend
  <2>9. CASE UNCHANGED vars
    BY <2>9 DEF vars
  <2> QED BY <2>2, <2>3, <2>4, <2>6, <2>7, <2>8, <2>9 DEF Next
<1> QED BY <1>1, <1>2, StraysTypes, PTL DEF Spec

-----------------------------------------------------------------------------
(* What is left *)

\* Until a send is refused or lost, an old card the run found is still on its
\* list, or is gone, or its player bought anew in its place.
Covered ==
    ~lost /\ ~refused =>
        /\ ~running => listed = {}
        /\ \A a \in found : a \in listed \/ cards[a].layout \in {"none", "full"}

\* One listing is enough: nothing the players do between it and the last send
\* leaves an old card behind.
THEOREM StraysCleared == Spec => []ClearsWhatItFound
<1>1. Init => Covered
  BY DEF Init, Covered
<1>2. TypeOK /\ Covered /\ [Next]_vars => Covered'
  <2> SUFFICES ASSUME TypeOK, Covered, [Next]_vars
               PROVE  Covered'
    OBVIOUS
  <2> USE DEF TypeOK, Covered
  <2>1. ASSUME NEW p \in Players, Collect(p)
        PROVE  Covered'
    <3>1. \A a \in Addresses : cards'[a].layout = cards[a].layout
      BY <2>1 DEF Collect, Addresses, Card
    <3>2. found \subseteq Addresses
      BY StraysAssumption DEF Addresses
    <3> QED BY <2>1, <3>1, <3>2 DEF Collect
  <2>2. ASSUME NEW p \in Players, Buy(p)
        PROVE  Covered'
    <3>1. found \subseteq Addresses /\ p \in Addresses
      BY StraysAssumption DEF Addresses
    <3>2. \A a \in Addresses : cards'[a].layout \in {cards[a].layout, "full"}
      BY <2>2, <3>1 DEF Buy
    <3> QED BY <2>2, <3>1, <3>2 DEF Buy
  <2>3. CASE List
    BY <2>3 DEF List, Strays, OldCards
  <2>4. ASSUME NEW a \in Addresses, Send(a)
        PROVE  Covered'
    <3>1. found \subseteq Addresses
      BY StraysAssumption DEF Addresses
    <3>2. \A b \in Addresses : cards'[b] = IF b = a THEN NoCard ELSE cards[b]
      BY <2>4 DEF Send, Close
    <3>3. UNCHANGED <<found, lost, refused>> /\ listed' = listed \ {a}
      BY <2>4 DEF Send
    <3>4. \A b \in found : b \in listed => b \in listed' \/ cards'[b].layout = "none"
      BY <3>1, <3>2, <3>3 DEF NoCard
    <3>5. \A b \in found : cards[b].layout \in {"none", "full"} => cards'[b].layout \in {"none", "full"}
      BY <3>1, <3>2 DEF NoCard
    <3>6. ~running' => listed' = {}
      BY <2>4 DEF Send
    <3> QED BY <3>3, <3>4, <3>5, <3>6
  <2>5. ASSUME NEW a \in Addresses, Refusal(a)
        PROVE  Covered'
    BY <2>5 DEF Refusal
  <2>6. ASSUME NEW a \in Addresses, LoseSend(a)
        PROVE  Covered'
    BY <2>6 DEF LoseSend
  <2>7. CASE UNCHANGED vars
    BY <2>7 DEF vars
  <2> QED BY <2>1, <2>2, <2>3, <2>4, <2>5, <2>6, <2>7 DEF Next
<1>3. Covered => ClearsWhatItFound
  BY DEF Covered, ClearsWhatItFound
<1> QED BY <1>1, <1>2, <1>3, StraysTypes, PTL DEF Spec
=============================================================================
