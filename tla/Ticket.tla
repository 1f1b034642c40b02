------------------------------- MODULE Ticket -------------------------------
(***************************************************************************)
(* What the program promises a player, without receipts, generations,      *)
(* randomness requests or transactions: a ticket is sold under printed     *)
(* terms, drawn once, paid once for what it drew, and only a paid ticket   *)
(* makes room for the next.  ScratchCards implements this specification.   *)
(*                                                                         *)
(* A transaction may serve several players, and may pay one player's       *)
(* ticket and sell the next, so one step moves any number of tickets.      *)
(***************************************************************************)
EXTENDS Naturals

CONSTANTS
    Users,     \* players
    Terms,     \* terms a ticket may be sold under
    NoTerms,   \* the terms of a ticket older than printed terms
    Seeds,     \* what may be drawn
    NoSeed     \* nothing drawn yet

VARIABLES
    ticket,    \* the ticket each player holds
    sold,      \* how many tickets each player has had
    paid       \* which of them were paid

ticketVars == <<ticket, sold, paid>>

Nobody == [n |-> 0, stage |-> "none", terms |-> NoTerms, seed |-> NoSeed]
Fresh(n, t) == [n |-> n, stage |-> "sold", terms |-> t, seed |-> NoSeed]
Drawn(old, s) == [n |-> old.n, stage |-> "drawn", terms |-> old.terms, seed |-> s]

\* A player starts with nothing or with a ticket of an earlier build.
Init ==
    \A u \in Users :
      \/ /\ ticket[u] = Nobody
         /\ sold[u] = 0 /\ paid[u] = {}
      \/ /\ ticket[u].n = 1 /\ sold[u] = 1
         /\ \/ ticket[u].stage = "sold" /\ paid[u] = {}
            \/ ticket[u].stage = "drawn" /\ paid[u] = {}
            \/ ticket[u].stage = "paid" /\ paid[u] = {1}

Sell(u) ==
    /\ ticket[u].stage \in {"none", "paid"}
    /\ \E t \in Terms : ticket'[u] = Fresh(sold[u] + 1, t)
    /\ sold'[u] = sold[u] + 1
    /\ paid'[u] = paid[u]

Draw(u) ==
    /\ ticket[u].stage = "sold"
    /\ \E s \in Seeds : ticket'[u] = Drawn(ticket[u], s)
    /\ sold'[u] = sold[u] /\ paid'[u] = paid[u]

Pay(u) ==
    /\ ticket[u].stage = "drawn"
    /\ ticket'[u] = [ticket[u] EXCEPT !.stage = "paid"]
    /\ sold'[u] = sold[u]
    /\ paid'[u] = paid[u] \cup {ticket[u].n}

PayAndSell(u) ==
    /\ ticket[u].stage = "drawn"
    /\ \E t \in Terms : ticket'[u] = Fresh(sold[u] + 1, t)
    /\ sold'[u] = sold[u] + 1
    /\ paid'[u] = paid[u] \cup {ticket[u].n}

\* The operator takes a ticket away.
Void(u) ==
    /\ ticket[u].stage # "none"
    /\ ticket'[u] = Nobody
    /\ sold'[u] = sold[u] /\ paid'[u] = paid[u]

Stay(u) == ticket'[u] = ticket[u] /\ sold'[u] = sold[u] /\ paid'[u] = paid[u]

Next ==
    \A u \in Users :
      Sell(u) \/ Draw(u) \/ Pay(u) \/ PayAndSell(u) \/ Void(u) \/ Stay(u)

Spec == Init /\ [][Next]_ticketVars
=============================================================================
