------------------------------ MODULE Publisher ------------------------------
(***************************************************************************)
(* The operator's publish and verify over the shelf: the card sheet of a   *)
(* file put on the chain one SetCard at a time, every slot past the sheet  *)
(* rewritten as a copy of its last card, and every slot compared again     *)
(* afterwards.  The runbook's procedure is the loop: publish, verify, and  *)
(* publish again until verify says the chain matches the sheet.            *)
(*                                                                         *)
(* A send that fails stops the run; by then its SetCard landed or will     *)
(* never land.  Others with the ops key write the shelf too.               *)
(***************************************************************************)
EXTENDS Shelf, Sequences

CONSTANTS
    Sheets,     \* what the file may hold: sequences of cards
    Forces,     \* whether runs are started with --force
    MaxEdits,   \* bound: edits of the file
    MaxOthers   \* bound: cards others write

\* No sheet is empty, nor longer than the indices a byte can carry.
ASSUME PublisherAssumption ==
    \A s \in Sheets : /\ s \in Seq(Cards \union Refused)
                      /\ s # <<>>
                      /\ Len(s) - 1 \in Indices

VARIABLES
    file,       \* tools/sheet/cards.json
    pc,         \* idle, publishing, verifying or done
    sheet,      \* the cards the run loaded
    force,
    seen,       \* the count and the slots it read before its first card;
                \* before the first run of all, the shelf as it was
    at,         \* the slot it sends next
    touched,    \* history: the slots others wrote since that read
    edits, others

opVars == <<file, pc, sheet, force, seen, at, touched, edits, others>>
pubVars == <<vars, opVars>>

\* What slot i holds when sheet s is published: past the sheet, its last card.
Want(s, i) == IF i < Len(s) THEN s[i + 1] ELSE s[Len(s)]

\* mutant: the slots past the sheet are left
GoalOfSheet == Len(sheet)

\* mutant: the loop over them ends one short
GoalShort == AtLeast(Len(sheet), seen.count - 1)

\* publish's two loops, one after the other.
Goal == AtLeast(Len(sheet), seen.count)

PubInit ==
    /\ Init
    /\ file \in Sheets
    /\ pc = "idle"
    /\ sheet = file
    /\ force = FALSE
    /\ seen = [count |-> count, slots |-> slots]
    /\ at = 0
    /\ touched = {}
    /\ edits = 0 /\ others = 0

\* setup, which comes first and may come again, declares no cards.
Setup ==
    /\ Initialize(0)
    /\ UNCHANGED opVars

Grow(n) ==
    /\ GrowConfig(n)
    /\ UNCHANGED opVars

\* Somebody else with the ops key writes a card.
Other(i, c) ==
    /\ others < MaxOthers
    /\ SetCard(i, c)
    /\ touched' = touched \union {i}
    /\ others' = others + 1
    /\ UNCHANGED <<file, pc, sheet, force, seen, at, edits>>

\* The sheet changes, and what is on the chain has to follow it.
EditSheet(s) ==
    /\ edits < MaxEdits
    /\ file' = s
    /\ edits' = edits + 1
    /\ pc' = IF pc = "done" THEN "idle" ELSE pc
    /\ UNCHANGED <<vars, sheet, force, seen, at, touched, others>>

\* publish: the file loaded and the shelf read, once.
StartPublish(f) ==
    /\ pc = "idle"
    /\ made
    /\ sheet' = file
    /\ force' = f
    /\ seen' = [count |-> count, slots |-> slots]
    /\ at' = 0
    /\ touched' = {}
    /\ pc' = "publishing"
    /\ UNCHANGED <<vars, file, edits, others>>

\* mutant: a slot below the count counts as published
AlreadyCounted(i) == ~force /\ i < seen.count

AlreadyPublished(i) ==
    /\ ~force
    /\ i < seen.count
    /\ seen.slots[i] = Want(sheet, i)

Sending(i) ==
    /\ pc = "publishing"
    /\ at = i
    /\ i < Goal
    /\ Want(sheet, i) \notin Refused

\* The program would refuse the card: the run stops there.
StopAtRefused ==
    /\ pc = "publishing"
    /\ at < Goal
    /\ Want(sheet, at) \in Refused
    /\ pc' = "idle"
    /\ UNCHANGED <<vars, file, sheet, force, seen, at, touched, edits, others>>

Skip(i) ==
    /\ Sending(i)
    /\ AlreadyPublished(i)
    /\ at' = at + 1
    /\ UNCHANGED <<vars, file, pc, sheet, force, seen, touched, edits, others>>

Write(i) ==
    /\ Sending(i)
    /\ ~AlreadyPublished(i)
    /\ SetCard(i, Want(sheet, i))
    /\ at' = at + 1
    /\ UNCHANGED <<file, pc, sheet, force, seen, touched, edits, others>>

\* mutant: sends overlap, and the one behind the failed one may land
BreakOffBehind(i) ==
    /\ Sending(i)
    /\ ~AlreadyPublished(i)
    /\ \/ \E j \in {i, i + 1} : SetCard(j, Want(sheet, j))
       \/ UNCHANGED vars
    /\ pc' = "idle"
    /\ UNCHANGED <<file, sheet, force, seen, at, touched, edits, others>>

\* The send fails, and the run with it.
BreakOff(i) ==
    /\ Sending(i)
    /\ ~AlreadyPublished(i)
    /\ SetCard(i, Want(sheet, i)) \/ UNCHANGED vars
    /\ pc' = "idle"
    /\ UNCHANGED <<file, sheet, force, seen, at, touched, edits, others>>

FinishPublish ==
    /\ pc = "publishing"
    /\ at >= Goal
    /\ pc' = "verifying"
    /\ UNCHANGED <<vars, file, sheet, force, seen, at, touched, edits, others>>

\* A card on the chain and the one wanted: every field is compared, and every
\* byte besides.
Differs(chain, want) == chain # want

\* verify: no slot below the count or within the sheet differs.
Matches(s) ==
    /\ Len(s) <= count
    /\ \A i \in 0 .. count - 1 : ~Differs(slots[i], Want(s, i))

Verify ==
    /\ pc = "verifying"
    /\ pc' = IF Matches(file) THEN "done" ELSE "idle"
    /\ UNCHANGED <<vars, file, sheet, force, seen, at, touched, edits, others>>

Publish ==
    \/ StopAtRefused \/ FinishPublish
    \/ \E i \in Indices : Skip(i) \/ Write(i)

PubNext ==
    \/ Setup
    \/ \E n \in 0 .. MaxSlots : Grow(n)
    \/ \E i \in Indices, c \in Cards : Other(i, c)
    \/ \E s \in Sheets : EditSheet(s)
    \/ \E f \in Forces : StartPublish(f)
    \/ Publish
    \/ \E i \in Indices : BreakOff(i)
    \/ Verify

PubSpec == PubInit /\ [][PubNext]_pubVars

\* The operator sets the shelf up and follows the procedure to its end, and a
\* card that is sent again and again is not lost every time.
Diligence ==
    /\ WF_pubVars(Setup /\ ~made)
    /\ WF_pubVars(\E f \in Forces : StartPublish(f))
    /\ WF_pubVars(Publish)
    /\ WF_pubVars(Verify)
    /\ \A i \in Indices : SF_pubVars(Write(i))

FairPubSpec == PubSpec /\ Diligence

-----------------------------------------------------------------------------
(* What must hold *)

Landed(i) == i \in touched \/ slots[i] = Want(sheet, i)

\* A run that reports no error has put its whole sheet on the chain: every
\* slot it passed, written or skipped on the strength of one old read, holds
\* what the sheet says unless somebody else wrote it since (main.rs 276, 291).
PublishLands ==
    pc \in {"publishing", "verifying"} => \A i \in 0 .. at - 1 : Landed(i)

\* After it nothing of an older sheet is for sale: "A retired slot must not
\* keep selling its old card" (main.rs 297), whatever the shelf held before.
NothingRetiredSells ==
    pc = "verifying" =>
        \A i \in 0 .. count - 1 : i \in touched \/ \E j \in DOMAIN sheet : slots[i] = sheet[j]

\* However often a run breaks off in the middle, publishing again ends with
\* the chain matching the file, as long as the program accepts its cards and
\* nobody else wrote one behind the last run's back, --force given or not.
Converges ==
    <>[](\/ Matches(file)
         \/ \E i \in DOMAIN file : file[i] \in Refused
         \/ touched # {})

\* A run stopped between two cards leaves no more than two sheets: up to the
\* one card whose send failed every slot sells what the new sheet says, from it
\* on what it sold when the run began, and only others' writes are anything
\* else.  So it stays until the next run, however the file, the room and the
\* setup change meanwhile, and no run leaves a card of neither (main.rs
\* 280-311, which goes through the slots in order and stops at the first error).
MixesOnlyTwo ==
    \A i \in 0 .. count - 1 :
        \/ i \in touched
        \/ i <= at /\ slots[i] = Want(sheet, i)
        \/ i >= at /\ i < seen.count /\ slots[i] = seen.slots[i]
=============================================================================
