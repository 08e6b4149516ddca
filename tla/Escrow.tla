------------------------------- MODULE Escrow -------------------------------
(***************************************************************************)
(* What the pot promises (the module docstring of RootmodePot.vy, lines    *)
(* 5-15).  Money is in one of these places, and moves only this way:       *)
(*                                                                         *)
(*     wallet <-> free --> unspent --> owed --> delivered                  *)
(*                 ^          |                                            *)
(*                 +----------+   once the clock reaches heldUntil         *)
(*                                                                         *)
(* A client may bring heldUntil forward, but never to less than Notice     *)
(* from now.  Tickets, keys, caps and counters are not part of the promise.*)
(***************************************************************************)
EXTENDS Integers

CONSTANTS Clients, Workers, Notice

VARIABLES
    clock,
    free,       \* client -> what withdrawAll can take
    unspent,    \* <<client, worker>> -> locked and not earned
    owed,       \* <<client, worker>> -> earned and not paid
    delivered,  \* <<client, worker>> -> paid, fee included
    heldUntil   \* <<client, worker>> -> when unspent may go back to free

evars == <<clock, free, unspent, owed, delivered, heldUntil>>

Pair == Clients \X Workers
Nothing == [p \in Pair |-> 0]

EInit ==
    /\ clock \in Nat
    /\ free = [c \in Clients |-> 0]
    /\ unspent = Nothing
    /\ owed = Nothing
    /\ delivered = Nothing
    /\ heldUntil = Nothing

Fund(c) ==
    /\ free'[c] >= free[c]
    /\ free' = [free EXCEPT ![c] = free'[c]]
    /\ UNCHANGED <<clock, unspent, owed, delivered, heldUntil>>

Drain(c) ==
    /\ free' = [free EXCEPT ![c] = 0]
    /\ UNCHANGED <<clock, unspent, owed, delivered, heldUntil>>

\* A lock takes from the free balance, and never shortens the hold.
Lock(p) ==
    /\ \E a \in 1 .. free[p[1]] :
          /\ free' = [free EXCEPT ![p[1]] = @ - a]
          /\ unspent' = [unspent EXCEPT ![p] = @ + a]
    /\ heldUntil'[p] >= heldUntil[p]
    /\ heldUntil'[p] > clock
    /\ heldUntil' = [heldUntil EXCEPT ![p] = heldUntil'[p]]
    /\ UNCHANGED <<clock, owed, delivered>>

\* Some of the lock becomes the worker's, for good.
Bill(p) ==
    /\ \E a \in 1 .. unspent[p] :
          /\ unspent' = [unspent EXCEPT ![p] = @ - a]
          /\ owed' = [owed EXCEPT ![p] = @ + a]
    /\ UNCHANGED <<clock, free, delivered, heldUntil>>

\* Bill, and pay out all that is owed.
BillAndPay(p) ==
    /\ \E a \in 1 .. unspent[p] :
          /\ unspent' = [unspent EXCEPT ![p] = @ - a]
          /\ delivered' = [delivered EXCEPT ![p] = @ + owed[p] + a]
    /\ owed' = [owed EXCEPT ![p] = 0]
    /\ UNCHANGED <<clock, free, heldUntil>>

PayOwed(p) ==
    /\ owed[p] > 0
    /\ delivered' = [delivered EXCEPT ![p] = @ + owed[p]]
    /\ owed' = [owed EXCEPT ![p] = 0]
    /\ UNCHANGED <<clock, free, unspent, heldUntil>>

\* What was locked and never earned goes back, all of it, after the hold.
Release(p) ==
    /\ clock >= heldUntil[p]
    /\ free' = [free EXCEPT ![p[1]] = @ + unspent[p]]
    /\ unspent' = [unspent EXCEPT ![p] = 0]
    /\ heldUntil' = [heldUntil EXCEPT ![p] = heldUntil'[p]]
    /\ UNCHANGED <<clock, owed, delivered>>

\* The client gives notice: the worker keeps what is left of its hold, or
\* Notice from now, whichever is less.
GiveNotice(p) ==
    /\ heldUntil'[p] >= heldUntil[p] \/ heldUntil'[p] >= clock + Notice
    /\ heldUntil' = [heldUntil EXCEPT ![p] = heldUntil'[p]]
    /\ UNCHANGED <<clock, free, unspent, owed, delivered>>

Pass ==
    /\ clock' >= clock
    /\ UNCHANGED <<free, unspent, owed, delivered, heldUntil>>

ENext ==
    \/ \E c \in Clients : Fund(c) \/ Drain(c)
    \/ \E p \in Pair : \/ Lock(p) \/ Bill(p) \/ BillAndPay(p)
                    \/ PayOwed(p) \/ Release(p) \/ GiveNotice(p)
    \/ Pass

ESpec == EInit /\ [][ENext]_evars
=============================================================================
