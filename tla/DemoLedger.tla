----------------------------- MODULE DemoLedger -----------------------------
(***************************************************************************)
(* What the demo account promises, with no processes, reads or crashes in  *)
(* sight: a signal lives through its life cycle once, gets at most one     *)
(* position and at most one booked result, the result is booked only for a *)
(* settled signal that has a position, and the balance moves by exactly    *)
(* the booked result or by a reset, never otherwise.  TradeCore implements *)
(* it.                                                                     *)
(***************************************************************************)
EXTENDS Integers

CONSTANTS
    Signals,         \* the ids of signals
    NetPnls,         \* the net results a trade may have
    ResetBalances,   \* the balances a reset may set
    InitialBalance,
    VoidLive         \* may a live signal still be cancelled?

VARIABLES
    life,      \* life[i]: "free", "waiting", "live", "settled", "void", "erased"
    book,      \* book[i]: "none", "open" or "booked"
    money      \* the balance

Init ==
    /\ life = [i \in Signals |-> "free"]
    /\ book = [i \in Signals |-> "none"]
    /\ money = InitialBalance

Issue(i) ==
    /\ life[i] = "free"
    /\ life' = [life EXCEPT ![i] = "waiting"]
    /\ UNCHANGED <<book, money>>

Enter(i) ==
    /\ life[i] = "waiting"
    /\ life' = [life EXCEPT ![i] = "live"]
    /\ UNCHANGED <<book, money>>

Settle(i) ==
    /\ life[i] = "live"
    /\ life' = [life EXCEPT ![i] = "settled"]
    /\ UNCHANGED <<book, money>>

Void(i) ==
    /\ life[i] = "waiting" \/ (VoidLive /\ life[i] = "live")
    /\ life' = [life EXCEPT ![i] = "void"]
    /\ UNCHANGED <<book, money>>

(* A live signal gets its position; a slow or repeated attempt may come    *)
(* after the signal has ended.                                             *)
Open(i) ==
    /\ life[i] \in {"live", "settled"} \/ (VoidLive /\ life[i] = "void")
    /\ book[i] = "none"
    /\ book' = [book EXCEPT ![i] = "open"]
    /\ UNCHANGED <<life, money>>

Book(i) ==
    /\ life[i] = "settled"
    /\ book[i] = "open"
    /\ book' = [book EXCEPT ![i] = "booked"]
    /\ \E n \in NetPnls : money' = money + n
    /\ UNCHANGED life

(* Signals the user deletes take their books along, the balance stays. *)
Erase(S) ==
    /\ \A i \in S : life[i] \in {"waiting", "settled", "void"}
    /\ life' = [i \in Signals |-> IF i \in S THEN "erased" ELSE life[i]]
    /\ book' = [i \in Signals |-> IF i \in S THEN "none" ELSE book[i]]
    /\ UNCHANGED money

Reset ==
    /\ book' = [i \in Signals |-> "none"]
    /\ money' \in ResetBalances
    /\ UNCHANGED life

Next ==
    \/ \E i \in Signals :
        Issue(i) \/ Enter(i) \/ Settle(i) \/ Void(i) \/ Open(i) \/ Book(i)
    \/ \E S \in SUBSET Signals : Erase(S)
    \/ Reset

Spec == Init /\ [][Next]_<<life, book, money>>
=============================================================================
