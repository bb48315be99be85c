--------------------------- MODULE QuotePublisher ---------------------------
(***************************************************************************)
(* The LP starter's quote publisher: a tick when it starts and one every   *)
(* Refresh after that, each publishing a fresh quote that stands until     *)
(* Validity after the tick.  A tick does not wait for the one before it,   *)
(* and nothing is sent twice, so quotes may be lost, arrive late or out of *)
(* order; a signal stops the timer, a crash restarts the process, and t-0  *)
(* keeps every quote it took until the moment it expires.                  *)
(***************************************************************************)
EXTENDS Integers, FiniteSets

CONSTANTS
    Validity,   \* how long a quote stands after its tick (QUOTE_VALIDITY_MS)
    Refresh,    \* the timer's period (REFRESH_MS)
    Lag,        \* bound: how late the event loop may run a due tick
    Delay,      \* bound: how long a publish call may be under way
    Losses,     \* bound: publishes lost in a row
    Restarts,   \* bound: crashes of the process
    Horizon     \* bound: the last moment looked at

ASSUME PeriodAssumption ==
    /\ Validity \in Nat \ {0} /\ Refresh \in Nat \ {0}
    /\ Lag \in Nat /\ Delay \in Nat /\ Losses \in Nat
    /\ Restarts \in Nat /\ Horizon \in Nat

VARIABLES
    process,    \* "up", "stopped" (a signal came, calls drain) or "gone"
    timer,      \* "set" or "cleared"
    now,        \* the time, in minutes
    due,        \* when the timer next fires
    ticks,      \* ticks so far; the number of a tick is its quote_ref
    underWay,   \* quotes on their way to t-0
    book,       \* t-0's order book: every quote it took
    lost,       \* the quote_refs whose publish was lost
    crashes,    \* crashes so far
    stoppedAt   \* when the signal came

vars == <<process, timer, now, due, ticks, underWay, book, lost, crashes, stoppedAt>>

Quotes == [ref: Nat, made: Nat, expires_at: Nat]

TypeOK ==
    /\ process \in {"up", "stopped", "gone"}
    /\ timer \in {"set", "cleared"}
    /\ now \in 0..Horizon
    /\ due \in Nat /\ ticks \in Nat /\ lost \in SUBSET Nat
    /\ crashes \in 0..Restarts /\ stoppedAt \in 0..Horizon
    /\ underWay \in SUBSET Quotes
    /\ book \in SUBSET Quotes

\* Mutant: the quote's window opens when the next tick is due.
ExpiresAtLate(t) == t + Refresh + Validity

\* Mutant: the validity taken off instead of added.
ExpiresAtBefore(t) == t - Validity

\* Mutant: the two numbers swapped.
ExpiresAtShort(t) == t + Refresh

ExpiresAt(t) == t + Validity

\* The tick mints its quote_ref and computes expires_at, then publishes.
Publish ==
    /\ ticks' = ticks + 1
    /\ underWay' = underWay \cup
         {[ref |-> ticks, made |-> now, expires_at |-> ExpiresAt(now)]}

\* Starting the publisher fires one tick at once.
Init ==
    /\ process = "up" /\ timer = "set" /\ now = 0 /\ due = Refresh
    /\ ticks = 1
    /\ underWay = {[ref |-> 0, made |-> 0, expires_at |-> ExpiresAt(0)]}
    /\ book = {} /\ lost = {} /\ crashes = 0 /\ stoppedAt = 0

Tick ==
    /\ process # "gone"
    /\ timer = "set"
    /\ now >= due
    /\ Publish
    /\ due' = now + Refresh
    /\ UNCHANGED <<process, timer, now, book, lost, crashes, stoppedAt>>

\* Mutant: a shutdown that leaves the timer to the exit.
StopQuotesAtExit ==
    /\ process = "up"
    /\ process' = "stopped"
    /\ stoppedAt' = now
    /\ UNCHANGED <<timer, now, due, ticks, underWay, book, lost, crashes>>

\* The signal clears the timer; a publish under way goes on.
StopQuotes ==
    /\ process = "up"
    /\ process' = "stopped"
    /\ timer' = "cleared"
    /\ stoppedAt' = now
    /\ UNCHANGED <<now, due, ticks, underWay, book, lost, crashes>>

\* The drained process exits; a publish it left under way may still arrive.
Exit ==
    /\ process = "stopped"
    /\ process' = "gone"
    /\ \E survivors \in SUBSET underWay : underWay' = survivors
    /\ UNCHANGED <<timer, now, due, ticks, book, lost, crashes, stoppedAt>>

\* The process dies and is started again: the timer starts over, with a tick.
CrashAndRestart ==
    /\ process = "up"
    /\ crashes < Restarts
    /\ crashes' = crashes + 1
    /\ Publish
    /\ due' = now + Refresh
    /\ UNCHANGED <<process, timer, now, book, lost, stoppedAt>>

-----------------------------------------------------------------------------
(* t-0, the network and time (external).                                   *)

\* t-0 takes a quote that still stands and answers; whatever the answer, or
\* its loss, the publisher logs it and does nothing more.
TakeQuote ==
    \E q \in underWay :
      /\ underWay' = underWay \ {q}
      /\ book' = IF q.expires_at > now THEN book \cup {q} ELSE book
      /\ UNCHANGED <<process, timer, now, due, ticks, lost, crashes, stoppedAt>>

LoseQuote ==
    \E q \in underWay :
      /\ lost' = lost \cup {q.ref}
      /\ \A first \in lost' : ~(first..(first + Losses) \subseteq lost')
      /\ underWay' = underWay \ {q}
      /\ UNCHANGED <<process, timer, now, due, ticks, book, crashes, stoppedAt>>

\* Time passes, but not past a call's Delay or a due tick's Lag.
PassTime ==
    /\ now < Horizon
    /\ now' = now + 1
    /\ \A q \in underWay : now' <= q.made + Delay
    /\ process # "gone" /\ timer = "set" => now' <= due + Lag
    /\ UNCHANGED <<process, timer, due, ticks, underWay, book, lost, crashes, stoppedAt>>

Next ==
    \/ Tick \/ StopQuotes \/ Exit \/ CrashAndRestart
    \/ TakeQuote \/ LoseQuote \/ PassTime

Spec == Init /\ [][Next]_vars

-----------------------------------------------------------------------------
(* Properties.                                                             *)

Standing == {q \in book : q.expires_at > now}

\* The prices the LP is bound by at one time: one for each period within the
\* validity, whatever the order or delay of the calls, and one more for each
\* crash, since a restart ticks at once (quotes.ts:11-12, 32-33).
ExposureBounded ==
    Cardinality(Standing) <= (Validity + Refresh - 1) \div Refresh + crashes

\* Losses, lag and delay small enough for the next quote to stand in time.
Tolerable == (Losses + 1) * (Refresh + Lag) + Delay < Validity

\* While the publisher runs, up to Losses lost publishes in a row never leave
\* t-0's book empty once it took a quote: the next quote stands before the
\* last one expires, with no retry of what was lost (quotes.ts:14-37).
BookStaysCovered ==
    Tolerable /\ process = "up" /\ book # {} => Standing # {}

\* What a shutdown leaves behind is gone within one validity: no tick follows
\* the signal, so no quote of an LP that is gone stands longer than that
\* (index.ts:87-99, README.md:249).
NothingOutlivesAStop ==
    process # "up" /\ now >= stoppedAt + Validity => Standing = {}
=============================================================================
