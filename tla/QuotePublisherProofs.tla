------------------------ MODULE QuotePublisherProofs ------------------------
(***************************************************************************)
(* Proofs about QuotePublisher, for every value of its constants: its      *)
(* types, that no quote outlives a shutdown by more than one validity, how *)
(* many quotes can stand at one time, and that the book stays covered      *)
(* while the publisher runs.  The invariants that carry them say where a   *)
(* quote's expiry comes from, how close together and how far apart ticks   *)
(* are, and where the quote of every tick is.                              *)
(***************************************************************************)
EXTENDS QuotePublisher, FiniteSetTheorems, TLAPS

\* The part of TypeOK the arguments below need, free of the model's bounds.
Typed ==
    /\ process \in {"up", "stopped", "gone"}
    /\ timer \in {"set", "cleared"}
    /\ now \in Nat /\ due \in Nat /\ ticks \in Nat /\ stoppedAt \in Nat
    /\ underWay \in SUBSET Quotes
    /\ book \in SUBSET Quotes

\* Every quote expires one validity after the tick that made it.
ExpiresAfterMade ==
    \A q \in underWay \cup book : q.made <= now /\ q.expires_at = q.made + Validity

\* Once the signal came the timer is clear and every quote is older than it.
MadeBeforeTheStop ==
    process # "up" =>
      /\ timer = "cleared"
      /\ stoppedAt <= now
      /\ \A q \in underWay \cup book : q.made <= stoppedAt

PInv == Typed /\ ExpiresAfterMade /\ MadeBeforeTheStop

-----------------------------------------------------------------------------
\* The publisher's variables keep their types, whatever the bounds.
THEOREM TypeCorrect == Spec => []TypeOK
<1>1. Init => TypeOK
  BY PeriodAssumption DEF Init, TypeOK, Quotes, ExpiresAt
<1>2. TypeOK /\ [Next]_vars => TypeOK'
  <2> SUFFICES ASSUME TypeOK, [Next]_vars PROVE TypeOK'
    OBVIOUS
  <2> USE PeriodAssumption DEF TypeOK
  <2>1. CASE Tick
    BY <2>1 DEF Tick, Publish, Quotes, ExpiresAt
  <2>2. CASE StopQuotes
    BY <2>2 DEF StopQuotes
  <2>3. CASE Exit
    BY <2>3 DEF Exit
  <2>4. CASE CrashAndRestart
    BY <2>4 DEF CrashAndRestart, Publish, Quotes, ExpiresAt
  <2>5. CASE TakeQuote
    BY <2>5 DEF TakeQuote
  <2>6. CASE LoseQuote
    BY <2>6 DEF LoseQuote, Quotes
  <2>7. CASE PassTime
    BY <2>7 DEF PassTime
  <2>8. CASE UNCHANGED vars
    BY <2>8 DEF vars
  <2> QED
    BY <2>1, <2>2, <2>3, <2>4, <2>5, <2>6, <2>7, <2>8 DEF Next
<1> QED
  BY <1>1, <1>2, PTL DEF Spec

-----------------------------------------------------------------------------
LEMMA PInvInit == Init => PInv
  BY PeriodAssumption
     DEF Init, PInv, Typed, ExpiresAfterMade, MadeBeforeTheStop, Quotes, ExpiresAt

\* A tick, of the timer or of a restart, makes a quote dated now.
LEMMA PublishPInv ==
  ASSUME PInv, Publish, process' = process, timer' = timer, now' = now,
         due' = now + Refresh, book' = book, stoppedAt' = stoppedAt,
         process = "up" \/ timer = "set"
  PROVE  PInv'
<1> USE PeriodAssumption
<1> DEFINE q0 == [ref |-> ticks, made |-> now, expires_at |-> now + Validity]
<1>1. underWay' = underWay \cup {q0}
  BY DEF Publish, ExpiresAt
<1>2. q0 \in Quotes /\ q0.made = now /\ q0.expires_at = now + Validity
  BY DEF PInv, Typed, Quotes
<1>3. Typed'
  BY <1>1, <1>2 DEF PInv, Typed, Publish
<1>4. ExpiresAfterMade'
  BY <1>1, <1>2 DEF PInv, Typed, ExpiresAfterMade
<1>5. MadeBeforeTheStop'
  BY DEF PInv, MadeBeforeTheStop
<1> QED
  BY <1>3, <1>4, <1>5 DEF PInv

LEMMA PInvStep == PInv /\ [Next]_vars => PInv'
<1> SUFFICES ASSUME PInv, [Next]_vars PROVE PInv'
  OBVIOUS
<1> USE PeriodAssumption
<1>1. CASE Tick
  BY <1>1, PublishPInv DEF Tick
<1>2. CASE StopQuotes
  BY <1>2 DEF StopQuotes, PInv, Typed, ExpiresAfterMade, MadeBeforeTheStop
<1>3. CASE Exit
  BY <1>3 DEF Exit, PInv, Typed, ExpiresAfterMade, MadeBeforeTheStop
<1>4. CASE CrashAndRestart
  BY <1>4, PublishPInv DEF CrashAndRestart
<1>5. CASE TakeQuote
  BY <1>5 DEF TakeQuote, PInv, Typed, ExpiresAfterMade, MadeBeforeTheStop
<1>6. CASE LoseQuote
  BY <1>6 DEF LoseQuote, PInv, Typed, ExpiresAfterMade, MadeBeforeTheStop
<1>7. CASE PassTime
  <2>1. now' = now + 1 /\ UNCHANGED <<process, timer, due, ticks, underWay, book, stoppedAt>>
    BY <1>7 DEF PassTime
  <2>2. Typed'
    BY <2>1 DEF PInv, Typed
  <2>3. ExpiresAfterMade'
    BY <2>1 DEF PInv, Typed, ExpiresAfterMade, Quotes
  <2>4. MadeBeforeTheStop'
    BY <2>1 DEF PInv, Typed, MadeBeforeTheStop, Quotes
  <2> QED
    BY <2>2, <2>3, <2>4 DEF PInv
<1>8. CASE UNCHANGED vars
  BY <1>8 DEF vars, PInv, Typed, ExpiresAfterMade, MadeBeforeTheStop
<1> QED
  BY <1>1, <1>2, <1>3, <1>4, <1>5, <1>6, <1>7, <1>8 DEF Next

LEMMA PInvImplies == PInv => NothingOutlivesAStop
<1> SUFFICES ASSUME PInv, process # "up", now >= stoppedAt + Validity
             PROVE  Standing = {}
  BY DEF NothingOutlivesAStop
<1>1. ASSUME NEW q \in book PROVE ~(q.expires_at > now)
  <2>1. q.made <= stoppedAt /\ q.expires_at = q.made + Validity
    BY DEF PInv, ExpiresAfterMade, MadeBeforeTheStop
  <2>2. q.made \in Nat /\ stoppedAt \in Nat /\ now \in Nat
    BY DEF PInv, Typed, Quotes
  <2> QED
    BY <2>1, <2>2, PeriodAssumption
<1> QED
  BY <1>1 DEF Standing

\* Whatever was under way, late or lost when the signal came, one validity
\* later no quote of this LP stands at t-0.
THEOREM StopEmptiesTheBook == Spec => []NothingOutlivesAStop
  BY PInvInit, PInvStep, PInvImplies, PTL DEF Spec

-----------------------------------------------------------------------------
(* Exposure: how many quotes can stand at one time.                        *)

Sent == underWay \cup book

\* A quote_ref is the number of its tick, and names one quote.
RefsNameTicks ==
    /\ \A q \in Sent : q.ref < ticks
    /\ \A q, r \in Sent : q.ref = r.ref => q = r

\* Ticks are a period apart, but for one tick for each crash.
TicksApart ==
    /\ crashes \in Nat
    /\ due <= now + Refresh
    /\ \A q \in Sent : (ticks - q.ref - crashes) * Refresh <= due - q.made
    /\ \A q, r \in Sent :
         q.ref < r.ref => (r.ref - q.ref - crashes) * Refresh <= r.made - q.made

EInv == PInv /\ RefsNameTicks /\ TicksApart

-----------------------------------------------------------------------------
(* Coverage: when the next quote stands.                                   *)

\* While the process runs its timer does, and nobody is later than the bounds.
OnTime ==
    /\ process = "up" => timer = "set" /\ now <= due + Lag
    /\ \A q \in underWay : now <= q.made + Delay

\* While the process runs, every tick's quote was lost or is somewhere.
NoneForgotten ==
    process = "up" /\ Delay < Validity =>
      \A n \in 0..(ticks - 1) : n \in lost \/ \E q \in Sent : q.ref = n

LossesBounded ==
    \A first \in lost : ~(first..(first + Losses) \subseteq lost)

\* Ticks are no more than a period and a lag apart.
TicksFollow ==
    process = "up" =>
      /\ \A q \in Sent : due + Lag - q.made <= (ticks - q.ref) * (Refresh + Lag)
      /\ \A q, r \in Sent :
           q.ref < r.ref => r.made - q.made <= (r.ref - q.ref) * (Refresh + Lag)

NewestTaken == book # {} => \E newest \in book : \A q \in book : q.ref <= newest.ref

CInv == EInv /\ OnTime /\ NoneForgotten /\ LossesBounded /\ TicksFollow /\ NewestTaken

-----------------------------------------------------------------------------
(* Arithmetic the two arguments share.                                     *)

LEMMA MulMono ==
  ASSUME NEW a \in Int, NEW b \in Int, NEW c \in Nat, a <= b
  PROVE  a * c <= b * c
OBVIOUS

LEMMA MulLess ==
  ASSUME NEW a \in Int, NEW b \in Int, NEW c \in Nat \ {0}, a * c < b * c
  PROVE  a < b
OBVIOUS

LEMMA MulSucc ==
  ASSUME NEW a \in Int, NEW c \in Nat
  PROVE  (a + 1) * c = a * c + c /\ (a - 1) * c = a * c - c
OBVIOUS

LEMMA DivBound ==
  ASSUME NEW n \in Nat, NEW r \in Nat \ {0}
  PROVE  n \div r \in Nat /\ (n \div r) * r <= n /\ n < (n \div r + 1) * r
OBVIOUS

-----------------------------------------------------------------------------
LEMMA EInvInit == Init => EInv
<1> SUFFICES ASSUME Init PROVE EInv
  OBVIOUS
<1> USE PeriodAssumption
<1>1. Sent = underWay /\ \A q \in Sent : q.ref = 0 /\ q.made = 0
  BY DEF Init, Sent
<1>2. ticks = 1 /\ crashes = 0 /\ due = Refresh /\ now = 0
  BY DEF Init
<1>3. RefsNameTicks
  BY <1>2 DEF RefsNameTicks, Init, Sent
<1>4. TicksApart
  BY <1>1, <1>2 DEF TicksApart
<1> QED
  BY <1>3, <1>4, PInvInit DEF EInv

\* A tick, of the timer or of a restart, is a period after the one before it,
\* unless it is the tick of a restart.
LEMMA PublishEInv ==
  ASSUME EInv, PInv', Publish, now' = now, due' = now + Refresh, book' = book,
         \/ crashes' = crashes /\ now >= due
         \/ crashes' = crashes + 1
  PROVE  EInv'
<1> USE PeriodAssumption
<1> DEFINE q0 == [ref |-> ticks, made |-> now, expires_at |-> now + Validity]
<1>1. Sent' = Sent \cup {q0}
  BY DEF Publish, ExpiresAt, Sent
<1>2. q0.ref = ticks /\ q0.made = now
  OBVIOUS
<1>3. /\ ticks \in Nat /\ now \in Nat /\ due \in Nat /\ crashes \in Nat
      /\ \A q \in Sent : q.ref \in Nat /\ q.made \in Nat
  BY DEF EInv, PInv, Typed, TicksApart, Sent, Quotes
<1>4. ticks' = ticks + 1 /\ due' = now + Refresh /\ due <= now + Refresh
  BY DEF Publish, EInv, TicksApart
<1>5. RefsNameTicks'
  <2>1. \A q \in Sent : q.ref < ticks
    BY DEF EInv, RefsNameTicks
  <2>2. \A q \in Sent' : q.ref < ticks'
    BY <1>1, <1>2, <1>3, <1>4, <2>1
  <2>3. \A q, r \in Sent' : q.ref = r.ref => q = r
    BY <1>1, <1>2, <1>3, <2>1 DEF EInv, RefsNameTicks
  <2> QED
    BY <2>2, <2>3 DEF RefsNameTicks
<1> HIDE DEF q0
<1>6. ASSUME NEW q \in Sent
      PROVE  /\ (ticks' - q.ref - crashes') * Refresh <= due' - q.made
             /\ (ticks - q.ref - crashes') * Refresh <= now - q.made
  <2> DEFINE gap == ticks - q.ref - crashes
  <2>1. gap \in Int /\ q.ref \in Nat /\ q.made \in Nat
    BY <1>3
  <2>2. gap * Refresh <= due - q.made
    BY DEF EInv, TicksApart
  <2>3. CASE crashes' = crashes /\ now >= due
    <3>1. ticks' - q.ref - crashes' = gap + 1 /\ ticks - q.ref - crashes' = gap
      BY <1>3, <1>4, <2>1, <2>3
    <3> HIDE DEF gap
    <3>2. (gap + 1) * Refresh = gap * Refresh + Refresh /\ gap * Refresh \in Int
      BY <2>1, MulSucc
    <3> QED
      BY <1>3, <1>4, <2>1, <2>2, <2>3, <3>1, <3>2
  <2>4. CASE crashes' = crashes + 1
    <3>1. ticks' - q.ref - crashes' = gap /\ ticks - q.ref - crashes' = gap - 1
      BY <1>3, <1>4, <2>1, <2>4
    <3> HIDE DEF gap
    <3>2. (gap - 1) * Refresh = gap * Refresh - Refresh /\ gap * Refresh \in Int
      BY <2>1, MulSucc
    <3> QED
      BY <1>3, <1>4, <2>1, <2>2, <3>1, <3>2
  <2> QED
    BY <2>3, <2>4
<1>7. (ticks' - q0.ref - crashes') * Refresh <= due' - q0.made
  <2>1. ticks' - q0.ref - crashes' <= 1 /\ ticks' - q0.ref - crashes' \in Int
    BY <1>2, <1>3, <1>4
  <2> QED
    BY <1>2, <1>3, <1>4, <2>1, MulMono
<1>8. ASSUME NEW q \in Sent', NEW r \in Sent', q.ref < r.ref
      PROVE  (r.ref - q.ref - crashes') * Refresh <= r.made - q.made
  <2>1. CASE q \in Sent /\ r \in Sent
    <3>1. (r.ref - q.ref - crashes) * Refresh <= r.made - q.made
      BY <1>8, <2>1 DEF EInv, TicksApart
    <3>2. r.ref - q.ref - crashes' <= r.ref - q.ref - crashes /\ crashes' \in Nat
      BY <1>3, <2>1
    <3>3. /\ q.ref \in Nat /\ r.ref \in Nat /\ q.made \in Nat /\ r.made \in Nat
      BY <1>3, <2>1
    <3>4. (r.ref - q.ref - crashes') * Refresh <= (r.ref - q.ref - crashes) * Refresh
      BY <1>3, <3>2, <3>3, MulMono
    <3> QED
      BY <1>3, <3>1, <3>2, <3>3, <3>4
  <2>2. CASE q \in Sent /\ r = q0
    BY <1>2, <1>6, <2>2
  <2>3. CASE q = q0
    BY <1>1, <1>2, <1>3, <1>8, <2>3 DEF EInv, RefsNameTicks
  <2> QED
    BY <1>1, <2>1, <2>2, <2>3
<1>9. TicksApart'
  BY <1>1, <1>3, <1>4, <1>6, <1>7, <1>8 DEF TicksApart
<1> QED
  BY <1>5, <1>9 DEF EInv

LEMMA EInvStep == EInv /\ [Next]_vars => EInv'
<1> SUFFICES ASSUME EInv, [Next]_vars PROVE EInv'
  OBVIOUS
<1> USE PeriodAssumption
<1>1. PInv'
  BY PInvStep DEF EInv
<1>2. CASE Tick
  BY <1>1, <1>2, PublishEInv DEF Tick
<1>3. CASE CrashAndRestart
  BY <1>1, <1>3, PublishEInv DEF CrashAndRestart
\* Any other step sends nothing, and time only moves on.
<1>4. ASSUME Sent' \subseteq Sent, ticks' = ticks, due' = due, crashes' = crashes,
             now' >= now
      PROVE  EInv'
  <2>1. RefsNameTicks'
    BY <1>4 DEF EInv, RefsNameTicks
  <2>2. now \in Nat /\ now' \in Nat /\ due \in Nat
    BY <1>1 DEF EInv, PInv, Typed
  <2>3. due <= now + Refresh /\ crashes \in Nat
    BY DEF EInv, TicksApart
  <2>4. due' <= now' + Refresh /\ crashes' \in Nat
    <3>1. \A d, n, m \in Nat : d <= n + Refresh /\ m >= n => d <= m + Refresh
      OBVIOUS
    <3> QED
      BY <1>4, <2>2, <2>3, <3>1
  <2>5. ASSUME NEW q \in Sent'
        PROVE  (ticks' - q.ref - crashes') * Refresh <= due' - q.made
    BY <1>4 DEF EInv, TicksApart
  <2>6. ASSUME NEW q \in Sent', NEW r \in Sent', q.ref < r.ref
        PROVE  (r.ref - q.ref - crashes') * Refresh <= r.made - q.made
    BY <1>4, <2>6 DEF EInv, TicksApart
  <2>7. TicksApart'
    BY <2>4, <2>5, <2>6 DEF TicksApart
  <2> QED
    BY <1>1, <2>1, <2>7 DEF EInv
<1>5. now \in Nat
  BY DEF EInv, PInv, Typed
<1>6. CASE StopQuotes
  BY <1>4, <1>5, <1>6 DEF StopQuotes, Sent
<1>7. CASE Exit
  BY <1>4, <1>5, <1>7 DEF Exit, Sent
<1>8. CASE TakeQuote
  BY <1>4, <1>5, <1>8 DEF TakeQuote, Sent
<1>9. CASE LoseQuote
  BY <1>4, <1>5, <1>9 DEF LoseQuote, Sent
<1>10. CASE PassTime
  BY <1>4, <1>5, <1>10 DEF PassTime, Sent
<1>11. CASE UNCHANGED vars
  BY <1>4, <1>5, <1>11 DEF vars, Sent
<1> QED
  BY <1>2, <1>3, <1>6, <1>7, <1>8, <1>9, <1>10, <1>11 DEF Next

-----------------------------------------------------------------------------
\* Two numbers less than n apart with one remainder are one number.
LEMMA SameRemainder ==
  ASSUME NEW n \in Nat \ {0}, NEW a \in Nat, NEW b \in Nat,
         a <= b, b - a < n, a % n = b % n
  PROVE  a = b
<1> DEFINE p == a \div n
           q == b \div n
<1>1. a = n * p + (a % n) /\ b = n * q + (b % n) /\ p \in Nat /\ q \in Nat
  OBVIOUS
<1>2. b - a = n * (q - p)
  BY <1>1
<1> HIDE DEF p, q
<1>3. q - p < 1 /\ q - p >= 0
  BY <1>1, <1>2
<1> QED
  BY <1>1, <1>2, <1>3

LEMMA EInvImplies == EInv => ExposureBounded
<1> SUFFICES ASSUME EInv PROVE ExposureBounded
  OBVIOUS
<1> DEFINE periods == (Validity + Refresh - 1) \div Refresh
           bound == periods + crashes
<1> USE PeriodAssumption
<1>1. /\ now \in Nat /\ crashes \in Nat
      /\ Standing \subseteq Sent
      /\ \A q \in Standing : /\ q.ref \in Nat /\ q.made \in Nat
                             /\ q.made <= now /\ now < q.made + Validity
  <2>1. Standing \subseteq Sent
    BY DEF Standing, Sent
  <2>2. now \in Nat /\ crashes \in Nat /\ Sent \subseteq Quotes
    BY DEF EInv, PInv, Typed, TicksApart, Sent
  <2>3. ASSUME NEW q \in Standing
        PROVE  q.made <= now /\ now < q.made + Validity
    <3>1. q \in Quotes /\ q \in book /\ q.expires_at > now
      BY <2>1, <2>2 DEF Standing
    <3>2. q.made <= now /\ q.expires_at = q.made + Validity
      BY <3>1 DEF EInv, PInv, ExpiresAfterMade
    <3>3. q.made \in Nat
      BY <3>1 DEF Quotes
    <3> QED
      BY <2>2, <3>1, <3>2, <3>3
  <2> QED
    BY <2>1, <2>2, <2>3 DEF Quotes
<1>2. periods \in Nat /\ Validity - 1 < periods * Refresh
  <2>1. /\ periods \in Nat
        /\ Validity + Refresh - 1 < (periods + 1) * Refresh
    BY DivBound
  <2> HIDE DEF periods
  <2> QED
    BY <2>1, MulSucc
<1> HIDE DEF periods
<1>3. ASSUME NEW q \in Standing, NEW r \in Standing, q.ref < r.ref
      PROVE  r.ref - q.ref < bound
  <2>1. (r.ref - q.ref - crashes) * Refresh <= r.made - q.made
    BY <1>1, <1>3 DEF EInv, TicksApart
  <2>2. r.made - q.made <= Validity - 1
    BY <1>1
  <2>3. r.ref - q.ref - crashes \in Int
    BY <1>1
  <2>4. (r.ref - q.ref - crashes) * Refresh < periods * Refresh
    BY <1>1, <1>2, <2>1, <2>2, <2>3
  <2>5. r.ref - q.ref - crashes < periods
    BY <1>2, <2>3, <2>4, MulLess
  <2> QED
    BY <1>1, <1>2, <2>5
<1>4. bound \in Nat \ {0}
  <2>1. 0 * Refresh < periods * Refresh
    BY <1>2
  <2>2. 0 < periods
    BY <1>2, <2>1, MulLess
  <2> QED
    BY <1>1, <1>2, <2>2
<1> HIDE DEF bound
<1> DEFINE slot == [q \in Standing |-> q.ref % bound]
           slots == 0..(bound - 1)
<1>5. slot \in [Standing -> slots]
  BY <1>1, <1>4
<1>6. ASSUME NEW q \in Standing, NEW r \in Standing, slot[q] = slot[r]
      PROVE  q = r
  <2>1. q.ref % bound = r.ref % bound /\ q.ref \in Nat /\ r.ref \in Nat
    BY <1>1, <1>6
  <2>2. q.ref = r.ref
    <3>1. CASE q.ref < r.ref
      BY <1>3, <1>4, <2>1, <3>1, SameRemainder
    <3>2. CASE r.ref < q.ref
      BY <1>3, <1>4, <2>1, <3>2, SameRemainder
    <3> QED
      BY <2>1, <3>1, <3>2
  <2> QED
    BY <1>1, <2>2 DEF EInv, RefsNameTicks
<1>7. slot \in Injection(Standing, slots)
  BY <1>5, <1>6 DEF Injection, IsInjective
<1>8. IsFiniteSet(slots) /\ Cardinality(slots) = bound
  BY <1>4, FS_Interval
<1>9. Cardinality(Standing) <= bound
  BY <1>7, <1>8, FS_Injection
<1> QED
  BY <1>9 DEF ExposureBounded, bound, periods

\* At no moment is the LP bound by more quotes than the periods within one
\* validity and one more for each crash, whatever the network does to them.
THEOREM ExposureIsBounded == Spec => []ExposureBounded
  BY EInvInit, EInvStep, EInvImplies, PTL DEF Spec

-----------------------------------------------------------------------------
\* The longest two ticks of a running publisher are apart.
Stride == Refresh + Lag

LEMMA CInvInit == Init => CInv
<1> SUFFICES ASSUME Init PROVE CInv
  OBVIOUS
<1> USE PeriodAssumption
<1>1. /\ Sent = underWay /\ book = {} /\ lost = {}
      /\ \A q \in Sent : q.ref = 0 /\ q.made = 0
      /\ \E q \in Sent : q.ref = 0
  BY DEF Init, Sent
<1>2. ticks = 1 /\ due = Refresh /\ now = 0 /\ timer = "set"
  BY DEF Init
<1>3. OnTime
  BY <1>1, <1>2 DEF OnTime
<1>4. NoneForgotten
  BY <1>1, <1>2 DEF NoneForgotten
<1>5. LossesBounded /\ NewestTaken
  BY <1>1 DEF LossesBounded, NewestTaken
<1>6. TicksFollow
  BY <1>1, <1>2 DEF TicksFollow
<1> QED
  BY <1>3, <1>4, <1>5, <1>6, EInvInit DEF CInv

\* What the arguments below read off CInv's types.
LEMMA CInvTypes ==
  ASSUME CInv
  PROVE  /\ ticks \in Nat /\ now \in Nat /\ due \in Nat
         /\ Stride \in Nat \ {0}
         /\ \A q \in Sent : q.ref \in Nat /\ q.made \in Nat
  BY PeriodAssumption DEF CInv, EInv, PInv, Typed, Sent, Quotes, Stride

\* A running publisher's tick comes no later than Lag after it is due, and a
\* restart's tick no later than that.
LEMMA PublishCInv ==
  ASSUME CInv, EInv', Publish, process = "up", process' = process, timer' = timer,
         now' = now, due' = now + Refresh, book' = book, lost' = lost
  PROVE  CInv'
<1> USE PeriodAssumption
<1> DEFINE q0 == [ref |-> ticks, made |-> now, expires_at |-> now + Validity]
<1>1. Sent' = Sent \cup {q0} /\ underWay' = underWay \cup {q0}
  BY DEF Publish, ExpiresAt, Sent
<1>2. q0.ref = ticks /\ q0.made = now
  OBVIOUS
<1>3. ticks' = ticks + 1 /\ now <= due + Lag /\ timer = "set"
  BY DEF Publish, CInv, OnTime
<1> HIDE DEF q0
<1>4. OnTime'
  <2>1. now <= now + Refresh + Lag /\ now <= now + Delay
    <3>1. \A n \in Nat : n <= n + Refresh + Lag /\ n <= n + Delay
      OBVIOUS
    <3> QED
      BY <3>1, CInvTypes
  <2>2. \A q \in underWay : now <= q.made + Delay
    BY DEF CInv, OnTime
  <2>3. now' <= due' + Lag /\ now' <= q0.made + Delay
    BY <1>2, <2>1
  <2> QED
    BY <1>1, <1>3, <2>2, <2>3 DEF OnTime
<1>5. NoneForgotten'
  <2>1. ASSUME NEW n \in 0..ticks, Delay < Validity
        PROVE  n \in lost \/ \E q \in Sent' : q.ref = n
    <3>1. CASE n = ticks
      BY <1>1, <1>2, <3>1
    <3>2. CASE n # ticks
      <4>1. n \in 0..(ticks - 1)
        BY <3>2, CInvTypes
      <4> QED
        BY <1>1, <2>1, <4>1 DEF CInv, NoneForgotten
    <3> QED
      BY <3>1, <3>2
  <2>2. ticks' - 1 = ticks
    BY <1>3, CInvTypes
  <2> QED
    BY <2>1, <2>2 DEF NoneForgotten
<1>6. LossesBounded' /\ NewestTaken'
  BY DEF CInv, LossesBounded, NewestTaken
<1>7. ASSUME NEW q \in Sent
      PROVE  /\ now - q.made <= (ticks - q.ref) * Stride
             /\ due' + Lag - q.made <= (ticks' - q.ref) * Stride
  <2> DEFINE gap == ticks - q.ref
  <2>1. gap \in Int /\ q.ref \in Nat /\ q.made \in Nat /\ now \in Nat /\ due \in Nat
    BY CInvTypes
  <2>2. due + Lag - q.made <= gap * Stride
    BY DEF CInv, TicksFollow, Stride
  <2>3. due' + Lag = now + Stride /\ ticks' - q.ref = gap + 1
    BY <1>3, <2>1, CInvTypes DEF Stride
  <2> HIDE DEF gap
  <2>4. (gap + 1) * Stride = gap * Stride + Stride /\ gap * Stride \in Int /\ Stride \in Nat
    BY <2>1, MulSucc, CInvTypes
  <2>5. now - q.made <= gap * Stride
    BY <1>3, <2>1, <2>2, <2>4
  <2>6. now + Stride - q.made <= gap * Stride + Stride
    BY <2>1, <2>4, <2>5
  <2>7. due' + Lag - q.made <= (ticks' - q.ref) * Stride
    <3>1. now + Stride - q.made <= (gap + 1) * Stride
      BY <2>4, <2>6
    <3>2. due' \in Nat /\ ticks' \in Nat
      BY DEF EInv, PInv, Typed
    <3> QED
      BY <2>1, <2>3, <2>4, <3>1, <3>2
  <2>8. now - q.made <= (ticks - q.ref) * Stride
    BY <2>5 DEF gap
  <2> QED
    BY <2>7, <2>8
<1>8. due' + Lag - q0.made <= (ticks' - q0.ref) * Stride
  <2>1. ticks' - q0.ref = 1 /\ due' + Lag - q0.made = Stride
    BY <1>2, <1>3, CInvTypes DEF Stride
  <2> QED
    BY <2>1, CInvTypes
<1>9. ASSUME NEW q \in Sent', NEW r \in Sent', q.ref < r.ref
      PROVE  r.made - q.made <= (r.ref - q.ref) * Stride
  <2>1. CASE q \in Sent /\ r \in Sent
    BY <1>9, <2>1 DEF CInv, TicksFollow, Stride
  <2>2. CASE q \in Sent /\ r = q0
    BY <1>2, <1>7, <2>2
  <2>3. CASE q = q0
    BY <1>1, <1>2, <1>9, <2>3, CInvTypes DEF CInv, EInv, RefsNameTicks
  <2> QED
    BY <1>1, <2>1, <2>2, <2>3
<1>10. TicksFollow'
  BY <1>1, <1>7, <1>8, <1>9 DEF TicksFollow, Stride
<1> QED
  BY <1>4, <1>5, <1>6, <1>10 DEF CInv

LEMMA CInvStep == CInv /\ [Next]_vars => CInv'
<1> SUFFICES ASSUME CInv, [Next]_vars PROVE CInv'
  OBVIOUS
<1> USE PeriodAssumption
<1>1. EInv' /\ MadeBeforeTheStop /\ MadeBeforeTheStop'
  BY EInvStep DEF CInv, EInv, PInv
<1>2. process \in {"up", "stopped", "gone"}
  BY DEF CInv, EInv, PInv, Typed
<1>3. CASE Tick
  <2>1. process = "up"
    BY <1>1, <1>2, <1>3 DEF Tick, MadeBeforeTheStop
  <2> QED
    BY <1>1, <1>3, <2>1, PublishCInv DEF Tick
<1>4. CASE CrashAndRestart
  BY <1>1, <1>4, PublishCInv DEF CrashAndRestart
\* Once the process is not up, only the calls' age and the book matter.
<1>5. ASSUME process' # "up", UNCHANGED <<now, lost, book>>, underWay' \subseteq underWay
      PROVE  CInv'
  <2>1. OnTime' /\ NoneForgotten' /\ TicksFollow'
    BY <1>5 DEF CInv, OnTime, NoneForgotten, TicksFollow
  <2>2. LossesBounded' /\ NewestTaken'
    BY <1>5 DEF CInv, LossesBounded, NewestTaken
  <2> QED
    BY <1>1, <2>1, <2>2 DEF CInv
<1>6. CASE StopQuotes
  BY <1>5, <1>6 DEF StopQuotes
<1>7. CASE Exit
  BY <1>5, <1>7 DEF Exit
<1>8. CASE TakeQuote
  <2> PICK q \in underWay :
        /\ underWay' = underWay \ {q}
        /\ book' = IF q.expires_at > now THEN book \cup {q} ELSE book
    BY <1>8 DEF TakeQuote
  <2>1. UNCHANGED <<process, timer, now, due, ticks, lost>>
    BY <1>8 DEF TakeQuote
  <2>2. OnTime'
    BY <2>1 DEF CInv, OnTime
  <2>3. LossesBounded'
    BY <2>1 DEF CInv, LossesBounded
  <2>4. Sent' \subseteq Sent
    BY DEF Sent
  <2>5. TicksFollow'
    BY <2>1, <2>4 DEF CInv, TicksFollow
  \* A call under way for less than a validity still finds its quote standing.
  <2>6. ASSUME Delay < Validity PROVE Sent' = Sent
    <3>1. /\ q.made \in Nat /\ q.expires_at = q.made + Validity
          /\ now \in Nat /\ now <= q.made + Delay
      BY DEF CInv, EInv, PInv, Typed, Quotes, ExpiresAfterMade, OnTime
    <3>2. q.expires_at > now
      BY <2>6, <3>1
    <3> QED
      BY <3>2 DEF Sent
  <2>7. NoneForgotten'
    BY <2>1, <2>6 DEF CInv, NoneForgotten
  <2>8. NewestTaken'
    <3>1. \A r \in book \cup {q} : r.ref \in Nat
      BY CInvTypes DEF Sent
    <3>2. CASE book = {}
      BY <3>1, <3>2 DEF NewestTaken
    <3>3. CASE book # {}
      <4>1. PICK newest \in book : \A r \in book : r.ref <= newest.ref
        BY <3>3 DEF CInv, NewestTaken
      <4>2. CASE q.ref <= newest.ref
        BY <4>1, <4>2 DEF NewestTaken
      <4>3. CASE newest.ref < q.ref
        <5>1. \A r \in book \cup {q} : r.ref <= q.ref
          BY <3>1, <4>1, <4>3
        <5>2. book' = book \/ book' = book \cup {q}
          OBVIOUS
        <5> QED
          BY <4>1, <5>1, <5>2 DEF NewestTaken
      <4> QED
        BY <3>1, <4>1, <4>2, <4>3
    <3> QED
      BY <3>2, <3>3
  <2> QED
    BY <1>1, <2>2, <2>3, <2>5, <2>7, <2>8 DEF CInv
<1>9. CASE LoseQuote
  <2> PICK q \in underWay :
        /\ lost' = lost \cup {q.ref}
        /\ \A first \in lost' : ~(first..(first + Losses) \subseteq lost')
        /\ underWay' = underWay \ {q}
    BY <1>9 DEF LoseQuote
  <2>1. UNCHANGED <<process, timer, now, due, ticks, book>>
    BY <1>9 DEF LoseQuote
  <2>2. OnTime' /\ LossesBounded' /\ NewestTaken'
    BY <2>1 DEF CInv, OnTime, LossesBounded, NewestTaken
  <2>3. Sent' \subseteq Sent /\ Sent \subseteq Sent' \cup {q}
    BY <2>1 DEF Sent
  <2>4. TicksFollow'
    BY <2>1, <2>3 DEF CInv, TicksFollow
  <2>5. NoneForgotten'
    BY <2>1, <2>3 DEF CInv, NoneForgotten
  <2> QED
    BY <1>1, <2>2, <2>4, <2>5 DEF CInv
<1>10. CASE PassTime
  <2>1. UNCHANGED <<process, timer, due, ticks, underWay, book, lost>>
    BY <1>10 DEF PassTime
  <2>2. OnTime'
    BY <1>10 DEF CInv, OnTime, PassTime
  <2>3. NoneForgotten' /\ LossesBounded' /\ NewestTaken'
    BY <2>1 DEF CInv, NoneForgotten, LossesBounded, NewestTaken, Sent
  <2>4. TicksFollow'
    BY <2>1 DEF CInv, TicksFollow, Sent
  <2> QED
    BY <1>1, <2>2, <2>3, <2>4 DEF CInv
<1>11. CASE UNCHANGED vars
  <2>1. UNCHANGED <<process, timer, now, due, ticks, underWay, book, lost>>
    BY <1>11 DEF vars
  <2>2. OnTime' /\ NoneForgotten' /\ LossesBounded' /\ NewestTaken' /\ TicksFollow'
    BY <2>1 DEF CInv, OnTime, NoneForgotten, LossesBounded, NewestTaken, TicksFollow, Sent
  <2> QED
    BY <1>1, <2>2 DEF CInv
<1> QED
  BY <1>3, <1>4, <1>6, <1>7, <1>8, <1>9, <1>10, <1>11 DEF Next

\* Were nothing standing, the newest quote t-0 took would have expired, so the
\* Losses + 1 ticks after it would be over and no longer under way: all lost.
LEMMA CInvImplies == CInv => BookStaysCovered
<1> SUFFICES ASSUME CInv, Tolerable, process = "up", book # {}, Standing = {}
             PROVE  FALSE
  BY DEF BookStaysCovered
<1> USE PeriodAssumption
<1>1. PICK b \in book : \A q \in book : q.ref <= b.ref
  BY DEF CInv, NewestTaken
<1>2. /\ ticks \in Nat /\ now \in Nat /\ due \in Nat /\ b.ref \in Nat /\ b.made \in Nat
      /\ \A q \in Sent : q.ref \in Nat /\ q.made \in Nat
      /\ b \in Sent /\ Stride \in Nat \ {0}
  BY <1>1, CInvTypes DEF Sent
<1>3. (Losses + 1) * Stride + Delay < Validity /\ (Losses + 1) * Stride \in Nat
  BY <1>2 DEF Tolerable, Stride
<1>4. b.made + Validity <= now
  <2>1. b.expires_at = b.made + Validity
    BY <1>1 DEF CInv, EInv, PInv, ExpiresAfterMade
  <2>2. ~(b.expires_at > now)
    BY <1>1 DEF Standing
  <2> QED
    BY <1>2, <2>1, <2>2
<1>5. Losses + 1 < ticks - b.ref
  <2>1. due + Lag - b.made <= (ticks - b.ref) * Stride /\ now <= due + Lag
    BY <1>2 DEF CInv, TicksFollow, OnTime, Stride
  <2>2. (Losses + 1) * Stride < (ticks - b.ref) * Stride
    BY <1>2, <1>3, <1>4, <2>1
  <2> QED
    BY <1>2, <2>2, MulLess
<1>6. ASSUME NEW u \in underWay, b.ref < u.ref
      PROVE  Losses + 1 < u.ref - b.ref
  <2>1. u \in Sent /\ u.ref \in Nat /\ u.made \in Nat
    BY <1>2 DEF Sent
  <2>2. now <= u.made + Delay
    BY DEF CInv, OnTime
  <2>3. u.made - b.made <= (u.ref - b.ref) * Stride
    BY <1>2, <1>6, <2>1 DEF CInv, TicksFollow, Stride
  <2>4. (Losses + 1) * Stride < (u.ref - b.ref) * Stride
    BY <1>2, <1>3, <1>4, <2>1, <2>2, <2>3
  <2> QED
    BY <1>2, <2>1, <2>4, MulLess
<1> DEFINE first == b.ref + 1
<1>7. first..(first + Losses) \subseteq lost
  <2> SUFFICES ASSUME NEW n \in first..(first + Losses) PROVE n \in lost
    OBVIOUS
  <2>1. n \in 0..(ticks - 1) /\ b.ref < n /\ n <= b.ref + 1 + Losses
    BY <1>2, <1>5
  <2>2. Delay < Validity
    BY <1>3
  <2>3. n \in lost \/ \E q \in Sent : q.ref = n
    BY <2>1, <2>2 DEF CInv, NoneForgotten
  <2>4. ASSUME NEW q \in book PROVE q.ref # n
    BY <1>1, <1>2, <2>1 DEF Sent
  <2>5. ASSUME NEW q \in underWay PROVE q.ref # n
    BY <1>2, <1>6, <2>1 DEF Sent
  <2> QED
    BY <2>3, <2>4, <2>5 DEF Sent
<1>8. first \in first..(first + Losses)
  BY <1>2
<1> QED
  BY <1>7, <1>8 DEF CInv, LossesBounded

\* Losses publishes lost in a row, each tick Lag late and each call Delay slow,
\* never leave t-0 without a standing quote while the publisher runs, when the
\* validity is longer than they add up to.
THEOREM BookIsCovered == Spec => []BookStaysCovered
  BY CInvInit, CInvStep, CInvImplies, PTL DEF Spec
=============================================================================
