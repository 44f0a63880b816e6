------------------------------- MODULE RateLimits -------------------------------
(***************************************************************************)
(* The fixed-window limiters (domain/rate_limit.rs) that the routes ask    *)
(* before they do anything: a bucket admits Limit calls in a window that   *)
(* starts with the first call after the last window.                       *)
(*                                                                         *)
(* A call reads the clock and then waits for the limiter's mutex, so calls *)
(* may be counted in another order than the one they read the clock in.    *)
(* Time advances in ticks of half a second, because the answer tells the   *)
(* caller to wait a number of whole seconds.                               *)
(***************************************************************************)
EXTENDS Integers, Sequences, FiniteSetsExt

CONSTANTS
  Callers,     \* who calls: users, bots, webhooks, addresses
  Spellings,   \* how callers write who they are
  CallerOf,    \* the caller a spelling stands for
  Calls,       \* calls that can wait for the mutex at the same time
  Limit,       \* calls admitted in a window
  Window,      \* length of a window, in ticks
  MaxDelay,    \* the longest a call waits for the mutex, in ticks
  MaxTime      \* bound: ticks in one behaviour

ASSUME RateLimitsAssumption ==
  /\ Callers # {} /\ CallerOf \in [Spellings -> Callers]
  /\ Limit \in Nat \ {0} /\ Window \in Nat \ {0}
  /\ MaxDelay \in Nat /\ MaxTime \in Nat

VARIABLES
  now,       \* the monotonic clock
  waiting,   \* calls between their reading of the clock and the mutex
  buckets,   \* the map of the limiter
  granted,   \* history: when the calls of each caller were admitted, in order
  refused    \* history: for each caller the last refusal and the wait it told

limitVars == <<now, waiting, buckets, granted, refused>>

TicksPerSecond == 2

Call == [waits : BOOLEAN, by : Callers, read : 0..MaxTime]
NoCall == [waits |-> FALSE, by |-> CHOOSE c \in Callers : TRUE, read |-> 0]

Bucket == [known : BOOLEAN, started : 0..MaxTime, count : 0..Limit]
NoBucket == [known |-> FALSE, started |-> 0, count |-> 0]

\* ends: when the window that refused ends, by the clock of the limiter.
Refusal == [at : 0..MaxTime, wait : Nat, ends : Nat]
NoRefusal == [at |-> 0, wait |-> 0, ends |-> 0]

LimitTypeOK ==
  /\ now \in 0..MaxTime
  /\ waiting \in [Calls -> Call]
  /\ buckets \in [Callers -> Bucket]
  /\ granted \in [Callers -> Seq(0..MaxTime)]
  /\ \A c \in Callers : refused[c] \in Refusal

LimitInit ==
  /\ now = 0
  /\ waiting = [k \in Calls |-> NoCall]
  /\ buckets = [c \in Callers |-> NoBucket]
  /\ granted = [c \in Callers |-> <<>>]
  /\ refused = [c \in Callers |-> NoRefusal]

\* The keys of the map: one per caller, and addresses in their normal form.
BucketOf(spelling) == CallerOf[spelling]

\* check, up to lock(): Instant::now() is taken first.
Arrive(k, spelling) ==
  /\ ~waiting[k].waits
  /\ waiting' = [waiting EXCEPT ![k] = [waits |-> TRUE, by |-> BucketOf(spelling), read |-> now]]
  /\ UNCHANGED <<now, buckets, granted, refused>>

\* duration_since: nothing has passed since an instant that is still to come.
Since(t, started) == IF t > started THEN t - started ELSE 0

\* Mutant: the count starts again, the window does not.
Renewed_KeepsStart(b, t) ==
  IF ~b.known THEN [known |-> TRUE, started |-> t, count |-> 0]
  ELSE IF Since(t, b.started) >= Window THEN [b EXCEPT !.count = 0] ELSE b

\* The entry a call finds: a new one, one whose window is over, or as it was.
Renewed(b, t) ==
  IF ~b.known \/ Since(t, b.started) >= Window
  THEN [known |-> TRUE, started |-> t, count |-> 0] ELSE b

\* reset_after_seconds, in whole seconds rounded down, but one at least.
ResetAfter(b, t) == Max({1, (Window - Since(t, b.started)) \div TicksPerSecond})

\* check under the mutex, with the instant read before.
Check(k) ==
  LET c == waiting[k].by
      t == waiting[k].read
      b == Renewed(buckets[c], t)
  IN  /\ waiting[k].waits
      /\ waiting' = [waiting EXCEPT ![k] = NoCall]
      /\ \/ /\ b.count >= Limit
            /\ buckets' = [buckets EXCEPT ![c] = b]
            /\ refused' = [refused EXCEPT ![c] =
                 [at |-> now, wait |-> ResetAfter(b, t), ends |-> b.started + Window]]
            /\ UNCHANGED <<now, granted>>
         \/ /\ b.count < Limit
            /\ buckets' = [buckets EXCEPT ![c] = [b EXCEPT !.count = @ + 1]]
            /\ granted' = [granted EXCEPT ![c] = Append(@, now)]
            /\ UNCHANGED <<now, refused>>

\* clear, by the route developers reset the limits with, or a restart: what was
\* admitted before counts no more.
Clear ==
  /\ buckets' = [c \in Callers |-> NoBucket]
  /\ granted' = [c \in Callers |-> <<>>]
  /\ refused' = [c \in Callers |-> NoRefusal]
  /\ UNCHANGED <<now, waiting>>

\* The mutex is held for the lookup of one entry only: no call waits longer for
\* it than MaxDelay.
LimitTick ==
  /\ now < MaxTime
  /\ \A k \in Calls : waiting[k].waits => now < waiting[k].read + MaxDelay
  /\ now' = now + 1
  /\ UNCHANGED <<waiting, buckets, granted, refused>>

LimitNext ==
  \/ \E k \in Calls : Check(k) \/ \E s \in Spellings : Arrive(k, s)
  \/ Clear \/ LimitTick

LimitSpec == LimitInit /\ [][LimitNext]_limitVars

(***************************************************************************)
(* Properties.                                                             *)
(***************************************************************************)

\* However a caller's calls fall around the end of a window, in whatever order
\* they get the mutex and however he or she writes the address: of 2 * Limit
\* admitted calls the first and the last are a window apart, less what a call
\* may wait for the mutex.  (A call that has read the clock before the end of a
\* window may be counted in the next one, which another call has opened.)  And
\* whoever is refused and waits as told, and one second more, is past the window
\* that refused, though the told seconds are rounded down and were reckoned from
\* an instant before the answer.
LimitHolds ==
  \A c \in Callers :
    /\ \A i, j \in 1..Len(granted[c]) :
         j - i >= 2 * Limit - 1 => granted[c][j] - granted[c][i] >= Window - MaxDelay
    /\ refused[c] # NoRefusal =>
         refused[c].at + (refused[c].wait + 1) * TicksPerSecond >= refused[c].ends
=============================================================================
