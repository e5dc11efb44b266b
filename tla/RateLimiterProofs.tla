------------------------- MODULE RateLimiterProofs --------------------------
(***************************************************************************)
(* Theorems about the rate limiter, for every number of threads and keys,  *)
(* every limit, window, resolution of the clock and skew.                  *)
(***************************************************************************)
EXTENDS RateLimiter, TLAPS

-----------------------------------------------------------------------------
(* What check does to the deques *)

LEMMA WindowType == WindowTicks \in Nat
  BY LimiterAssumption DEF WindowTicks

\* The deque holds the last of the admitted calls.
Suffix(ev, adm) ==
    /\ Len(ev) <= Len(adm)
    /\ \A i \in 1..Len(ev) : ev[i] = adm[Len(adm) - Len(ev) + i]

\* What is no longer in the deque is old, or as good as old.
Forgotten(ev, adm, time) ==
    \A i \in 1..(Len(adm) - Len(ev)) : adm[i] <= time - WindowTicks + MaxSkew

\* Late by at most MaxSkew: the order of the times of a key's calls.
Ordered(adm) ==
    \A i, j \in DOMAIN adm : i <= j => adm[i] <= adm[j] + MaxSkew

\* The events of a sequence of times are numbers.
LEMMA TimesAre ==
  ASSUME NEW s \in Seq(0..MaxTime)
  PROVE  /\ Len(s) \in Nat /\ DOMAIN s = 1..Len(s)
         /\ \A i \in 1..Len(s) : s[i] \in 0..MaxTime /\ s[i] \in Nat
  BY LimiterAssumption

LEMMA PruneForgets ==
  ASSUME NEW time \in Nat, NEW now \in Nat, now <= time,
         NEW ev \in Seq(0..MaxTime), NEW adm \in Seq(0..MaxTime),
         ev # <<>>, ev[Len(ev)] <= now - WindowTicks, Suffix(ev, adm), Ordered(adm)
  PROVE  Suffix(<<>>, adm) /\ Forgotten(<<>>, adm, time)
<1>a. /\ WindowTicks \in Nat /\ MaxSkew \in Nat /\ MaxTime \in Nat
      /\ Len(ev) \in Nat /\ Len(adm) \in Nat /\ DOMAIN adm = 1..Len(adm)
      /\ \A i \in 1..Len(adm) : adm[i] \in Nat
  BY WindowType, LimiterAssumption, TimesAre
<1>1. Len(ev) >= 1
  BY <1>a
<1>2. ev[Len(ev)] = adm[Len(adm)]
  <2>1. Len(ev) \in 1..Len(ev)
    BY <1>a, <1>1
  <2>2. ev[Len(ev)] = adm[Len(adm) - Len(ev) + Len(ev)]
    BY <2>1 DEF Suffix
  <2>3. Len(adm) - Len(ev) + Len(ev) = Len(adm)
    BY <1>a
  <2> QED BY <2>2, <2>3
<1>3. adm[Len(adm)] <= now - WindowTicks /\ Len(adm) \in 1..Len(adm)
  BY <1>a, <1>1, <1>2 DEF Suffix
<1>4. ASSUME NEW i \in 1..Len(adm) PROVE adm[i] <= adm[Len(adm)] + MaxSkew
  <2>1. i <= Len(adm)
    BY <1>a
  <2> QED BY <1>a, <1>3, <2>1 DEF Ordered
<1>5. \A i \in 1..Len(adm) : adm[i] <= time - WindowTicks + MaxSkew
  BY <1>a, <1>3, <1>4
<1> QED BY <1>a, <1>5 DEF Suffix, Forgotten

\* The events that are left when the first n are popped.
LEMMA RestAfter ==
  ASSUME NEW deque \in Seq(0..MaxTime), NEW n \in 0..Len(deque),
         NEW live, live = SubSeq(deque, n + 1, Len(deque))
  PROVE  /\ live \in Seq(0..MaxTime) /\ Len(live) = Len(deque) - n
         /\ \A i \in 1..Len(live) : live[i] = deque[n + i]
<1>1. Len(deque) \in Nat /\ n \in Nat /\ n <= Len(deque)
  BY TimesAre
<1>2. ASSUME NEW i \in (n + 1)..Len(deque) PROVE deque[i] \in 0..MaxTime
  <2>1. i \in 1..Len(deque)
    BY <1>1
  <2> QED BY <2>1, TimesAre
<1>3. live \in Seq(0..MaxTime)
  BY <1>1, <1>2
<1>4. Len(live) = Len(deque) - n
  BY <1>1
<1>5. \A i \in 1..(Len(deque) - n) : live[i] = deque[n + i]
  BY <1>1
<1> QED BY <1>3, <1>4, <1>5

LEMMA PopForgets ==
  ASSUME NEW time \in Nat, NEW cutoff \in Int, cutoff <= time - WindowTicks,
         NEW deque \in Seq(0..MaxTime), NEW adm \in Seq(0..MaxTime), NEW n \in Nat,
         Suffix(deque, adm), Forgotten(deque, adm, time),
         Popped(deque, cutoff, n),
         NEW live \in Seq(0..MaxTime), Len(live) = Len(deque) - n,
         \A i \in 1..Len(live) : live[i] = deque[n + i]
  PROVE  Suffix(live, adm) /\ Forgotten(live, adm, time)
<1>a. /\ WindowTicks \in Nat /\ MaxSkew \in Nat /\ MaxTime \in Nat
      /\ n \in 0..Len(deque) /\ Len(deque) \in Nat /\ Len(adm) \in Nat
      /\ \A i \in 1..Len(deque) : deque[i] \in Nat
      /\ \A i \in 1..Len(adm) : adm[i] \in Nat
  BY WindowType, LimiterAssumption, TimesAre DEF Popped
<1>1. /\ live \in Seq(0..MaxTime) /\ Len(live) = Len(deque) - n
      /\ \A i \in 1..Len(live) : live[i] = deque[n + i]
  OBVIOUS
<1>2. Suffix(live, adm)
  <2>1. ASSUME NEW i \in 1..Len(live) PROVE live[i] = adm[Len(adm) - Len(live) + i]
    <3>1. n + i \in 1..Len(deque) /\ live[i] = deque[n + i]
      BY <1>a, <1>1
    <3>2. deque[n + i] = adm[Len(adm) - Len(deque) + (n + i)]
      BY <3>1 DEF Suffix
    <3>3. Len(adm) - Len(deque) + (n + i) = Len(adm) - (Len(deque) - n) + i
      BY Len(adm) \in Nat, Len(deque) \in Nat, n \in Nat, i \in Int
    <3> QED BY <1>1, <3>1, <3>2, <3>3
  <2>2. Len(live) <= Len(adm)
    BY <1>a, <1>1 DEF Suffix
  <2> QED BY <2>1, <2>2 DEF Suffix
<1>3. ASSUME NEW m \in 1..n
      PROVE  adm[Len(adm) - Len(deque) + m] <= time - WindowTicks
  <2>1. m \in 1..Len(deque)
    BY <1>a
  <2>2. adm[Len(adm) - Len(deque) + m] = deque[m] /\ deque[m] <= cutoff
    BY <2>1 DEF Suffix, Popped
  <2>3. deque[m] \in Nat
    BY <1>a, <2>1
  <2> QED BY ONLY <2>2, <2>3, cutoff \in Int, time \in Nat, WindowTicks \in Nat,
             cutoff <= time - WindowTicks, WindowType, LimiterAssumption
<1>4. ASSUME NEW i \in 1..(Len(adm) - Len(live))
      PROVE  adm[i] <= time - WindowTicks + MaxSkew
  <2>0. i \in Nat
    BY <1>a, <1>1
  <2>1. CASE i <= Len(adm) - Len(deque)
    <3>1. i \in 1..(Len(adm) - Len(deque))
      BY <1>a, <2>0, <2>1
    <3> QED BY <3>1 DEF Forgotten
  <2>2. CASE ~(i <= Len(adm) - Len(deque))
    <3>1. i - (Len(adm) - Len(deque)) \in 1..n
      BY <1>a, <1>1, <2>0, <2>2
    <3>2. Len(adm) - Len(deque) + (i - (Len(adm) - Len(deque))) = i
      BY <1>a, <2>0
    <3>3. adm[i] <= time - WindowTicks
      BY <1>3, <3>1, <3>2
    <3>4. i \in 1..Len(adm) /\ adm[i] \in Nat
      BY <1>a, <1>1, <2>0
    <3> QED BY ONLY <3>3, <3>4, time \in Nat, WindowType, LimiterAssumption
  <2> QED BY <2>1, <2>2
<1> QED BY <1>2, <1>4 DEF Forgotten

\* Appending the admitted call to both keeps the deque the last of the calls.
LEMMA AppendSuffix ==
  ASSUME NEW ev \in Seq(0..MaxTime), NEW adm \in Seq(0..MaxTime), Suffix(ev, adm),
         NEW now \in 0..MaxTime, NEW time \in Nat, Forgotten(ev, adm, time)
  PROVE  /\ Suffix(Append(ev, now), Append(adm, now))
         /\ Forgotten(Append(ev, now), Append(adm, now), time)
<1>a. /\ Len(ev) \in Nat /\ Len(adm) \in Nat
      /\ Len(Append(ev, now)) = Len(ev) + 1 /\ Len(Append(adm, now)) = Len(adm) + 1
      /\ \A i \in 1..Len(ev) : Append(ev, now)[i] = ev[i]
      /\ \A i \in 1..Len(adm) : Append(adm, now)[i] = adm[i]
      /\ Append(ev, now)[Len(ev) + 1] = now /\ Append(adm, now)[Len(adm) + 1] = now
  BY LimiterAssumption
<1>1. ASSUME NEW i \in 1..(Len(ev) + 1)
      PROVE  Append(ev, now)[i] = Append(adm, now)[Len(adm) - Len(ev) + i]
  <2>1. CASE i = Len(ev) + 1
    BY <1>a, <2>1 DEF Suffix
  <2>2. CASE i \in 1..Len(ev)
    <3>1. /\ ev[i] = adm[Len(adm) - Len(ev) + i]
          /\ Len(adm) - Len(ev) + i \in 1..Len(adm)
      BY <1>a, <2>2 DEF Suffix
    <3> QED BY <1>a, <2>2, <3>1
  <2>3. i = Len(ev) + 1 \/ i \in 1..Len(ev)
    BY <1>a
  <2> QED BY <2>1, <2>2, <2>3
<1>2. Suffix(Append(ev, now), Append(adm, now))
  <2>1. Len(Append(ev, now)) <= Len(Append(adm, now))
    BY <1>a DEF Suffix
  <2>2. Len(Append(adm, now)) - Len(Append(ev, now)) = Len(adm) - Len(ev)
    BY <1>a
  <2> QED BY <1>a, <1>1, <2>1, <2>2 DEF Suffix
<1>3. \A i \in 1..(Len(adm) - Len(ev)) : i \in 1..Len(adm) /\ Append(adm, now)[i] = adm[i]
  BY <1>a DEF Suffix
<1>4. Len(Append(adm, now)) - Len(Append(ev, now)) = Len(adm) - Len(ev)
  BY <1>a
<1> QED BY <1>2, <1>3, <1>4 DEF Forgotten

-----------------------------------------------------------------------------
(* Types, and the distance between admitted calls *)

Spaced(adm) ==
    \A i, j \in DOMAIN adm : i + Limit <= j => adm[i] + Spacing <= adm[j]

KeyInv(ev, adm, time) ==
    /\ Suffix(ev, adm) /\ Forgotten(ev, adm, time)
    /\ Ordered(adm) /\ Spaced(adm)
    /\ \A i \in DOMAIN adm : adm[i] <= time

\* The inductive strengthening of WindowBound: who has read the clock gets the lock
\* within MaxSkew, and what the deque has lost is old.
LimInv ==
    /\ \A t \in Threads : Calling(t) =>
          reading[t].now <= clock /\ clock <= reading[t].now + MaxSkew
    /\ \A k \in Keys : KeyInv(events[k], admitted[k], clock)

LEMMA TimePasses ==
  ASSUME NEW time \in Nat, NEW ev \in Seq(0..MaxTime), NEW adm \in Seq(0..MaxTime),
         KeyInv(ev, adm, time)
  PROVE  KeyInv(ev, adm, time + 1)
<1>a. /\ WindowTicks \in Nat /\ MaxSkew \in Nat
      /\ \A i \in 1..Len(adm) : adm[i] \in Nat
      /\ DOMAIN adm = 1..Len(adm) /\ Len(adm) \in Nat /\ Len(ev) \in Nat
  BY WindowType, LimiterAssumption, TimesAre
<1>1. \A i \in DOMAIN adm : adm[i] <= time + 1
  BY <1>a DEF KeyInv
<1>2. ASSUME NEW i \in 1..(Len(adm) - Len(ev))
      PROVE  adm[i] <= (time + 1) - WindowTicks + MaxSkew
  <2>1. i \in 1..Len(adm) /\ adm[i] <= time - WindowTicks + MaxSkew
    BY <1>a DEF KeyInv, Forgotten
  <2> QED BY <1>a, <2>1
<1>3. Forgotten(ev, adm, time + 1)
  BY <1>2 DEF Forgotten
<1> QED BY <1>1, <1>3, Zenon DEF KeyInv

\* A call that finds fewer than Limit live events is Spacing after the call Limit
\* places before it: that one is forgotten.
LEMMA AdmitKeepsKey ==
  ASSUME NEW time \in 0..MaxTime, NEW now \in 0..MaxTime, now <= time, time <= now + MaxSkew,
         NEW live \in Seq(0..MaxTime), NEW adm \in Seq(0..MaxTime), KeyInv(live, adm, time),
         Len(live) < Limit
  PROVE  KeyInv(Append(live, now), Append(adm, now), time)
<1> DEFINE new == Append(adm, now)
<1>a. /\ WindowTicks \in Nat /\ MaxSkew \in Nat /\ Limit \in Nat /\ MaxTime \in Nat
      /\ Spacing = WindowTicks - 2 * MaxSkew /\ Spacing \in Int
      /\ \A i \in 1..Len(adm) : adm[i] \in Nat /\ adm[i] <= time
      /\ DOMAIN adm = 1..Len(adm) /\ Len(adm) \in Nat /\ Len(live) \in Nat
      /\ now \in Nat /\ time \in Nat
  BY WindowType, LimiterAssumption, TimesAre DEF KeyInv, Spacing
<1>b. /\ DOMAIN new = 1..(Len(adm) + 1) /\ new[Len(adm) + 1] = now
      /\ \A i \in 1..Len(adm) : new[i] = adm[i]
  BY <1>a
<1> HIDE DEF new
<1>c. \A i \in DOMAIN new : i \in 1..Len(adm) \/ i = Len(adm) + 1
  BY <1>a, <1>b
<1>1. Suffix(Append(live, now), new) /\ Forgotten(Append(live, now), new, time)
  BY <1>a, AppendSuffix DEF KeyInv, new
<1>2. \A i \in DOMAIN new : new[i] <= time
  BY <1>a, <1>b, <1>c
<1>3. ASSUME NEW i \in DOMAIN new, NEW j \in DOMAIN new, i <= j
      PROVE  new[i] <= new[j] + MaxSkew
  <2>1. CASE j \in 1..Len(adm)
    <3>1. i \in 1..Len(adm)
      BY <1>a, <1>b, <1>3, <2>1
    <3> QED BY <1>a, <1>b, <1>3, <2>1, <3>1 DEF KeyInv, Ordered
  <2>2. CASE j = Len(adm) + 1
    <3>1. new[j] = now /\ new[i] <= time
      BY <1>2, <1>b, <2>2
    <3>2. new[i] \in Nat
      BY <1>a, <1>b, <1>c
    <3> QED BY <1>a, <3>1, <3>2
  <2> QED BY <1>c, <2>1, <2>2
<1>4. ASSUME NEW i \in DOMAIN new, NEW j \in DOMAIN new, i + Limit <= j
      PROVE  new[i] + Spacing <= new[j]
  <2>1. i \in 1..Len(adm) /\ new[i] = adm[i] /\ adm[i] \in Nat
    BY <1>a, <1>b, <1>4, LimiterAssumption
  <2>2. CASE j \in 1..Len(adm)
    BY <1>a, <1>b, <1>4, <2>1, <2>2 DEF KeyInv, Spaced
  <2>3. CASE j = Len(adm) + 1
    <3>1. i \in 1..(Len(adm) - Len(live))
      BY <1>a, <1>4, <2>1, <2>3
    <3>2. adm[i] <= time - WindowTicks + MaxSkew
      BY <3>1 DEF KeyInv, Forgotten
    <3>3. new[j] = now
      BY <1>b, <2>3
    <3>4. adm[i] + Spacing <= now
      BY <1>a, <2>1, <3>2
    <3> QED BY <2>1, <3>3, <3>4
  <2> QED BY <1>c, <2>2, <2>3
<1> QED BY <1>1, <1>2, <1>3, <1>4 DEF KeyInv, Ordered, Spaced, new

\* The deque that _prune_stale_keys leaves for a key.
LEMMA PruneKeepsKey ==
  ASSUME LimiterTypeOK, LimInv, NEW now \in 0..MaxTime, now <= clock, NEW k \in Keys
  PROVE  /\ Pruned(now - WindowTicks)[k] \in {events[k], <<>>}
         /\ Pruned(now - WindowTicks)[k] \in Seq(0..MaxTime)
         /\ Len(Pruned(now - WindowTicks)[k]) <= Limit
         /\ KeyInv(Pruned(now - WindowTicks)[k], admitted[k], clock)
<1>a. /\ events[k] \in Seq(0..MaxTime) /\ Len(events[k]) <= Limit
      /\ admitted[k] \in Seq(0..MaxTime)
      /\ now \in Nat /\ clock \in Nat /\ KeyInv(events[k], admitted[k], clock)
  BY LimiterAssumption DEF LimiterTypeOK, LimInv
<1>1. CASE Pruned(now - WindowTicks)[k] = events[k]
  BY <1>a, <1>1
<1>2. CASE events[k] # <<>> /\ events[k][Len(events[k])] <= now - WindowTicks
  <2>1. Pruned(now - WindowTicks)[k] = <<>>
    BY <1>2 DEF Pruned
  <2>2. Suffix(<<>>, admitted[k]) /\ Forgotten(<<>>, admitted[k], clock)
    BY <1>a, <1>2, PruneForgets DEF KeyInv
  <2>3. KeyInv(<<>>, admitted[k], clock)
    BY <1>a, <2>2 DEF KeyInv
  <2>4. <<>> \in Seq(0..MaxTime) /\ Len(<<>>) <= Limit
    BY LimiterAssumption
  <2> QED BY <2>1, <2>3, <2>4
<1>3. \/ Pruned(now - WindowTicks)[k] = events[k]
      \/ events[k] # <<>> /\ events[k][Len(events[k])] <= now - WindowTicks
  BY DEF Pruned
<1> QED BY <1>1, <1>2, <1>3

\* What check(key) does, in terms of the live events it is left with.
CheckEffect(t, k, now, live) ==
    /\ reading' = [reading EXCEPT ![t] = NotCalling] /\ clock' = clock
    /\ live \in Seq(0..MaxTime) /\ Len(live) <= Limit
    /\ KeyInv(live, admitted[k], clock)
    /\ Len(live) = Limit => /\ live[1] = events[k][1] /\ events[k] # <<>>
                            /\ live[1] > now - WindowTicks
    /\ Allow(k, now, live) \/ TurnAway(k, now, live)

LEMMA CheckHasEffect ==
  ASSUME LimiterTypeOK, LimInv, NEW t \in Threads, Check(t)
  PROVE  /\ reading[t].key \in Keys /\ reading[t].now \in 0..MaxTime
         /\ reading[t].now <= clock /\ clock <= reading[t].now + MaxSkew
         /\ \E live : CheckEffect(t, reading[t].key, reading[t].now, live)
<1>a. /\ reading[t].key \in Keys /\ reading[t].now \in 0..MaxTime
      /\ reading[t].now <= clock /\ clock <= reading[t].now + MaxSkew
  <2>1. reading[t] \in [key : Keys, now : 0..MaxTime]
    BY DEF Check, Calling, LimiterTypeOK, Readings
  <2> QED BY <2>1 DEF Check, LimInv
<1> PICK k \in Keys, now \in 0..MaxTime : k = reading[t].key /\ now = reading[t].now
  BY <1>a
<1> PICK deque : deque = Pruned(now - WindowTicks)[k]
  OBVIOUS
<1>b. /\ deque \in Seq(0..MaxTime) /\ Len(deque) <= Limit
      /\ deque \in {events[k], <<>>} /\ KeyInv(deque, admitted[k], clock)
  BY <1>a, PruneKeepsKey
<1>c. \E n \in 0..Len(deque) :
         /\ Popped(deque, now - WindowTicks, n)
         /\ LET live == SubSeq(deque, n + 1, Len(deque))
            IN  Allow(k, now, live) \/ TurnAway(k, now, live)
  BY DEF Check
<1>f. PICK n \in 0..Len(deque) :
         /\ Popped(deque, now - WindowTicks, n)
         /\ LET live == SubSeq(deque, n + 1, Len(deque))
            IN  Allow(k, now, live) \/ TurnAway(k, now, live)
  BY <1>c
<1>g. PICK live :
         /\ live = SubSeq(deque, n + 1, Len(deque))
         /\ Allow(k, now, live) \/ TurnAway(k, now, live)
  BY <1>f
<1>d. /\ admitted[k] \in Seq(0..MaxTime) /\ clock \in Nat /\ now \in Nat /\ n \in Nat
      /\ Len(deque) \in Nat /\ Limit \in Nat /\ Limit >= 1 /\ WindowTicks \in Nat
      /\ \A i \in 1..Len(deque) : deque[i] \in Nat
  <2>1. Len(deque) \in Nat /\ \A i \in 1..Len(deque) : deque[i] \in Nat
    BY <1>b, TimesAre
  <2>2. n \in Nat
    BY <1>f, <2>1
  <2> QED BY <2>1, <2>2, LimiterAssumption, WindowType DEF LimiterTypeOK
<1>e. /\ live \in Seq(0..MaxTime) /\ Len(live) = Len(deque) - n
      /\ \A i \in 1..Len(live) : live[i] = deque[n + i]
      /\ Suffix(live, admitted[k]) /\ Forgotten(live, admitted[k], clock)
  <2>1. Suffix(deque, admitted[k]) /\ Forgotten(deque, admitted[k], clock)
    BY <1>b DEF KeyInv
  <2>2. Popped(deque, now - WindowTicks, n) /\ live = SubSeq(deque, n + 1, Len(deque))
    BY <1>f, <1>g
  <2>3. now - WindowTicks \in Int /\ now - WindowTicks <= clock - WindowTicks
    BY <1>a, <1>d
  <2>4. deque \in Seq(0..MaxTime)
    BY <1>b
  <2>5. /\ live \in Seq(0..MaxTime) /\ Len(live) = Len(deque) - n
        /\ \A i \in 1..Len(live) : live[i] = deque[n + i]
    BY ONLY <2>2, <2>4, n \in 0..Len(deque), RestAfter
  <2>6. Suffix(live, admitted[k]) /\ Forgotten(live, admitted[k], clock)
    <3>1. clock \in Nat /\ n \in Nat /\ admitted[k] \in Seq(0..MaxTime)
      BY <1>d
    <3> QED BY ONLY <2>1, <2>2, <2>3, <2>4, <2>5, <3>1, PopForgets
  <2> QED BY <2>5, <2>6
<1>1. KeyInv(live, admitted[k], clock)
  BY <1>b, <1>e DEF KeyInv
<1>2. Len(live) <= Limit
  <2>1. n >= 0
    BY <1>d
  <2> QED BY ONLY <1>b, <1>d, <1>e, <2>1
<1>3. ASSUME Len(live) = Limit
      PROVE  /\ live[1] = events[k][1] /\ events[k] # <<>>
             /\ live[1] > now - WindowTicks
  <2>1. n = 0 /\ Len(deque) >= 1
    <3>1. n >= 0
      BY <1>d
    <3> QED BY ONLY <1>3, <1>b, <1>d, <1>e, <3>1
  <2>2. deque = events[k] /\ deque # <<>>
    <3>1. deque # <<>>
      BY ONLY <2>1
    <3> QED BY ONLY <1>b, <3>1
  <2>3. 1 \in 1..Len(live) /\ live[1] = deque[n + 1]
    BY ONLY <1>3, <1>d, <1>e
  <2>4. deque[n + 1] > now - WindowTicks
    BY <1>f, <2>1 DEF Popped
  <2> QED BY ONLY <2>1, <2>2, <2>3, <2>4
<1>4. reading' = [reading EXCEPT ![t] = NotCalling] /\ clock' = clock
  BY DEF Check
<1>5. CheckEffect(t, k, now, live)
  BY <1>e, <1>g, <1>1, <1>2, <1>3, <1>4 DEF CheckEffect
<1> QED BY <1>a, <1>5

\* The hint of a refusal covers the wait it was computed from.
LEMMA RetryCovers ==
  ASSUME NEW wait \in Int
  PROVE  /\ TicksPerSecond * RetryAfter(wait) \in Nat
         /\ wait <= TicksPerSecond * RetryAfter(wait)
<1> PICK tps \in Nat \ {0}, q \in Int :
         tps = TicksPerSecond /\ q = (wait + tps - 1) \div tps
  BY LimiterAssumption
<1>1. wait <= tps * q
  BY SMTT(30)
<1>2. RetryAfter(wait) = IF q > 1 THEN q ELSE 1
  BY DEF RetryAfter
<1>3. q <= RetryAfter(wait) /\ RetryAfter(wait) \in Nat \ {0}
  BY <1>2
<1>4. tps * q <= tps * RetryAfter(wait) /\ tps * RetryAfter(wait) \in Nat
  BY <1>3, SMTT(30)
<1> QED BY <1>1, <1>4

LEMMA CheckKeepsLimiter ==
  ASSUME LimiterTypeOK, LimInv, NEW t \in Threads, NEW k \in Keys, NEW now \in 0..MaxTime,
         now <= clock, clock <= now + MaxSkew, NEW live, CheckEffect(t, k, now, live)
  PROVE  LimiterTypeOK' /\ LimInv'
<1>a. /\ reading \in [Threads -> Readings] /\ events \in [Keys -> Seq(0..MaxTime)]
      /\ admitted \in [Keys -> Seq(0..MaxTime)] /\ promised \in [Keys -> Int]
      /\ clock \in 0..MaxTime /\ Limit \in Nat /\ Limit >= 1 /\ WindowTicks \in Nat
  BY LimiterAssumption, WindowType DEF LimiterTypeOK
<1>b. /\ reading' = [reading EXCEPT ![t] = NotCalling] /\ clock' = clock
      /\ live \in Seq(0..MaxTime) /\ Len(live) <= Limit
      /\ KeyInv(live, admitted[k], clock)
  BY DEF CheckEffect
<1>1. reading' \in [Threads -> Readings] /\ clock' \in 0..MaxTime
  BY <1>a, <1>b DEF Readings
<1>2. \A s \in Threads : Calling(s)' =>
         reading'[s].now <= clock' /\ clock' <= reading'[s].now + MaxSkew
  BY <1>a, <1>b DEF LimInv, Calling
<1>c. ASSUME NEW j \in Keys
      PROVE  LET deque == Pruned(now - WindowTicks)[j]
             IN  /\ deque \in Seq(0..MaxTime) /\ Len(deque) <= Limit
                 /\ KeyInv(deque, admitted[j], clock)
  BY PruneKeepsKey
<1>3. CASE Allow(k, now, live)
  <2>1. /\ Append(live, now) \in Seq(0..MaxTime) /\ Len(Append(live, now)) <= Limit
        /\ Append(admitted[k], now) \in Seq(0..MaxTime) /\ Len(live) < Limit
    <3>1. Len(live) < Limit /\ Len(live) \in Nat
      BY <1>3, <1>b, TimesAre DEF Allow
    <3> QED BY <1>a, <1>b, <3>1
  <2>2. KeyInv(Append(live, now), Append(admitted[k], now), clock)
    BY <1>a, <1>b, <2>1, AdmitKeepsKey
  <2>3. /\ events' = [Pruned(now - WindowTicks) EXCEPT ![k] = Append(live, now)]
        /\ admitted' = [admitted EXCEPT ![k] = Append(admitted[k], now)]
        /\ promised' = [promised EXCEPT ![k] = NoPromise]
    BY <1>3 DEF Allow
  <2>4. ASSUME NEW j \in Keys
        PROVE  /\ events'[j] \in Seq(0..MaxTime) /\ Len(events'[j]) <= Limit
               /\ KeyInv(events'[j], admitted'[j], clock)
    <3>1. CASE j = k
      BY <1>a, <2>1, <2>2, <2>3, <3>1 DEF Pruned
    <3>2. CASE j # k
      <4>1. events'[j] = Pruned(now - WindowTicks)[j] /\ admitted'[j] = admitted[j]
        BY <1>a, <2>3, <3>2 DEF Pruned
      <4> QED BY <1>c, <4>1
    <3> QED BY <3>1, <3>2
  <2>5. events' \in [Keys -> Seq(0..MaxTime)]
    BY <2>3, <2>4 DEF Pruned
  <2>6. admitted' \in [Keys -> Seq(0..MaxTime)] /\ promised' \in [Keys -> Int]
    BY <1>a, <2>1, <2>3 DEF NoPromise
  <2> QED BY <1>1, <1>2, <1>b, <2>4, <2>5, <2>6 DEF LimiterTypeOK, LimInv
<1>4. CASE TurnAway(k, now, live)
  <2>1. /\ events' = [Pruned(now - WindowTicks) EXCEPT ![k] = live]
        /\ admitted' = admitted
        /\ promised' = [promised EXCEPT ![k] =
              now + TicksPerSecond * RetryAfter(WindowTicks - (now - live[1]))]
    BY <1>4 DEF TurnAway
  <2>2. ASSUME NEW j \in Keys
        PROVE  /\ events'[j] \in Seq(0..MaxTime) /\ Len(events'[j]) <= Limit
               /\ KeyInv(events'[j], admitted'[j], clock)
    <3>1. CASE j = k
      BY <1>a, <1>b, <2>1, <3>1 DEF Pruned
    <3>2. CASE j # k
      <4>1. events'[j] = Pruned(now - WindowTicks)[j] /\ admitted'[j] = admitted[j]
        BY <1>a, <2>1, <3>2 DEF Pruned
      <4> QED BY <1>c, <4>1
    <3> QED BY <3>1, <3>2
  <2>3. events' \in [Keys -> Seq(0..MaxTime)]
    BY <2>1, <2>2 DEF Pruned
  <2>4. promised' \in [Keys -> Int]
    <3>1. 1 \in 1..Len(live)
      BY <1>4, <1>a, <1>b, TimesAre DEF TurnAway
    <3>2. WindowTicks - (now - live[1]) \in Int /\ now \in Int
      BY <1>a, <1>b, <3>1, TimesAre
    <3>3. now + TicksPerSecond * RetryAfter(WindowTicks - (now - live[1])) \in Int
      BY <3>2, RetryCovers
    <3> QED BY <1>a, <2>1, <3>3
  <2> QED BY <1>1, <1>2, <1>a, <1>b, <2>1, <2>2, <2>3, <2>4 DEF LimiterTypeOK, LimInv
<1> QED BY <1>3, <1>4 DEF CheckEffect

LEMMA StepKeepsLimiter ==
  ASSUME LimiterTypeOK, LimInv, [LimiterNext]_limiterVars
  PROVE  LimiterTypeOK' /\ LimInv'
<1>a. /\ reading \in [Threads -> Readings] /\ events \in [Keys -> Seq(0..MaxTime)]
      /\ admitted \in [Keys -> Seq(0..MaxTime)] /\ clock \in 0..MaxTime /\ MaxTime \in Nat
      /\ MaxSkew \in Nat /\ clock \in Nat
  BY LimiterAssumption DEF LimiterTypeOK
<1>1. ASSUME NEW t \in Threads, NEW k \in Keys, ReadClock(t, k)
      PROVE  LimiterTypeOK' /\ LimInv'
  <2>1. reading' \in [Threads -> Readings]
    BY <1>1, <1>a DEF ReadClock, Readings
  <2>2. \A s \in Threads : Calling(s)' =>
           reading'[s].now <= clock' /\ clock' <= reading'[s].now + MaxSkew
    BY <1>1, <1>a DEF ReadClock, LimInv, Calling
  <2> QED BY <1>1, <2>1, <2>2 DEF ReadClock, LimiterTypeOK, LimInv
<1>2. ASSUME NEW t \in Threads, Check(t)
      PROVE  LimiterTypeOK' /\ LimInv'
  BY <1>2, CheckHasEffect, CheckKeepsLimiter
<1>3. CASE Tick
  <2>1. /\ clock' = clock + 1 /\ clock' \in 0..MaxTime
        /\ UNCHANGED <<reading, events, admitted, promised>>
    BY <1>3, <1>a DEF Tick
  <2>2. \A t \in Threads : Calling(t) => reading[t] \in [key : Keys, now : 0..MaxTime]
    BY <1>a DEF Calling, Readings
  <2>3. \A s \in Threads : Calling(s)' =>
           reading'[s].now <= clock' /\ clock' <= reading'[s].now + MaxSkew
    BY <1>3, <1>a, <2>1, <2>2 DEF Tick, LimInv, Calling
  <2>4. \A k \in Keys : KeyInv(events[k], admitted[k], clock + 1)
    BY <1>a, TimePasses DEF LimInv
  <2> QED BY <2>1, <2>3, <2>4 DEF LimiterTypeOK, LimInv
<1>4. CASE UNCHANGED limiterVars
  BY <1>4 DEF limiterVars, LimiterTypeOK, LimInv, Calling
<1> QED BY <1>1, <1>2, <1>3, <1>4 DEF LimiterNext

LEMMA AlwaysLimiter == LimiterSpec => [](LimiterTypeOK /\ LimInv)
<1>1. LimiterInit => LimiterTypeOK /\ LimInv
  <2> SUFFICES ASSUME LimiterInit PROVE LimiterTypeOK /\ LimInv
    OBVIOUS
  <2>1. LimiterTypeOK
    BY LimiterAssumption DEF LimiterInit, LimiterTypeOK, Readings, NoPromise
  <2>2. KeyInv(<<>>, <<>>, 0)
    BY DEF KeyInv, Suffix, Forgotten, Ordered, Spaced
  <2> QED BY <2>1, <2>2 DEF LimiterInit, LimInv, Calling
<1> QED BY <1>1, StepKeepsLimiter, PTL DEF LimiterSpec

\* Type correctness of the limiter; no deque ever holds more than Limit events.
THEOREM EventsAreBounded == LimiterSpec => []LimiterTypeOK
  BY AlwaysLimiter, PTL

\* Whatever order threads reach the lock in, calls Limit apart are Spacing apart.
THEOREM WindowIsBound == LimiterSpec => []WindowBound
<1>1. LimInv => WindowBound
  BY DEF LimInv, KeyInv, Spaced, WindowBound
<1> QED BY <1>1, AlwaysLimiter, PTL

\* Only a client with Limit calls in the window and the skew before its reading is
\* turned away.
THEOREM RefusalsDue == LimiterSpec => RefusalsAreDue
<1> DEFINE Due(t) ==
      LET calls == admitted[reading[t].key]
      IN  /\ Len(calls) >= Limit
          /\ \A i \in DOMAIN calls : i + Limit > Len(calls) =>
                 calls[i] > reading[t].now - WindowTicks - MaxSkew
<1> DEFINE AllDue ==
      \A t \in Threads :
           /\ Calling(t) /\ ~Calling(t)'
           /\ admitted'[reading[t].key] = admitted[reading[t].key]
           => Due(t)
<1>1. ASSUME LimiterTypeOK, LimInv, [LimiterNext]_limiterVars
      PROVE  AllDue
  <2> SUFFICES ASSUME NEW t \in Threads, Calling(t), ~Calling(t)',
                      admitted'[reading[t].key] = admitted[reading[t].key]
               PROVE  Due(t)
    OBVIOUS
  <2>1. Check(t)
    BY <1>1 DEF LimiterNext, Calling, Check, ReadClock, Tick, limiterVars, LimiterTypeOK
  <2> PICK k \in Keys, now \in 0..MaxTime :
         /\ k = reading[t].key /\ now = reading[t].now
         /\ \E live : CheckEffect(t, k, now, live)
    BY <1>1, <2>1, CheckHasEffect
  <2> PICK live : CheckEffect(t, k, now, live)
    OBVIOUS
  <2> PICK calls \in Seq(0..MaxTime) : calls = admitted[k]
    BY <1>1 DEF LimiterTypeOK
  <2>2. /\ live \in Seq(0..MaxTime) /\ WindowTicks \in Nat /\ Limit \in Nat /\ Limit >= 1
        /\ Len(live) \in Nat /\ Len(calls) \in Nat /\ DOMAIN calls = 1..Len(calls)
        /\ now \in Nat /\ MaxSkew \in Nat /\ \A i \in 1..Len(calls) : calls[i] \in Nat
    BY LimiterAssumption, WindowType, TimesAre DEF CheckEffect
  <2>3. TurnAway(k, now, live)
    <3> SUFFICES ASSUME Allow(k, now, live) PROVE FALSE
      BY DEF CheckEffect
    <3>1. admitted'[k] = Append(calls, now)
      BY <1>1 DEF Allow, LimiterTypeOK
    <3>2. Len(admitted'[k]) = Len(calls) + 1
      BY <2>2, <3>1
    <3> QED BY <2>2, <3>2
  <2>4. Len(live) = Limit
    BY <2>2, <2>3 DEF TurnAway, CheckEffect
  <2>5. Suffix(live, calls) /\ Ordered(calls) /\ live[1] > now - WindowTicks
    BY <2>4 DEF CheckEffect, KeyInv
  <2>6. /\ Len(calls) >= Limit /\ 1 \in 1..Len(live)
        /\ live[1] = calls[Len(calls) - Limit + 1]
    BY <2>2, <2>4, <2>5 DEF Suffix
  <2>7. ASSUME NEW i \in DOMAIN calls, i + Limit > Len(calls)
        PROVE  calls[i] > now - WindowTicks - MaxSkew
    <3> PICK first \in 1..Len(calls) : first = Len(calls) - Limit + 1
      BY <2>2, <2>6
    <3>1. first <= i /\ i \in 1..Len(calls)
      BY <2>2, <2>7
    <3>2. calls[first] <= calls[i] + MaxSkew
      BY <2>2, <2>5, <3>1 DEF Ordered
    <3>3. calls[first] > now - WindowTicks
      BY <2>5, <2>6
    <3>4. calls[first] \in Nat /\ calls[i] \in Nat
      BY <2>2, <3>1
    <3> QED BY ONLY <2>2, <3>2, <3>3, <3>4
  <2> QED BY <2>6, <2>7
<1>2. LimiterSpec => [][AllDue]_limiterVars
  BY <1>1, AlwaysLimiter, PTL DEF LimiterSpec
<1> QED BY <1>2 DEF RefusalsAreDue

-----------------------------------------------------------------------------
(* Retry-After *)

\* The hint still covers the oldest event, unless that has been forgotten.
PromiseInv ==
    \A k \in Keys : promised[k] # NoPromise =>
        events[k] = <<>> \/ events[k][1] + WindowTicks <= promised[k]

LEMMA CheckKeepsPromise ==
  ASSUME LimiterTypeOK, LimInv, PromiseInv, NEW t \in Threads, NEW k \in Keys,
         NEW now \in 0..MaxTime, now <= clock, NEW live, CheckEffect(t, k, now, live)
  PROVE  PromiseInv'
<1>a. /\ events \in [Keys -> Seq(0..MaxTime)] /\ promised \in [Keys -> Int]
      /\ live \in Seq(0..MaxTime) /\ Limit \in Nat /\ Limit >= 1 /\ WindowTicks \in Nat
  BY LimiterAssumption, WindowType DEF LimiterTypeOK, CheckEffect
<1>b. ASSUME NEW j \in Keys, j # k
      PROVE  events'[j] \in {events[j], <<>>} /\ promised'[j] = promised[j]
  <2>1. events'[j] = Pruned(now - WindowTicks)[j] /\ promised'[j] = promised[j]
    BY <1>a, <1>b DEF CheckEffect, Allow, TurnAway, Pruned
  <2> QED BY <2>1, PruneKeepsKey
<1> SUFFICES ASSUME NEW j \in Keys, promised'[j] # NoPromise
             PROVE  events'[j] = <<>> \/ events'[j][1] + WindowTicks <= promised'[j]
  BY DEF PromiseInv
<1>1. CASE j # k
  BY <1>1, <1>b DEF PromiseInv
<1>2. CASE j = k
  <2>1. TurnAway(k, now, live)
    BY <1>a, <1>2 DEF CheckEffect, Allow
  <2>2. /\ events'[k] = live
        /\ promised'[k] = now + TicksPerSecond * RetryAfter(WindowTicks - (now - live[1]))
    BY <1>a, <2>1 DEF TurnAway, Pruned
  <2>3. live[1] \in Int /\ now \in Int
    <3>1. 1 \in 1..Len(live)
      BY <1>a, <2>1, TimesAre DEF TurnAway
    <3> QED BY <1>a, <3>1, TimesAre
  <2>4. WindowTicks - (now - live[1]) \in Int
    BY <1>a, <2>3
  <2>5. /\ TicksPerSecond * RetryAfter(WindowTicks - (now - live[1])) \in Int
        /\ WindowTicks - (now - live[1])
             <= TicksPerSecond * RetryAfter(WindowTicks - (now - live[1]))
    BY <2>4, RetryCovers
  <2> QED BY <1>2, <1>a, <2>2, <2>3, <2>5
<1> QED BY <1>1, <1>2

\* Who waits as long as Retry-After said, and whose address got no call through
\* meanwhile, is admitted.
THEOREM RetryWorks == LimiterSpec => RetryIsHonest
<1>1. LimiterInit => PromiseInv
  BY DEF LimiterInit, PromiseInv
<1>2. ASSUME LimiterTypeOK, LimInv, PromiseInv, [LimiterNext]_limiterVars
      PROVE  PromiseInv'
  <2>1. ASSUME NEW t \in Threads, Check(t) PROVE PromiseInv'
    BY <1>2, <2>1, CheckHasEffect, CheckKeepsPromise
  <2>2. CASE \/ \E t \in Threads, k \in Keys : ReadClock(t, k)
             \/ Tick \/ UNCHANGED limiterVars
    BY <1>2, <2>2 DEF ReadClock, Tick, limiterVars, PromiseInv
  <2> QED BY <1>2, <2>1, <2>2 DEF LimiterNext
<1> DEFINE Honest ==
      \A t \in Threads :
           /\ Calling(t) /\ ~Calling(t)'
           /\ promised[reading[t].key] # NoPromise
           /\ promised[reading[t].key] <= reading[t].now
           => promised'[reading[t].key] = NoPromise
<1>3. ASSUME LimiterTypeOK, LimInv, PromiseInv, [LimiterNext]_limiterVars
      PROVE  Honest
  <2> SUFFICES ASSUME NEW t \in Threads, Calling(t), ~Calling(t)',
                      promised[reading[t].key] # NoPromise,
                      promised[reading[t].key] <= reading[t].now
               PROVE  promised'[reading[t].key] = NoPromise
    OBVIOUS
  <2>1. Check(t)
    BY <1>3 DEF LimiterNext, Calling, Check, ReadClock, Tick, limiterVars, LimiterTypeOK
  <2> PICK k \in Keys, now \in 0..MaxTime :
         /\ k = reading[t].key /\ now = reading[t].now
         /\ \E live : CheckEffect(t, k, now, live)
    BY <1>3, <2>1, CheckHasEffect
  <2> PICK live : CheckEffect(t, k, now, live)
    OBVIOUS
  <2>2. /\ live \in Seq(0..MaxTime) /\ WindowTicks \in Nat /\ Limit \in Nat /\ Limit >= 1
        /\ promised \in [Keys -> Int] /\ Len(live) \in Nat /\ now \in Int
    BY <1>3, LimiterAssumption, WindowType, TimesAre DEF CheckEffect, LimiterTypeOK
  <2>3. ~TurnAway(k, now, live)
    <3> SUFFICES ASSUME TurnAway(k, now, live) PROVE FALSE
      OBVIOUS
    <3>1. Len(live) = Limit
      BY <2>2 DEF TurnAway, CheckEffect
    <3>2. /\ live[1] = events[k][1] /\ events[k] # <<>> /\ live[1] > now - WindowTicks
      BY <3>1 DEF CheckEffect
    <3>3. events[k][1] + WindowTicks <= promised[k] /\ promised[k] <= now
      BY <1>3, <3>2 DEF PromiseInv
    <3>4. live[1] \in Int
      BY <2>2, <3>1, TimesAre
    <3> QED BY <2>2, <3>2, <3>3, <3>4
  <2>4. promised'[k] = NoPromise
    BY <2>2, <2>3 DEF CheckEffect, Allow
  <2> QED BY <2>4
<1> QED
  BY <1>1, <1>2, <1>3, AlwaysLimiter, PTL DEF LimiterSpec, RetryIsHonest

=============================================================================
