---- MODULE AccessProofs ----
(***************************************************************************)
(* What the fixed-window limiter promises each client, for any number of   *)
(* clients, requests and routes, and any capacity and length of a window:  *)
(* how much gets through, who is refused, and when to come back.           *)
(***************************************************************************)
EXTENDS AccessControl, SequenceTheorems, TLAPS

\* The requests that may be counted, and the client and route they are counted for.
Checkable(r) == ~r.public /\ r.route \in Limited
Of(r) == <<r.client, r.route>>

WindowRecords == [start : Nat, count : 1..Capacity]

TypeInv ==
  /\ keyRequired \in BOOLEAN /\ limitEnabled \in BOOLEAN /\ now \in 0..MaxNow
  /\ DOMAIN windows \subseteq {Key(r) : r \in {q \in Requests : Checkable(q)}}
  /\ \A key \in DOMAIN windows : windows[key] \in WindowRecords /\ windows[key].start <= now
  /\ answer # None => /\ answer.client \in Clients /\ answer.route \in Routes
                      /\ answer.status \in {"passed", "unauthorized", "limited"}
                      /\ answer.retry \in 1..WindowSeconds \cup {None}
  /\ recent \in [Clients \X Routes -> Seq(Nat)]
  /\ \A p \in Clients \X Routes :
       Len(recent[p]) <= 2 * Capacity /\ \A i \in 1..Len(recent[p]) : recent[p][i] <= now
  /\ promise \in [Clients \X Routes -> Nat \cup {None}]

----------------------------------------------------------------------------
(* Arithmetic *)

\* ceil, as `check' uses it: the least number of seconds that is enough.
LEMMA RoundUp ==
  ASSUME NEW d \in Nat \ {0}, NEW t \in Nat \ {0}, NEW q, q = (d + t - 1) \div t
  PROVE  q \in Nat \ {0} /\ q * t >= d /\ q * t < d + t
<1>1. PICK n \in Nat : n = d + t - 1
  OBVIOUS
<1>2. q \in Int /\ q * t <= n /\ n - q * t < t
  BY <1>1
<1>3. q > 0
  BY <1>1, <1>2
<1> QED BY <1>1, <1>2, <1>3

\* A window has some length.
LEMMA WindowLength == Window \in Nat \ {0} /\ Window = WindowSeconds * TicksPerSecond
BY AccessAssumption DEF Window

\* Retry-After leads past the end of the window, by less than a second, and is no longer
\* than a window.
LEMMA RetryLeadsPast ==
  ASSUME NEW w \in WindowRecords, w.start <= now, now \in Nat, ~Expired(w)
  PROVE  /\ RetryAfter(w) \in 1..WindowSeconds
         /\ now + RetryAfter(w) * TicksPerSecond \in Nat
         /\ now + RetryAfter(w) * TicksPerSecond >= w.start + Window
         /\ now + RetryAfter(w) * TicksPerSecond < w.start + Window + TicksPerSecond
<1>1. w.start \in Nat /\ TicksPerSecond \in Nat \ {0} /\ WindowSeconds \in Nat \ {0}
  BY AccessAssumption DEF WindowRecords
<1>2. PICK d \in Nat \ {0} : d = Window - (now - w.start)
  BY <1>1, WindowLength DEF Expired
<1>3. PICK q : q = (d + TicksPerSecond - 1) \div TicksPerSecond
  OBVIOUS
<1>4. q \in Nat \ {0} /\ q * TicksPerSecond >= d /\ q * TicksPerSecond < d + TicksPerSecond
  BY <1>1, <1>2, <1>3, RoundUp
<1>5. RetryAfter(w) = q
  BY <1>2, <1>3, <1>4 DEF RetryAfter
<1>6. d <= WindowSeconds * TicksPerSecond
  BY <1>1, <1>2, WindowLength
<1>7. q <= WindowSeconds
  <2> SUFFICES ASSUME q > WindowSeconds PROVE FALSE
    BY <1>1, <1>4
  <2>1. PICK e \in Nat : q = WindowSeconds + 1 + e
    <3>1. q - WindowSeconds - 1 \in Nat /\ q = WindowSeconds + 1 + (q - WindowSeconds - 1)
      BY <1>1, <1>4
    <3> QED BY <3>1
  <2>2. q * TicksPerSecond = WindowSeconds * TicksPerSecond + TicksPerSecond + e * TicksPerSecond
    BY <1>1, <2>1
  <2>3. e * TicksPerSecond \in Nat /\ WindowSeconds * TicksPerSecond \in Nat
    BY <1>1
  <2> QED BY <1>1, <1>2, <1>4, <1>6, <2>2, <2>3
<1>8. q * TicksPerSecond \in Nat
  BY <1>1, <1>4
<1> QED BY <1>1, <1>2, <1>4, <1>5, <1>7, <1>8, WindowLength

----------------------------------------------------------------------------
(* The times a client was let through *)

\* No time is after now.
Past(h) == \A i \in 1..Len(h) : h[i] <= now

\* In g the times of h have moved d places to the front, and now is the last.
Shifted(h, g, d) == g[Len(g)] = now /\ \A i \in 1..(Len(h) - d) : g[i] = h[i + d]

\* A time is recorded at the end, the first one is forgotten when there are too many.
LEMMA RecordedShifts ==
  ASSUME NEW h \in Seq(Nat), Len(h) <= 2 * Capacity, now \in Nat
  PROVE  \E d \in 0..1 :
           /\ Recorded(h) \in Seq(Nat) /\ Len(Recorded(h)) = Len(h) + 1 - d
           /\ Len(Recorded(h)) <= 2 * Capacity
           /\ Shifted(h, Recorded(h), d)
           /\ d = 1 => Len(h) = 2 * Capacity
<1>0. 2 * Capacity \in Nat \ {0} /\ Len(h) \in Nat
  BY AccessAssumption
<1>1. CASE Len(h) < 2 * Capacity
  <2>1. Recorded(h) = Append(h, now)
    BY <1>1 DEF Recorded
  <2>2. /\ Append(h, now) \in Seq(Nat) /\ Len(Append(h, now)) = Len(h) + 1 - 0
        /\ Append(h, now)[Len(h) + 1] = now
        /\ \A i \in 1..(Len(h) - 0) : Append(h, now)[i] = h[i + 0]
    BY <1>0
  <2> QED BY <1>0, <1>1, <2>1, <2>2 DEF Shifted
<1>2. CASE Len(h) = 2 * Capacity
  <2>1. /\ Tail(h) \in Seq(Nat) /\ Len(Tail(h)) = Len(h) - 1
        /\ \A i \in 1..(Len(h) - 1) : Tail(h)[i] = h[i + 1]
    BY <1>0, <1>2
  <2>2. Recorded(h) = Append(Tail(h), now)
    BY <1>2 DEF Recorded
  <2>3. /\ Recorded(h) \in Seq(Nat) /\ Len(Recorded(h)) = Len(h) + 1 - 1
        /\ Recorded(h)[Len(h)] = now
        /\ \A i \in 1..(Len(h) - 1) : Recorded(h)[i] = h[i + 1]
    BY <1>0, <1>2, <2>1, <2>2
  <2> QED BY <1>0, <1>2, <2>3 DEF Shifted
<1> QED BY <1>0, <1>1, <1>2

\* The times a client was let through, the last c of them in a window that began at s.
\* Those at `opens' opened a window: the last one at s, each a window's length after the
\* one before, and no more than Capacity times from one to the next.
Opened(h, n, c, s, opens) ==
  /\ opens \subseteq 1..(n - c + 1) /\ n - c + 1 \in opens
  /\ h[n - c + 1] = s
  /\ \A i \in 1..(n - c) : \E o \in opens : /\ i < o /\ o <= i + Capacity
                                            /\ o = i + Capacity => i \in opens
  /\ \A a, b \in opens : a < b => h[b] - h[a] >= Window

Ascending(h) == \A i, j \in 1..Len(h) : i <= j => h[i] <= h[j]

InWindows(h, c, s) ==
  /\ c \in 1..Capacity /\ c <= Len(h) /\ Ascending(h)
  /\ \E opens \in SUBSET (1..Len(h)) : Opened(h, Len(h), c, s, opens)

\* The first request of a client opens its first window.
LEMMA FirstTime ==
  ASSUME now \in Nat
  PROVE  InWindows(Recorded(<<>>), 1, now)
<1>1. PICK g : g = Recorded(<<>>) /\ Len(g) = 1 /\ g[1] = now
  <2>1. Len(<<>>) < 2 * Capacity
    BY AccessAssumption
  <2>2. Recorded(<<>>) = <<now>>
    BY <2>1 DEF Recorded
  <2> QED BY <2>2
<1>2. Opened(g, Len(g), 1, now, {1})
  BY <1>1 DEF Opened
<1>3. Ascending(g) /\ 1 \in 1..Capacity
  BY <1>1, AccessAssumption DEF Ascending
<1> QED BY <1>1, <1>2, <1>3 DEF InWindows

\* Times stay in order, as the clock does not go back.
LEMMA AscendingKept ==
  ASSUME NEW h \in Seq(Nat), Len(h) <= 2 * Capacity, now \in Nat, Ascending(h),
         Past(h)
  PROVE  Ascending(Recorded(h)) /\ Past(Recorded(h))
<1>1. PICK d \in 0..1, g \in Seq(Nat) :
        /\ g = Recorded(h) /\ Len(g) = Len(h) + 1 - d /\ Shifted(h, g, d)
  BY RecordedShifts
<1>2. Len(h) \in Nat /\ Len(g) \in Nat /\ Len(g) = Len(h) + 1 - d
  BY <1>1
<1>3. \A i \in 1..Len(g) : i = Len(g) \/ (i \in 1..(Len(h) - d) /\ i + d \in 1..Len(h))
  BY <1>2
<1>4. \A i \in 1..Len(g) : g[i] <= now
  <2> SUFFICES ASSUME NEW i \in 1..Len(g) PROVE g[i] <= now
    OBVIOUS
  <2>1. CASE i = Len(g)
    BY <1>1, <2>1 DEF Shifted
  <2>2. CASE i # Len(g)
    <3>1. i \in 1..(Len(h) - d) /\ i + d \in 1..Len(h)
      BY <1>3, <2>2
    <3>2. g[i] = h[i + d] /\ h[i + d] <= now
      BY <1>1, <3>1 DEF Shifted, Past
    <3> QED BY <3>2
  <2> QED BY <2>1, <2>2
<1>5. Ascending(g)
  <2> SUFFICES ASSUME NEW i \in 1..Len(g), NEW j \in 1..Len(g), i <= j PROVE g[i] <= g[j]
    BY DEF Ascending
  <2>1. CASE j = Len(g)
    <3>1. g[j] = now /\ g[i] <= now
      BY <1>1, <1>4, <2>1 DEF Shifted
    <3> QED BY <3>1
  <2>2. CASE j # Len(g)
    <3>1. i # Len(g) /\ i + d <= j + d
      BY <1>1, <1>2, <2>2
    <3>2. g[i] = h[i + d] /\ g[j] = h[j + d] /\ i + d \in 1..Len(h) /\ j + d \in 1..Len(h)
      BY <1>1, <1>3, <2>2, <3>1 DEF Shifted
    <3> QED BY <3>1, <3>2 DEF Ascending
  <2> QED BY <2>1, <2>2
<1> QED BY <1>1, <1>4, <1>5 DEF Past

\* Places in n times and in the m times after one more was recorded: all but the last
\* have moved by d.
LEMMA ShiftIndex ==
  ASSUME NEW n \in Nat, NEW m \in Nat, NEW d \in 0..1, m = n + 1 - d
  PROVE  /\ \A i \in 1..m : i # m => i \in 1..(n - d) /\ i + d \in 1..n
         /\ \A i \in 1..m : m # i => i + d < n + 1
         /\ \A a, b \in 1..m : a < b => a # m /\ a + d < b + d
         /\ \A o \in 1..n : d < o => o - d \in 1..m /\ (o - d) + d = o
OBVIOUS

\* If the gaps between some of n places are no longer than k, they are after the move.
LEMMA ShiftGaps ==
  ASSUME NEW n \in Nat, NEW m \in Nat, NEW d \in 0..1, m = n + 1 - d,
         NEW k \in Nat \ {0}, NEW i \in 1..m, NEW o \in 1..n, i + d < o, o <= i + d + k
  PROVE  /\ o - d \in 1..m /\ (o - d) + d = o /\ i < o - d /\ o - d <= i + k
         /\ o - d = i + k => o = i + d + k
OBVIOUS

\* The place after the last window's requests is in reach of those.
LEMMA LastReach ==
  ASSUME NEW n \in Nat, NEW m \in Nat, NEW d \in 0..1, m = n + 1 - d,
         NEW k \in Nat \ {0}, NEW c \in 1..k, c <= n, NEW i \in 1..(m - 1), i + d \notin 1..(n - c)
  PROVE  i \in 1..m /\ i < m /\ m <= i + k /\ (m = i + k => i + d = n - c + 1)
OBVIOUS

\* The windows' openings, when now is recorded after the end of the last window.
LEMMA NextOpens ==
  ASSUME NEW h, NEW g, NEW n \in Nat, NEW m \in Nat, NEW d \in 0..1, m = n + 1 - d,
         NEW c \in 1..Capacity, c <= n, NEW s \in Nat, NEW W \in Nat, W = Window,
         now \in Nat, now - s >= W,
         \A i \in 1..n : h[i] \in Nat,
         g[m] = now, \A i \in 1..(n - d) : g[i] = h[i + d],
         NEW opens \in SUBSET (1..n), Opened(h, n, c, s, opens)
  PROVE  \E new \in SUBSET (1..m) : Opened(g, m, 1, now, new)
<1> DEFINE new == {o \in 1..m : o + d \in opens \/ o = m}
<1>1. m \in 1..m /\ m - 1 + 1 = m /\ m \in new /\ new \subseteq 1..m /\ Capacity \in Nat \ {0}
  BY AccessAssumption
<1>2. /\ n - c + 1 \in opens /\ h[n - c + 1] = s
      /\ \A i \in 1..(n - c) : \E o \in opens : /\ i < o /\ o <= i + Capacity
                                                /\ o = i + Capacity => i \in opens
      /\ \A a, b \in opens : a < b => h[b] - h[a] >= W
      /\ \A o \in opens : o \in 1..(n - c + 1)
  BY DEF Opened
<1>3. ASSUME NEW i \in 1..(m - 1)
      PROVE  \E o \in new : i < o /\ o <= i + Capacity /\ (o = i + Capacity => i \in new)
  <2>0. i \in 1..m
    OBVIOUS
  <2>1. CASE i + d \in 1..(n - c)
    <3>1. PICK o \in opens : /\ i + d < o /\ o <= i + d + Capacity
                             /\ o = i + d + Capacity => i + d \in opens
      BY <1>2, <2>1
    <3>2. /\ o - d \in 1..m /\ (o - d) + d = o /\ i < o - d /\ o - d <= i + Capacity
          /\ o - d = i + Capacity => o = i + d + Capacity
      BY <1>1, <2>0, <3>1, ShiftGaps
    <3>3. o - d \in new
      BY <3>2
    <3>4. o - d = i + Capacity => i \in new
      BY <2>0, <3>1, <3>2
    <3> HIDE DEF new
    <3> QED BY <3>2, <3>3, <3>4
  <2>2. CASE i + d \notin 1..(n - c)
    <3>1. i < m /\ m <= i + Capacity /\ (m = i + Capacity => i + d = n - c + 1)
      BY <1>1, <2>2, LastReach
    <3>2. m = i + Capacity => i \in new
      BY <1>2, <2>0, <3>1
    <3> HIDE DEF new
    <3> QED BY <1>1, <3>1, <3>2
  <2> QED BY <2>1, <2>2
<1>4. ASSUME NEW a \in new, NEW b \in new, a < b
      PROVE  g[b] - g[a] >= W
  <2>1. a \in 1..m /\ b \in 1..m
    OBVIOUS
  <2>2. a # m /\ a + d < b + d /\ a \in 1..(n - d) /\ a + d \in 1..n
    <3> HIDE DEF new
    <3>1. a # m /\ a + d < b + d
      BY <1>4, <2>1, ShiftIndex
    <3> QED BY <2>1, <3>1, ShiftIndex
  <2>3. a + d \in opens /\ g[a] = h[a + d] /\ h[a + d] \in Nat
    BY <2>2
  <2>4. CASE b = m
    <3>1. h[a + d] <= s
      <4>1. CASE a + d = n - c + 1
        BY <1>2, <2>3, <4>1
      <4>2. CASE a + d # n - c + 1
        <5>1. a + d < n - c + 1
          BY <1>2, <2>3, <4>2
        <5>2. h[n - c + 1] - h[a + d] >= W
          BY <1>2, <2>3, <5>1
        <5>3. s - h[a + d] >= W
          BY <1>2, <5>2
        <5> HIDE DEF new
        <5> QED BY <2>3, <5>3
      <4> QED BY <4>1, <4>2
    <3>2. g[b] = now
      BY <2>4
    <3> HIDE DEF new
    <3> QED BY <2>3, <3>1, <3>2
  <2>5. CASE b # m
    <3>1. b \in 1..(n - d) /\ b + d \in opens
      <4>1. b + d \in opens
        BY <2>5
      <4> HIDE DEF new
      <4> QED BY <2>1, <2>5, <4>1, ShiftIndex
    <3>2. g[b] = h[b + d]
      BY <3>1
    <3> HIDE DEF new
    <3> QED BY <1>2, <2>2, <2>3, <3>1, <3>2
  <2> QED BY <2>4, <2>5
<1> HIDE DEF new
<1>5. Opened(g, m, 1, now, new)
  BY <1>1, <1>3, <1>4 DEF Opened
<1> QED BY <1>1, <1>5

\* The windows' openings, when now is recorded in the last window.
LEMMA SameOpens ==
  ASSUME NEW h, NEW g, NEW n \in Nat, NEW m \in Nat, NEW d \in 0..1, m = n + 1 - d,
         d = 1 => n = 2 * Capacity,
         NEW c \in 1..Capacity, c <= n, c < Capacity, NEW s \in Nat, NEW W \in Nat, W = Window,
         \A i \in 1..(n - d) : g[i] = h[i + d],
         NEW opens \in SUBSET (1..n), Opened(h, n, c, s, opens)
  PROVE  c + 1 <= m /\ \E new \in SUBSET (1..m) : Opened(g, m, c + 1, s, new)
<1> DEFINE new == {o \in 1..m : o + d \in opens}
<1>1. Capacity \in Nat \ {0} /\ c \in Nat /\ c + 1 <= m /\ new \subseteq 1..m
  BY AccessAssumption
<1>2. /\ n - c + 1 \in opens /\ h[n - c + 1] = s
      /\ \A i \in 1..(n - c) : \E o \in opens : /\ i < o /\ o <= i + Capacity
                                                /\ o = i + Capacity => i \in opens
      /\ \A a, b \in opens : a < b => h[b] - h[a] >= W
      /\ \A o \in opens : o \in 1..(n - c + 1)
  BY DEF Opened
<1>3. PICK first \in 1..(n - d) : /\ first = m - (c + 1) + 1 /\ first + d = n - c + 1
                                  /\ first \in 1..m
  <2>1. /\ m - (c + 1) + 1 \in 1..(n - d) /\ m - (c + 1) + 1 + d = n - c + 1
        /\ m - (c + 1) + 1 \in 1..m
    BY <1>1
  <2> QED BY <2>1
<1>4. first \in new /\ g[first] = s
  BY <1>2, <1>3
<1>5. ASSUME NEW o \in new
      PROVE  o + d \in opens /\ o \in 1..first /\ g[o] = h[o + d]
  <2>1. o \in 1..m /\ o + d \in opens
    OBVIOUS
  <2> HIDE DEF new
  <2>2. o + d \in 1..(first + d)
    BY <1>2, <1>3, <2>1
  <2>3. o \in 1..first /\ o \in 1..(n - d)
    BY <1>3, <2>1, <2>2
  <2> QED BY <2>1, <2>3
<1>6. ASSUME NEW i \in 1..(m - (c + 1))
      PROVE  \E o \in new : i < o /\ o <= i + Capacity /\ (o = i + Capacity => i \in new)
  <2>1. i + d \in 1..(n - c) /\ i \in 1..m
    BY <1>1
  <2>2. PICK o \in opens : /\ i + d < o /\ o <= i + d + Capacity
                           /\ o = i + d + Capacity => i + d \in opens
    BY <1>2, <2>1
  <2>3. /\ o - d \in 1..m /\ (o - d) + d = o /\ i < o - d /\ o - d <= i + Capacity
        /\ o - d = i + Capacity => o = i + d + Capacity
    BY <1>1, <2>1, <2>2, ShiftGaps
  <2>4. o - d \in new
    BY <2>3
  <2>5. o - d = i + Capacity => i \in new
    BY <2>1, <2>2, <2>3
  <2> HIDE DEF new
  <2> QED BY <2>3, <2>4, <2>5
<1> HIDE DEF new
<1>7. ASSUME NEW a \in new, NEW b \in new, a < b
      PROVE  g[b] - g[a] >= W
  <2>1. a + d < b + d
    BY <1>1, <1>7, ShiftIndex
  <2> QED BY <1>2, <1>5, <2>1
<1>8. Opened(g, m, c + 1, s, new)
  BY <1>3, <1>4, <1>5, <1>6, <1>7 DEF Opened
<1> QED BY <1>1, <1>8

\* A request after the end of the window opens the next one.
LEMMA NextWindow ==
  ASSUME NEW h \in Seq(Nat), Len(h) <= 2 * Capacity, now \in Nat,
         Past(h),
         NEW c, NEW s \in Nat, InWindows(h, c, s), now - s >= Window
  PROVE  InWindows(Recorded(h), 1, now)
<1>1. PICK d \in 0..1, g \in Seq(Nat) :
        g = Recorded(h) /\ Len(g) = Len(h) + 1 - d /\ Shifted(h, g, d)
  BY RecordedShifts
<1>2. PICK opens \in SUBSET (1..Len(h)) : Opened(h, Len(h), c, s, opens)
  BY DEF InWindows
<1>3. c \in 1..Capacity /\ c <= Len(h) /\ Len(h) \in Nat /\ Len(g) \in Nat /\ Window \in Nat
  BY WindowLength DEF InWindows
<1>4. \A i \in 1..Len(h) : h[i] \in Nat
  OBVIOUS
<1>5. g[Len(g)] = now /\ \A i \in 1..(Len(h) - d) : g[i] = h[i + d]
  BY <1>1 DEF Shifted
<1>6. \E new \in SUBSET (1..Len(g)) : Opened(g, Len(g), 1, now, new)
  BY <1>1, <1>2, <1>3, <1>4, <1>5, NextOpens
<1>7. Ascending(g)
  BY <1>1, AscendingKept DEF InWindows
<1>8. 1 \in 1..Capacity /\ 1 <= Len(g)
  <2>1. c <= Capacity /\ c >= 1 /\ Capacity \in Nat
    BY <1>3, AccessAssumption
  <2> QED BY <1>1, <1>3, <2>1
<1> QED BY <1>1, <1>6, <1>7, <1>8 DEF InWindows

\* A request within the window is counted in it.
LEMMA SameWindow ==
  ASSUME NEW h \in Seq(Nat), Len(h) <= 2 * Capacity, now \in Nat,
         Past(h),
         NEW c, NEW s \in Nat, InWindows(h, c, s), c < Capacity
  PROVE  InWindows(Recorded(h), c + 1, s)
<1>1. PICK d \in 0..1, g \in Seq(Nat) :
        /\ g = Recorded(h) /\ Len(g) = Len(h) + 1 - d /\ Shifted(h, g, d)
        /\ d = 1 => Len(h) = 2 * Capacity
  BY RecordedShifts
<1>2. PICK opens \in SUBSET (1..Len(h)) : Opened(h, Len(h), c, s, opens)
  BY DEF InWindows
<1>3. c \in 1..Capacity /\ c <= Len(h) /\ Len(h) \in Nat /\ Len(g) \in Nat /\ Window \in Nat
  BY WindowLength DEF InWindows
<1>4. \A i \in 1..(Len(h) - d) : g[i] = h[i + d]
  BY <1>1 DEF Shifted
<1>5. c + 1 <= Len(g) /\ \E new \in SUBSET (1..Len(g)) : Opened(g, Len(g), c + 1, s, new)
  BY <1>1, <1>2, <1>3, <1>4, SameOpens
<1>6. Ascending(g)
  BY <1>1, AscendingKept DEF InWindows
<1>7. c + 1 \in 1..Capacity
  BY <1>3, AccessAssumption
<1> QED BY <1>1, <1>5, <1>6, <1>7 DEF InWindows

\* What windows say of any 2 * Capacity times in a row: two windows that were used up began
\* a window's length apart.
LEMMA WindowsSpan ==
  ASSUME NEW h \in Seq(Nat), Len(h) = 2 * Capacity, NEW c, NEW s, InWindows(h, c, s)
  PROVE  h[2 * Capacity] - h[1] >= Window
<1>1. PICK opens \in SUBSET (1..Len(h)) : Opened(h, Len(h), c, s, opens)
  BY DEF InWindows
<1>2. /\ c \in 1..Capacity /\ c \in Nat /\ Len(h) \in Nat /\ Capacity \in Nat \ {0}
      /\ Window \in Nat /\ Ascending(h)
  BY WindowLength, AccessAssumption DEF InWindows
<1>3. /\ \A i \in 1..(Len(h) - c) : \E o \in opens : /\ i < o /\ o <= i + Capacity
                                                     /\ o = i + Capacity => i \in opens
      /\ \A a, b \in opens : a < b => h[b] - h[a] >= Window
      /\ \A o \in opens : o <= Len(h) - c + 1
  BY <1>1, <1>2 DEF Opened
<1>4. 1 \in 1..(Len(h) - c)
  BY <1>2
<1>5. PICK o \in opens : 1 < o /\ o <= 1 + Capacity /\ (o = 1 + Capacity => 1 \in opens)
  BY <1>3, <1>4
<1>6. \A i \in 1..Len(h) : h[i] \in Nat /\ h[1] <= h[i] /\ h[i] <= h[2 * Capacity]
  BY <1>2 DEF Ascending
<1>7. CASE o = 1 + Capacity
  <2>1. h[o] - h[1] >= Window
    BY <1>3, <1>5, <1>7
  <2> QED BY <1>2, <1>6, <2>1
<1>8. CASE o <= Capacity
  <2>1. o \in 1..(Len(h) - c)
    BY <1>2, <1>5, <1>8
  <2>2. PICK u \in opens : o < u
    BY <1>3, <2>1
  <2>3. h[u] - h[o] >= Window
    BY <1>3, <2>2
  <2> QED BY <1>2, <1>6, <2>3
<1> QED BY <1>2, <1>5, <1>7, <1>8

\* A window that is full and not over holds Capacity times of its own length.
LEMMA FullWindow ==
  ASSUME NEW h \in Seq(Nat), NEW c, NEW s, InWindows(h, c, s), c >= Capacity
  PROVE  c = Capacity /\ Len(h) >= Capacity /\ h[Len(h) - Capacity + 1] = s
<1>1. c = Capacity /\ Len(h) >= Capacity
  BY AccessAssumption DEF InWindows
<1> QED BY <1>1 DEF InWindows, Opened


----------------------------------------------------------------------------
(* The invariant *)

\* A client's times and promise fit the window its requests are counted in.
Kept(times, promised, w) ==
  /\ InWindows(times, w.count, w.start)
  /\ promised # None => /\ w.count >= Capacity
                        /\ promised >= w.start + Window
                        /\ promised < w.start + Window + TicksPerSecond

\* Without a window, a client was never let through or refused.
KeptByAll ==
  \A r \in Requests :
    Checkable(r) =>
      IF Key(r) \in DOMAIN windows
      THEN Kept(recent[Of(r)], promise[Of(r)], windows[Key(r)])
      ELSE recent[Of(r)] = <<>> /\ promise[Of(r)] = None

NeverCounted ==
  \A p \in Clients \X Routes :
    (\A r \in Requests : Checkable(r) => Of(r) # p) => recent[p] = <<>> /\ promise[p] = None

AccessInv == TypeInv /\ KeptByAll /\ NeverCounted /\ RefusedWhenFull

----------------------------------------------------------------------------
(* What a request does *)

\* The window a request that is let through leaves behind: the next one or the same.
NextOf(w, window) ==
  \/ now - w.start >= Window /\ window = [start |-> now, count |-> 1]
  \/ /\ w.count < Capacity
     /\ window.start = w.start /\ window.count = w.count + 1

LEMMA AdmitLetsThrough ==
  ASSUME TypeInv, NEW r \in Requests, Admit(r)
  PROVE  /\ Checkable(r)
         /\ \E window \in WindowRecords :
              /\ window.start <= now /\ LetThrough(r, window)
              /\ IF Key(r) \in DOMAIN windows THEN NextOf(windows[Key(r)], window)
                 ELSE window = [start |-> now, count |-> 1]
<1>1. Checkable(r)
  BY DEF Admit, Checked, Counted, Checkable
<1>2. now \in Nat /\ Capacity \in Nat \ {0} /\ Window \in Nat \ {0}
  BY AccessAssumption, WindowLength DEF TypeInv
<1>3. PICK fresh : fresh = [start |-> now, count |-> 1]
  OBVIOUS
<1>4. fresh \in WindowRecords /\ fresh.start = now /\ fresh.count = 1
  BY <1>2, <1>3 DEF WindowRecords
<1>5. CASE Key(r) \in DOMAIN windows
  <2>1. PICK w : w = windows[Key(r)] /\ w = WindowOf(Key(r)) /\ w \in WindowRecords /\ w.start <= now
    BY <1>5 DEF WindowOf, TypeInv
  <2>2. CASE Expired(w) /\ LetThrough(r, [start |-> now, count |-> 1])
    <3>1. LetThrough(r, fresh) /\ fresh.start <= now
      BY <1>2, <1>3, <1>4, <2>2
    <3>2. NextOf(w, fresh)
      BY <1>3, <2>2 DEF NextOf, Expired
    <3> QED BY <1>1, <1>4, <1>5, <2>1, <3>1, <3>2
  <2>3. CASE ~Expired(w) /\ ~Full(w) /\ LetThrough(r, [w EXCEPT !.count = @ + 1])
    <3>1. PICK window : window = [w EXCEPT !.count = @ + 1]
      OBVIOUS
    <3>2. w.count \in 1..Capacity /\ w.count < Capacity /\ w.start \in Nat
      BY <1>2, <2>1, <2>3 DEF Full, WindowRecords
    <3>3. window = [start |-> w.start, count |-> w.count + 1]
      BY <2>1, <3>1 DEF WindowRecords
    <3>4. window.start = w.start /\ window.count = w.count + 1
      BY <3>3
    <3>5. w.count + 1 \in 1..Capacity
      BY <1>2, <3>2
    <3>6. window \in WindowRecords
      BY <3>2, <3>3, <3>5 DEF WindowRecords
    <3>7. NextOf(w, window)
      BY <3>2, <3>4 DEF NextOf
    <3> QED BY <1>1, <1>5, <2>1, <2>3, <3>1, <3>4, <3>6, <3>7
  <2> QED BY <2>1, <2>2, <2>3 DEF Admit
<1>6. CASE Key(r) \notin DOMAIN windows
  <2>1. PICK w : w = WindowOf(Key(r)) /\ w.start = now /\ w.count = 0
                 /\ w = [start |-> now, count |-> 0]
    BY <1>6 DEF WindowOf
  <2>2. ~Expired(w)
    BY <1>2, <2>1 DEF Expired
  <2>3. LetThrough(r, [w EXCEPT !.count = @ + 1])
    BY <2>1, <2>2 DEF Admit
  <2>4. [w EXCEPT !.count = @ + 1] = fresh
    BY <1>3, <2>1
  <2> QED BY <1>1, <1>2, <1>3, <1>4, <1>6, <2>3, <2>4
<1> QED BY <1>5, <1>6

\* Who is refused has a window, which is full and not over.
LEMMA RefuseHasWindow ==
  ASSUME TypeInv, NEW r \in Requests, Refuse(r)
  PROVE  /\ Checkable(r) /\ Key(r) \in DOMAIN windows
         /\ \E w \in WindowRecords :
              /\ w = windows[Key(r)] /\ w.start <= now
              /\ w.count >= Capacity /\ ~Expired(w) /\ now < w.start + Window
              /\ Answers(r, "limited", RetryAfter(w))
              /\ promise' = [promise EXCEPT ![<<r.client, r.route>>] =
                               now + RetryAfter(w) * TicksPerSecond]
              /\ UNCHANGED <<windows, recent>>
<1>1. Checkable(r)
  BY DEF Refuse, Checked, Counted, Checkable
<1>2. now \in Nat /\ Capacity \in Nat \ {0} /\ Window \in Nat \ {0}
  BY AccessAssumption, WindowLength DEF TypeInv
<1>3. Key(r) \in DOMAIN windows
  <2> SUFFICES ASSUME Key(r) \notin DOMAIN windows PROVE FALSE
    OBVIOUS
  <2>1. WindowOf(Key(r)) = [start |-> now, count |-> 0]
    BY DEF WindowOf
  <2>2. WindowOf(Key(r)).count = 0
    BY <2>1
  <2>3. Full(WindowOf(Key(r)))
    BY DEF Refuse
  <2> QED BY <1>2, <2>2, <2>3 DEF Full
<1>4. PICK w : w = windows[Key(r)] /\ w = WindowOf(Key(r)) /\ w \in WindowRecords /\ w.start <= now
  BY <1>3 DEF WindowOf, TypeInv
<1>5. /\ ~Expired(w) /\ Full(w) /\ Answers(r, "limited", RetryAfter(w))
      /\ promise' = [promise EXCEPT ![<<r.client, r.route>>] = now + RetryAfter(w) * TicksPerSecond]
      /\ UNCHANGED <<windows, recent>>
  BY <1>4 DEF Refuse
<1>6. w.start \in Nat
  BY <1>4 DEF WindowRecords
<1>7. w.count >= Capacity /\ now < w.start + Window
  BY <1>2, <1>5, <1>6 DEF Full, Expired
<1> QED BY <1>1, <1>3, <1>4, <1>5, <1>7

\* Who a request is counted for.
LEMMA OfInPairs ==
  ASSUME NEW r \in Requests
  PROVE  Of(r) \in Clients \X Routes /\ Of(r) = <<r.client, r.route>>
BY AccessAssumption DEF Of

----------------------------------------------------------------------------
(* Types *)

\* At the start nothing was counted.
LEMMA InitTyped == Init => TypeInv
<1> SUFFICES ASSUME Init PROVE TypeInv
  OBVIOUS
<1>1. DOMAIN windows = {}
  BY DEF Init
<1>2. now = 0 /\ now \in 0..MaxNow
  BY AccessAssumption DEF Init
<1>3. \A p \in Clients \X Routes : recent[p] = <<>> /\ promise[p] = None
  BY DEF Init
<1>4. <<>> \in Seq(Nat) /\ Len(<<>>) = 0 /\ 0 <= 2 * Capacity
  BY AccessAssumption
<1>5. recent \in [Clients \X Routes -> Seq(Nat)]
  BY <1>4 DEF Init
<1>6. promise \in [Clients \X Routes -> Nat \cup {None}]
  BY DEF Init
<1>7. \A p \in Clients \X Routes :
        Len(recent[p]) <= 2 * Capacity /\ \A i \in 1..Len(recent[p]) : recent[p][i] <= now
  BY <1>3, <1>4
<1>8. keyRequired \in BOOLEAN /\ limitEnabled \in BOOLEAN /\ answer = None
  BY DEF Init
<1> QED BY <1>1, <1>2, <1>5, <1>6, <1>7, <1>8 DEF TypeInv

\* The answer to a request.
LEMMA AnswerTyped ==
  ASSUME NEW r \in Requests, NEW status \in {"passed", "unauthorized", "limited"},
         NEW retry \in 1..WindowSeconds \cup {None}, Answers(r, status, retry)
  PROVE  /\ answer'.client = r.client /\ answer'.route = r.route /\ answer'.status = status
         /\ answer'.client \in Clients /\ answer'.route \in Routes
         /\ answer'.status \in {"passed", "unauthorized", "limited"}
         /\ answer'.retry \in 1..WindowSeconds \cup {None}
BY AccessAssumption DEF Answers

\* A request that is not counted changes nothing but the answer.
LEMMA UncountedAnswers ==
  ASSUME NEW r \in Requests, Uncounted(r)
  PROVE  /\ answer'.status # "limited"
         /\ answer'.client \in Clients /\ answer'.route \in Routes
         /\ answer'.status \in {"passed", "unauthorized", "limited"}
         /\ answer'.retry \in 1..WindowSeconds \cup {None}
<1>1. PICK status \in {"passed", "unauthorized"} : Answers(r, status, None)
  BY DEF Uncounted
<1> QED BY <1>1, AnswerTyped

\* The state after a request that was let through.
LEMMA LetThroughState ==
  ASSUME TypeInv, NEW r \in Requests, NEW window \in WindowRecords, LetThrough(r, window)
  PROVE  /\ DOMAIN windows' = DOMAIN windows \cup {Key(r)}
         /\ windows'[Key(r)] = window
         /\ \A key \in DOMAIN windows : key # Key(r) => windows'[key] = windows[key]
         /\ recent'[Of(r)] = Recorded(recent[Of(r)]) /\ promise'[Of(r)] = None
         /\ \A p \in Clients \X Routes :
              p # Of(r) => recent'[p] = recent[p] /\ promise'[p] = promise[p]
<1>1. windows' = [key \in DOMAIN windows \union {Key(r)} |->
                    IF key = Key(r) THEN window ELSE windows[key]]
  BY DEF LetThrough
<1>2. recent' = [recent EXCEPT ![Of(r)] = Recorded(@)] /\ promise' = [promise EXCEPT ![Of(r)] = None]
  BY DEF LetThrough, Of
<1>3. Of(r) \in DOMAIN recent /\ Of(r) \in DOMAIN promise
      /\ DOMAIN recent = Clients \X Routes /\ DOMAIN promise = Clients \X Routes
  BY OfInPairs DEF TypeInv
<1>4. /\ DOMAIN windows' = DOMAIN windows \cup {Key(r)}
      /\ windows'[Key(r)] = window
      /\ \A key \in DOMAIN windows : key # Key(r) => windows'[key] = windows[key]
  BY <1>1
<1>5. /\ recent'[Of(r)] = Recorded(recent[Of(r)]) /\ promise'[Of(r)] = None
      /\ \A p \in Clients \X Routes :
           p # Of(r) => recent'[p] = recent[p] /\ promise'[p] = promise[p]
  BY <1>2, <1>3
<1> QED BY <1>4, <1>5

\* The types are kept by every step.
LEMMA NextTyped ==
  ASSUME TypeInv, [Next]_vars
  PROVE  TypeInv'
<1>0. now \in Nat /\ MaxNow \in Nat /\ Capacity \in Nat \ {0}
  BY AccessAssumption DEF TypeInv
<1>1. CASE Tick
  <2>1. now' \in 0..MaxNow /\ now <= now'
    BY <1>0, <1>1 DEF Tick
  <2>2. \A key \in DOMAIN windows : windows[key] \in WindowRecords /\ windows[key].start <= now'
    <3> SUFFICES ASSUME NEW key \in DOMAIN windows
                 PROVE  windows[key] \in WindowRecords /\ windows[key].start <= now'
      OBVIOUS
    <3>1. windows[key] \in WindowRecords /\ windows[key].start <= now
      BY DEF TypeInv
    <3>2. windows[key].start \in Nat
      BY <3>1 DEF WindowRecords
    <3> QED BY <1>0, <2>1, <3>1, <3>2
  <2>3. ASSUME NEW p \in Clients \X Routes
        PROVE  Len(recent[p]) <= 2 * Capacity /\ \A i \in 1..Len(recent[p]) : recent[p][i] <= now'
    <3>1. recent[p] \in Seq(Nat) /\ Len(recent[p]) <= 2 * Capacity
          /\ \A i \in 1..Len(recent[p]) : recent[p][i] <= now
      BY DEF TypeInv
    <3>2. \A i \in 1..Len(recent[p]) : recent[p][i] \in Nat
      BY <3>1
    <3> QED BY <1>0, <2>1, <3>1, <3>2
  <2>4. UNCHANGED <<keyRequired, limitEnabled, windows, recent, promise>> /\ answer' = None
    BY <1>1 DEF Tick
  <2> QED BY <2>1, <2>2, <2>3, <2>4 DEF TypeInv
<1>2. ASSUME NEW r \in Requests, Request(r) PROVE TypeInv'
  <2>0. UNCHANGED <<keyRequired, limitEnabled, now>>
    BY <1>2 DEF Request
  <2>1. CASE Uncounted(r)
    <3>1. UNCHANGED <<windows, recent, promise>>
      BY <2>1 DEF Uncounted
    <3>2. /\ answer'.client \in Clients /\ answer'.route \in Routes
          /\ answer'.status \in {"passed", "unauthorized", "limited"}
          /\ answer'.retry \in 1..WindowSeconds \cup {None}
      BY <2>1, UncountedAnswers
    <3> QED BY <2>0, <3>1, <3>2 DEF TypeInv
  <2>2. CASE Admit(r)
    <3>1. PICK window \in WindowRecords : window.start <= now /\ LetThrough(r, window)
      BY <2>2, AdmitLetsThrough
    <3>2. Checkable(r)
      BY <2>2, AdmitLetsThrough
    <3>3. /\ DOMAIN windows' = DOMAIN windows \cup {Key(r)}
          /\ windows'[Key(r)] = window
          /\ \A key \in DOMAIN windows : key # Key(r) => windows'[key] = windows[key]
          /\ recent'[Of(r)] = Recorded(recent[Of(r)])
          /\ \A p \in Clients \X Routes : p # Of(r) => recent'[p] = recent[p]
      BY <3>1, LetThroughState
    <3>4. \A key \in DOMAIN windows' : windows'[key] \in WindowRecords /\ windows'[key].start <= now
      BY <3>1, <3>3 DEF TypeInv
    <3>5. DOMAIN windows' \subseteq {Key(q) : q \in {q \in Requests : Checkable(q)}}
      BY <3>2, <3>3 DEF TypeInv
    <3>6. Answers(r, "passed", None)
      BY <3>1 DEF LetThrough
    <3>7. /\ answer'.client \in Clients /\ answer'.route \in Routes
          /\ answer'.status \in {"passed", "unauthorized", "limited"}
          /\ answer'.retry \in 1..WindowSeconds \cup {None}
      BY <3>6, AnswerTyped
    <3>8. PICK h \in Seq(Nat) : /\ h = recent[Of(r)] /\ Len(h) <= 2 * Capacity
                                /\ \A i \in 1..Len(h) : h[i] <= now
      BY OfInPairs DEF TypeInv
    <3>9. PICK d \in 0..1 : /\ Recorded(h) \in Seq(Nat) /\ Len(Recorded(h)) = Len(h) + 1 - d
                            /\ Len(Recorded(h)) <= 2 * Capacity /\ Shifted(h, Recorded(h), d)
      BY <1>0, <3>8, RecordedShifts
    <3>10. \A i \in 1..Len(Recorded(h)) : Recorded(h)[i] <= now
      <4> SUFFICES ASSUME NEW i \in 1..Len(Recorded(h)) PROVE Recorded(h)[i] <= now
        OBVIOUS
      <4>1. CASE i = Len(Recorded(h))
        BY <1>0, <3>9, <4>1 DEF Shifted
      <4>2. CASE i # Len(Recorded(h))
        <5>1. Len(h) \in Nat /\ Len(Recorded(h)) \in Nat
          BY <3>8, <3>9
        <5>2. i \in 1..(Len(h) - d) /\ i + d \in 1..Len(h)
          BY <3>9, <4>2, <5>1, ShiftIndex
        <5>3. Recorded(h)[i] = h[i + d]
          BY <3>9, <5>2 DEF Shifted
        <5> QED BY <3>8, <5>2, <5>3
      <4> QED BY <4>1, <4>2
    <3>11. ASSUME NEW p \in Clients \X Routes
           PROVE  /\ recent'[p] \in Seq(Nat) /\ Len(recent'[p]) <= 2 * Capacity
                  /\ \A i \in 1..Len(recent'[p]) : recent'[p][i] <= now
      <4>1. CASE p = Of(r)
        BY <3>3, <3>8, <3>9, <3>10, <4>1
      <4>2. CASE p # Of(r)
        BY <3>3, <4>2 DEF TypeInv
      <4> QED BY <4>1, <4>2
    <3>12. recent' \in [Clients \X Routes -> Seq(Nat)]
      <4>1. recent' = [recent EXCEPT ![Of(r)] = Recorded(recent[Of(r)])]
        BY <3>1 DEF LetThrough, Of
      <4>2. Recorded(recent[Of(r)]) \in Seq(Nat)
        BY <3>8, <3>9
      <4> QED BY <4>1, <4>2 DEF TypeInv
    <3>13. promise' \in [Clients \X Routes -> Nat \cup {None}]
      <4>1. promise' = [promise EXCEPT ![Of(r)] = None]
        BY <3>1 DEF LetThrough, Of
      <4> QED BY <4>1 DEF TypeInv
    <3> QED BY <2>0, <3>4, <3>5, <3>7, <3>11, <3>12, <3>13 DEF TypeInv
  <2>3. CASE Refuse(r)
    <3>1. PICK w \in WindowRecords :
            /\ w.start <= now /\ ~Expired(w) /\ Answers(r, "limited", RetryAfter(w))
            /\ promise' = [promise EXCEPT ![Of(r)] = now + RetryAfter(w) * TicksPerSecond]
            /\ UNCHANGED <<windows, recent>>
      BY <2>3, RefuseHasWindow DEF Of
    <3>2. RetryAfter(w) \in 1..WindowSeconds /\ now + RetryAfter(w) * TicksPerSecond \in Nat
      BY <1>0, <3>1, RetryLeadsPast
    <3>3. /\ answer'.client \in Clients /\ answer'.route \in Routes
          /\ answer'.status \in {"passed", "unauthorized", "limited"}
          /\ answer'.retry \in 1..WindowSeconds \cup {None}
      BY <3>1, <3>2, AnswerTyped
    <3>4. promise' \in [Clients \X Routes -> Nat \cup {None}]
      BY <3>1, <3>2 DEF TypeInv
    <3> QED BY <2>0, <3>1, <3>3, <3>4 DEF TypeInv
  <2> QED BY <1>2, <2>1, <2>2, <2>3 DEF Request
<1>3. CASE UNCHANGED vars
  BY <1>3 DEF vars, TypeInv
<1> QED BY <1>1, <1>2, <1>3 DEF Next

\* What was typed above is typed as the specification says.
LEMMA TypesAgree == TypeInv => AccessTypeOK
<1> SUFFICES ASSUME TypeInv PROVE AccessTypeOK
  OBVIOUS
<1>0. now \in Nat
  BY AccessAssumption DEF TypeInv
<1>1. \A key \in DOMAIN windows : windows[key] \in [start : 0..now, count : 1..Capacity]
  <2> SUFFICES ASSUME NEW key \in DOMAIN windows
               PROVE  windows[key] \in [start : 0..now, count : 1..Capacity]
    OBVIOUS
  <2>1. PICK w \in WindowRecords : w = windows[key] /\ w.start <= now
    BY DEF TypeInv
  <2>2. w = [start |-> w.start, count |-> w.count] /\ w.start \in Nat /\ w.count \in 1..Capacity
    BY DEF WindowRecords
  <2>3. w.start \in 0..now
    BY <1>0, <2>1, <2>2
  <2> QED BY <2>1, <2>2, <2>3
<1>2. ASSUME NEW p \in Clients \X Routes
      PROVE  /\ recent[p] \in Seq(0..now) /\ Len(recent[p]) <= 2 * Capacity
             /\ promise[p] \in Nat \cup {None}
  <2>1. /\ recent[p] \in Seq(Nat) /\ Len(recent[p]) <= 2 * Capacity
        /\ \A i \in 1..Len(recent[p]) : recent[p][i] <= now
        /\ promise[p] \in Nat \cup {None}
    BY DEF TypeInv
  <2>2. \A i \in 1..Len(recent[p]) : recent[p][i] \in 0..now
    <3>1. \A i \in 1..Len(recent[p]) : recent[p][i] \in Nat
      BY <2>1
    <3> QED BY <1>0, <2>1, <3>1
  <2>3. recent[p] \in [1..Len(recent[p]) -> Nat] /\ Len(recent[p]) \in Nat
    BY <2>1
  <2>4. recent[p] \in [1..Len(recent[p]) -> 0..now]
    BY <2>2, <2>3
  <2>5. recent[p] \in Seq(0..now)
    BY <2>3, <2>4, SeqDef
  <2> QED BY <2>1, <2>5
<1>3. DOMAIN windows \subseteq {Key(r) : r \in Requests}
  BY DEF TypeInv
<1> QED BY <1>1, <1>2, <1>3 DEF AccessTypeOK, TypeInv

\* AccessTypeOK, whoever sends the requests: what the limiter stores and answers is what
\* it should be, and no window counts more than the capacity.
THEOREM AccessTyped == Spec => []AccessTypeOK
BY InitTyped, NextTyped, TypesAgree, PTL DEF Spec

----------------------------------------------------------------------------
(* Clients with credentials of their own *)

\* Requests are counted together if and only if they are one client's for one route.
LEMMA CountedTogether ==
  ASSUME OwnCredentials, NEW r \in Requests, Checkable(r), NEW q \in Requests, Checkable(q)
  PROVE  Key(r) = Key(q) <=> Of(r) = Of(q)
<1>1. r.route = q.route =>
        (r.client = q.client <=> \/ r.apiKey # None /\ r.apiKey = q.apiKey
                                 \/ r.apiKey = None /\ q.apiKey = None /\ Address(r) = Address(q))
  BY DEF OwnCredentials, Checkable
<1>2. "api-key" # "ip"
  OBVIOUS
<1>3. Identity(r) = Identity(q) <=>
        \/ r.apiKey # None /\ r.apiKey = q.apiKey
        \/ r.apiKey = None /\ q.apiKey = None /\ Address(r) = Address(q)
  BY <1>2 DEF Identity
<1>4. Key(r) = Key(q) <=> Identity(r) = Identity(q) /\ r.route = q.route
  BY DEF Key
<1>5. Of(r) = Of(q) <=> r.client = q.client /\ r.route = q.route
  BY DEF Of
<1> QED BY <1>1, <1>3, <1>4, <1>5

\* A client's times fit its window after one more.
LEMMA AdmitKeeps ==
  ASSUME TypeInv, NEW r \in Requests, NEW window \in WindowRecords,
         IF Key(r) \in DOMAIN windows
         THEN /\ Kept(recent[Of(r)], promise[Of(r)], windows[Key(r)])
              /\ NextOf(windows[Key(r)], window)
         ELSE recent[Of(r)] = <<>> /\ window = [start |-> now, count |-> 1]
  PROVE  Kept(Recorded(recent[Of(r)]), None, window)
<1>0. now \in Nat
  BY AccessAssumption DEF TypeInv
<1>1. PICK h \in Seq(Nat) : h = recent[Of(r)] /\ Len(h) <= 2 * Capacity /\ Past(h)
  BY OfInPairs DEF TypeInv, Past
<1>2. CASE Key(r) \in DOMAIN windows
  <2>1. PICK w \in WindowRecords : w = windows[Key(r)]
    BY <1>2 DEF TypeInv
  <2>2. w.start \in Nat /\ InWindows(h, w.count, w.start) /\ NextOf(w, window)
    BY <1>1, <1>2, <2>1 DEF Kept, WindowRecords
  <2>3. CASE now - w.start >= Window /\ window = [start |-> now, count |-> 1]
    <3>1. InWindows(Recorded(h), 1, now)
      BY <1>0, <1>1, <2>2, <2>3, NextWindow
    <3> QED BY <1>1, <2>3, <3>1 DEF Kept
  <2>4. CASE w.count < Capacity /\ window.start = w.start /\ window.count = w.count + 1
    <3>1. InWindows(Recorded(h), w.count + 1, w.start)
      BY <1>0, <1>1, <2>2, <2>4, SameWindow
    <3> QED BY <1>1, <2>4, <3>1 DEF Kept
  <2> QED BY <2>2, <2>3, <2>4 DEF NextOf
<1>3. CASE Key(r) \notin DOMAIN windows
  <2>1. InWindows(Recorded(<<>>), 1, now)
    BY <1>0, FirstTime
  <2> QED BY <1>3, <2>1 DEF Kept
<1> QED BY <1>2, <1>3

\* Every client's times keep fitting the window its requests are counted in.
LEMMA NextKept ==
  ASSUME OwnCredentials, TypeInv, KeptByAll, [Next]_vars
  PROVE  KeptByAll'
<1>1. CASE UNCHANGED <<windows, recent, promise>>
  BY <1>1 DEF KeptByAll
<1>2. ASSUME NEW r \in Requests, Admit(r) PROVE KeptByAll'
  <2>1. Checkable(r)
    BY <1>2, AdmitLetsThrough
  <2>2. PICK window \in WindowRecords :
          /\ LetThrough(r, window)
          /\ IF Key(r) \in DOMAIN windows THEN NextOf(windows[Key(r)], window)
             ELSE window = [start |-> now, count |-> 1]
    BY <1>2, AdmitLetsThrough
  <2>3. /\ DOMAIN windows' = DOMAIN windows \cup {Key(r)}
        /\ windows'[Key(r)] = window
        /\ \A key \in DOMAIN windows : key # Key(r) => windows'[key] = windows[key]
        /\ recent'[Of(r)] = Recorded(recent[Of(r)]) /\ promise'[Of(r)] = None
        /\ \A p \in Clients \X Routes :
             p # Of(r) => recent'[p] = recent[p] /\ promise'[p] = promise[p]
    BY <2>2, LetThroughState
  <2>4. Kept(Recorded(recent[Of(r)]), None, window)
    BY <2>1, <2>2, AdmitKeeps DEF KeptByAll
  <2>5. ASSUME NEW q \in Requests, Checkable(q)
        PROVE  IF Key(q) \in DOMAIN windows'
               THEN Kept(recent'[Of(q)], promise'[Of(q)], windows'[Key(q)])
               ELSE recent'[Of(q)] = <<>> /\ promise'[Of(q)] = None
    <3>1. CASE Of(q) = Of(r)
      <4>1. Key(q) = Key(r)
        BY <2>1, <2>5, <3>1, CountedTogether
      <4> QED BY <2>3, <2>4, <3>1, <4>1
    <3>2. CASE Of(q) # Of(r)
      <4>1. Key(q) # Key(r)
        BY <2>1, <2>5, <3>2, CountedTogether
      <4>2. recent'[Of(q)] = recent[Of(q)] /\ promise'[Of(q)] = promise[Of(q)]
        BY <2>3, <3>2, OfInPairs
      <4>3. /\ Key(q) \in DOMAIN windows' <=> Key(q) \in DOMAIN windows
            /\ Key(q) \in DOMAIN windows => windows'[Key(q)] = windows[Key(q)]
        BY <2>3, <4>1
      <4> QED BY <2>5, <4>2, <4>3 DEF KeptByAll
    <3> QED BY <3>1, <3>2
  <2> QED BY <2>5 DEF KeptByAll, Kept, Checkable, Key, Of, Identity, Address
<1>3. ASSUME NEW r \in Requests, Refuse(r) PROVE KeptByAll'
  <2>1. Checkable(r) /\ Key(r) \in DOMAIN windows
    BY <1>3, RefuseHasWindow
  <2>2. PICK w \in WindowRecords :
          /\ w = windows[Key(r)] /\ w.start <= now /\ w.count >= Capacity /\ ~Expired(w)
          /\ promise' = [promise EXCEPT ![Of(r)] = now + RetryAfter(w) * TicksPerSecond]
          /\ UNCHANGED <<windows, recent>>
    BY <1>3, RefuseHasWindow DEF Of
  <2>3. PICK m \in Nat : /\ m = now + RetryAfter(w) * TicksPerSecond
                         /\ m >= w.start + Window /\ m < w.start + Window + TicksPerSecond
    <3>1. now \in Nat
      BY AccessAssumption DEF TypeInv
    <3> QED BY <2>2, <3>1, RetryLeadsPast
  <2>4. promise' = [promise EXCEPT ![Of(r)] = m]
    BY <2>2, <2>3
  <2>5. promise'[Of(r)] = m /\ \A p \in Clients \X Routes : p # Of(r) => promise'[p] = promise[p]
    BY <2>4, OfInPairs DEF TypeInv
  <2>6. ASSUME NEW q \in Requests, Checkable(q)
        PROVE  IF Key(q) \in DOMAIN windows
               THEN Kept(recent[Of(q)], promise'[Of(q)], windows[Key(q)])
               ELSE recent[Of(q)] = <<>> /\ promise'[Of(q)] = None
    <3>1. CASE Of(q) = Of(r)
      <4>1. Key(q) = Key(r)
        BY <2>1, <2>6, <3>1, CountedTogether
      <4>2. InWindows(recent[Of(q)], w.count, w.start)
        BY <2>1, <2>2, <2>6, <4>1 DEF KeptByAll, Kept
      <4>3. Kept(recent[Of(q)], promise'[Of(q)], w)
        BY <2>2, <2>3, <2>5, <3>1, <4>2 DEF Kept
      <4> QED BY <2>1, <2>2, <4>1, <4>3
    <3>2. CASE Of(q) # Of(r)
      <4>1. promise'[Of(q)] = promise[Of(q)]
        BY <2>5, <3>2, OfInPairs
      <4> QED BY <2>6, <4>1 DEF KeptByAll
    <3> QED BY <3>1, <3>2
  <2> QED BY <2>2, <2>6 DEF KeptByAll, Kept, Checkable, Key, Of, Identity, Address
<1> QED BY <1>1, <1>2, <1>3 DEF Next, Tick, Request, Uncounted, vars

\* A client and route that no request is counted for keep nothing.
LEMMA NextNeverCounted ==
  ASSUME TypeInv, NeverCounted, [Next]_vars
  PROVE  NeverCounted'
<1>1. CASE UNCHANGED <<windows, recent, promise>>
  BY <1>1 DEF NeverCounted, Of, Checkable
<1>2. ASSUME NEW r \in Requests, Admit(r) \/ Refuse(r) PROVE NeverCounted'
  <2>1. Checkable(r)
    BY <1>2, AdmitLetsThrough, RefuseHasWindow
  <2>2. \A p \in Clients \X Routes : p # Of(r) => recent'[p] = recent[p] /\ promise'[p] = promise[p]
    <3>1. CASE Admit(r)
      BY <3>1, AdmitLetsThrough, LetThroughState
    <3>2. CASE Refuse(r)
      BY <3>2 DEF Refuse, TypeInv, Of
    <3> QED BY <1>2, <3>1, <3>2
  <2> QED BY <2>1, <2>2 DEF NeverCounted, Of, Checkable
<1> QED BY <1>1, <1>2 DEF Next, Tick, Request, Uncounted, vars

\* A refusal finds Capacity times within the last window's length.
LEMMA NextRefused ==
  ASSUME TypeInv, KeptByAll, RefusedWhenFull, [Next]_vars
  PROVE  RefusedWhenFull'
<1>0. now \in Nat /\ Window \in Nat /\ Capacity \in Nat \ {0}
  BY AccessAssumption, WindowLength DEF TypeInv
<1>1. CASE Tick
  BY <1>1 DEF Tick, RefusedWhenFull
<1>2. ASSUME NEW r \in Requests, Uncounted(r) PROVE RefusedWhenFull'
  BY <1>2, UncountedAnswers DEF RefusedWhenFull
<1>3. ASSUME NEW r \in Requests, Admit(r) PROVE RefusedWhenFull'
  <2>1. Answers(r, "passed", None)
    BY <1>3, AdmitLetsThrough DEF LetThrough
  <2>2. answer'.status = "passed"
    BY <2>1 DEF Answers
  <2> QED BY <2>2 DEF RefusedWhenFull
<1>4. ASSUME NEW r \in Requests, Refuse(r), UNCHANGED now PROVE RefusedWhenFull'
  <2>1. Checkable(r) /\ Key(r) \in DOMAIN windows
    BY <1>4, RefuseHasWindow
  <2>2. PICK w \in WindowRecords :
          /\ w = windows[Key(r)] /\ w.count >= Capacity /\ now < w.start + Window
          /\ Answers(r, "limited", RetryAfter(w)) /\ UNCHANGED recent
    BY <1>4, RefuseHasWindow
  <2>3. PICK h \in Seq(Nat) : h = recent[Of(r)]
    BY OfInPairs DEF TypeInv
  <2>4. InWindows(h, w.count, w.start)
    BY <2>1, <2>2, <2>3 DEF KeptByAll, Kept
  <2>5. Len(h) >= Capacity /\ h[Len(h) - Capacity + 1] = w.start
    BY <2>2, <2>4, FullWindow
  <2>6. w.start \in Nat /\ w.start > now - Window
    <3>1. w.start \in Nat
      BY DEF WindowRecords
    <3> QED BY <1>0, <2>2, <3>1
  <2>7. <<answer'.client, answer'.route>> = Of(r)
    BY <2>2 DEF Answers, Of
  <2> QED BY <1>4, <2>2, <2>3, <2>5, <2>6, <2>7 DEF RefusedWhenFull
<1>5. CASE UNCHANGED vars
  BY <1>5 DEF RefusedWhenFull, vars
<1> QED BY <1>1, <1>2, <1>3, <1>4, <1>5 DEF Next, Request

\* Nobody was counted at the start.
LEMMA InitKept == Init => KeptByAll /\ NeverCounted /\ RefusedWhenFull
<1> SUFFICES ASSUME Init PROVE KeptByAll /\ NeverCounted /\ RefusedWhenFull
  OBVIOUS
<1>1. DOMAIN windows = {} /\ answer = None
  BY DEF Init
<1>2. \A p \in Clients \X Routes : recent[p] = <<>> /\ promise[p] = None
  BY DEF Init
<1> QED BY <1>1, <1>2, OfInPairs DEF KeptByAll, NeverCounted, RefusedWhenFull

\* AccessInv: what every client was granted and promised fits the window it is counted in.
THEOREM AccessInvariance ==
  ASSUME OwnCredentials
  PROVE  Spec => []AccessInv
<1>1. Init => AccessInv
  BY InitTyped, InitKept DEF AccessInv
<1>2. AccessInv /\ [Next]_vars => AccessInv'
  BY NextTyped, NextKept, NextNeverCounted, NextRefused DEF AccessInv
<1> QED BY <1>1, <1>2, PTL DEF Spec

\* SpanBounded: 2 * Capacity times a client was let through on a route span a window.
THEOREM SpanBoundedAlways ==
  ASSUME OwnCredentials
  PROVE  Spec => []SpanBounded
<1>1. AccessInv => SpanBounded
  <2> SUFFICES ASSUME AccessInv, NEW p \in Clients \X Routes, Len(recent[p]) = 2 * Capacity
               PROVE  recent[p][2 * Capacity] - recent[p][1] >= Window
    BY DEF SpanBounded
  <2>1. recent[p] # <<>>
    BY AccessAssumption
  <2>2. PICK r \in Requests : Checkable(r) /\ Of(r) = p
    BY <2>1 DEF AccessInv, NeverCounted
  <2>3. InWindows(recent[p], windows[Key(r)].count, windows[Key(r)].start)
    BY <2>1, <2>2 DEF AccessInv, KeptByAll, Kept
  <2>4. recent[p] \in Seq(Nat)
    BY DEF AccessInv, TypeInv
  <2> QED BY <2>3, <2>4, WindowsSpan
<1> QED BY <1>1, AccessInvariance, PTL

\* RefusedWhenFull: who is refused was let through Capacity times within a window's length.
THEOREM RefusedWhenFullAlways ==
  ASSUME OwnCredentials
  PROVE  Spec => []RefusedWhenFull
<1>1. AccessInv => RefusedWhenFull
  BY DEF AccessInv
<1> QED BY <1>1, AccessInvariance, PTL

\* One step: who waits for its Retry-After is let through, who comes a second early is not.
LEMMA RetryStep ==
  ASSUME AccessInv, [Next]_vars, NEW p \in Clients \X Routes,
         promise[p] # None, answer' # None, <<answer'.client, answer'.route>> = p,
         ~UNCHANGED vars
  PROVE  /\ answer'.status = "limited" => now < promise[p]
         /\ windows' # windows => now > promise[p] - TicksPerSecond
<1>0. /\ now \in Nat /\ Window \in Nat /\ Capacity \in Nat \ {0} /\ TicksPerSecond \in Nat
      /\ promise[p] \in Nat
  BY AccessAssumption, WindowLength DEF AccessInv, TypeInv
<1>1. ASSUME NEW r \in Requests, Uncounted(r)
      PROVE  answer'.status # "limited" /\ windows' = windows
  BY <1>1, UncountedAnswers DEF Uncounted
<1>2. ASSUME NEW r \in Requests, Admit(r)
      PROVE  answer'.status # "limited" /\ now > promise[p] - TicksPerSecond
  <2>1. PICK window \in WindowRecords :
          /\ LetThrough(r, window)
          /\ IF Key(r) \in DOMAIN windows THEN NextOf(windows[Key(r)], window)
             ELSE window = [start |-> now, count |-> 1]
    BY <1>2, AdmitLetsThrough DEF AccessInv
  <2>2. answer'.status = "passed" /\ <<answer'.client, answer'.route>> = Of(r)
    BY <2>1 DEF LetThrough, Answers, Of
  <2>3. Checkable(r) /\ Of(r) = p
    BY <1>2, <2>2, AdmitLetsThrough DEF AccessInv
  <2>4. Key(r) \in DOMAIN windows
    BY <2>3 DEF AccessInv, KeptByAll
  <2>5. PICK w \in WindowRecords : w = windows[Key(r)] /\ NextOf(w, window)
    BY <2>1, <2>4 DEF AccessInv, TypeInv
  <2>6. w.count >= Capacity /\ promise[p] < w.start + Window + TicksPerSecond
    BY <2>3, <2>4, <2>5 DEF AccessInv, KeptByAll, Kept
  <2>7. w.start \in Nat /\ w.count \in Nat
    BY DEF WindowRecords
  <2>8. now - w.start >= Window
    BY <1>0, <2>5, <2>6, <2>7 DEF NextOf
  <2>9. now > promise[p] - TicksPerSecond
    BY <1>0, <2>6, <2>7, <2>8
  <2> QED BY <2>2, <2>9
<1>3. ASSUME NEW r \in Requests, Refuse(r)
      PROVE  windows' = windows /\ now < promise[p]
  <2>1. PICK w \in WindowRecords :
          /\ w = windows[Key(r)] /\ now < w.start + Window
          /\ Answers(r, "limited", RetryAfter(w)) /\ UNCHANGED windows
    BY <1>3, RefuseHasWindow DEF AccessInv
  <2>2. Checkable(r) /\ Key(r) \in DOMAIN windows
    BY <1>3, RefuseHasWindow DEF AccessInv
  <2>3. Of(r) = p
    BY <2>1 DEF Answers, Of
  <2>4. promise[p] >= w.start + Window
    BY <2>1, <2>2, <2>3 DEF AccessInv, KeptByAll, Kept
  <2>5. w.start \in Nat
    BY DEF WindowRecords
  <2> QED BY <1>0, <2>1, <2>4, <2>5
<1> QED BY <1>1, <1>2, <1>3 DEF Next, Tick, Request

\* RetryAfterHolds: the Retry-After a client was told is neither too short nor a second
\* too long.
THEOREM RetryAfterAlwaysHolds ==
  ASSUME OwnCredentials
  PROVE  Spec => RetryAfterHolds
<1>1. AccessInv /\ [Next]_vars =>
        [\A p \in Clients \X Routes :
           promise[p] # None /\ answer' # None /\ <<answer'.client, answer'.route>> = p =>
             /\ answer'.status = "limited" => now < promise[p]
             /\ windows' # windows => now > promise[p] - TicksPerSecond]_vars
  BY RetryStep
<1> QED BY <1>1, AccessInvariance, PTL DEF Spec, RetryAfterHolds
====
