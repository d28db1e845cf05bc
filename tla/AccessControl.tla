---- MODULE AccessControl ----
(***************************************************************************)
(* ApiAccessControlMiddleware and InMemoryFixedWindowRateLimiter: who may  *)
(* call the API, and how often.  `dispatch' never suspends before the      *)
(* request goes on to its handler, so it is one step.  Time goes by in     *)
(* ticks, several to a second: Retry-After is rounded up to seconds.       *)
(***************************************************************************)
EXTENDS Integers, Sequences

CONSTANTS
  Requests,        \* the requests clients send
  Clients, Routes, \* who sends them, and for which route
  Limited,         \* rate_limit_routes
  ApiKeys,         \* the configured API keys
  Capacity,        \* rate_limit_capacity
  WindowSeconds,   \* rate_limit_window_seconds
  TicksPerSecond,
  None,
  MaxNow           \* bound on the clock

\* `client' is who sends a request; the code only sees its headers and its address.
ASSUME AccessAssumption ==
  /\ \A r \in Requests : /\ DOMAIN r = {"client", "public", "apiKey", "forwarded", "host", "route"}
                         /\ r.client \in Clients /\ r.route \in Routes /\ r.public \in BOOLEAN
  /\ Limited \subseteq Routes /\ None \notin ApiKeys
  /\ Capacity \in Nat \ {0} /\ WindowSeconds \in Nat \ {0} /\ TicksPerSecond \in Nat \ {0}
  /\ MaxNow \in Nat

VARIABLES
  keyRequired, limitEnabled,   \* the settings
  now,
  windows,   \* _windows: start and count of each identity and route that has one
  answer,    \* what the last request of this tick got
  recent,    \* history: when each client was let through, the last 2 * Capacity times
  promise    \* history: when the Retry-After of a client's last answer is over

vars == <<keyRequired, limitEnabled, now, windows, answer, recent, promise>>

Window == WindowSeconds * TicksPerSecond

\* _rate_limit_identity
Address(r) == IF r.forwarded # None THEN r.forwarded ELSE r.host
\* Slip: the API key is left out.
AddressIdentity(r) == <<"ip", Address(r)>>
Identity(r) == IF r.apiKey # None THEN <<"api-key", r.apiKey>> ELSE <<"ip", Address(r)>>

\* What the limiter counts by.
Key(r) == <<Identity(r), r.route>>

Unauthorized(r) == keyRequired /\ r.apiKey \notin ApiKeys
Counted(r) == limitEnabled /\ r.route \in Limited

WindowOf(key) == IF key \in DOMAIN windows THEN windows[key] ELSE [start |-> now, count |-> 0]

Expired(w) == now - w.start >= Window

\* Slip: the request after the last is let through.
FullLate(w) == w.count > Capacity
Full(w) == w.count >= Capacity

\* max(1, ceil(window_seconds - elapsed))
\* Slip: rounded down.
RetryRoundedDown(w) ==
  LET seconds == (Window - (now - w.start)) \div TicksPerSecond
  IN IF seconds < 1 THEN 1 ELSE seconds
RetryAfter(w) ==
  LET seconds == (Window - (now - w.start) + TicksPerSecond - 1) \div TicksPerSecond
  IN IF seconds < 1 THEN 1 ELSE seconds

----------------------------------------------------------------------------
Answers(r, status, retry) ==
  answer' = [client |-> r.client, route |-> r.route, status |-> status, retry |-> retry]

\* A request that is not counted: public ones, those without a valid key, other routes.
Uncounted(r) ==
  /\ r.public \/ Unauthorized(r) \/ ~Counted(r)
  /\ Answers(r, IF ~r.public /\ Unauthorized(r) THEN "unauthorized" ELSE "passed", None)
  /\ UNCHANGED <<windows, recent, promise>>

Checked(r) == ~r.public /\ ~Unauthorized(r) /\ Counted(r)

Recorded(times) == Append(IF Len(times) < 2 * Capacity THEN times ELSE Tail(times), now)

LetThrough(r, window) ==
  /\ windows' = [key \in DOMAIN windows \union {Key(r)} |->
                   IF key = Key(r) THEN window ELSE windows[key]]
  /\ Answers(r, "passed", None)
  /\ recent' = [recent EXCEPT ![<<r.client, r.route>>] = Recorded(@)]
  /\ promise' = [promise EXCEPT ![<<r.client, r.route>>] = None]

\* Slip: the count of the old window is carried over.
AdmitCarried(r) ==
  LET w == WindowOf(Key(r))
  IN /\ Checked(r) /\ (Expired(w) \/ ~Full(w))
     /\ LetThrough(r, [start |-> IF Expired(w) THEN now ELSE w.start, count |-> w.count + 1])

\* The first request after a window's end opens the next one.
Admit(r) ==
  LET w == WindowOf(Key(r))
  IN /\ Checked(r)
     /\ \/ Expired(w) /\ LetThrough(r, [start |-> now, count |-> 1])
        \/ ~Expired(w) /\ ~Full(w) /\ LetThrough(r, [w EXCEPT !.count = @ + 1])

Refuse(r) ==
  LET w == WindowOf(Key(r))
  IN /\ Checked(r) /\ ~Expired(w) /\ Full(w)
     /\ Answers(r, "limited", RetryAfter(w))
     /\ promise' = [promise EXCEPT ![<<r.client, r.route>>] = now + RetryAfter(w) * TicksPerSecond]
     /\ UNCHANGED <<windows, recent>>

Request(r) ==
  /\ Uncounted(r) \/ Admit(r) \/ Refuse(r)
  /\ UNCHANGED <<keyRequired, limitEnabled, now>>

Tick ==
  /\ now < MaxNow /\ now' = now + 1
  /\ answer' = None
  /\ UNCHANGED <<keyRequired, limitEnabled, windows, recent, promise>>

Init ==
  /\ keyRequired \in BOOLEAN /\ limitEnabled \in BOOLEAN
  /\ now = 0 /\ windows = <<>> /\ answer = None
  /\ recent = [p \in Clients \X Routes |-> <<>>]
  /\ promise = [p \in Clients \X Routes |-> None]

Next == Tick \/ \E r \in Requests : Request(r)

Spec == Init /\ [][Next]_vars

----------------------------------------------------------------------------
(* Properties *)

\* Types of all variables; a window never counts more than the capacity.
AccessTypeOK ==
  /\ keyRequired \in BOOLEAN /\ limitEnabled \in BOOLEAN /\ now \in 0..MaxNow
  /\ DOMAIN windows \subseteq {Key(r) : r \in Requests}
  /\ \A key \in DOMAIN windows : windows[key] \in [start : 0..now, count : 1..Capacity]
  /\ answer # None => /\ answer.client \in Clients /\ answer.route \in Routes
                      /\ answer.status \in {"passed", "unauthorized", "limited"}
                      /\ answer.retry \in 1..WindowSeconds \cup {None}
  /\ \A p \in Clients \X Routes : /\ recent[p] \in Seq(0..now) /\ Len(recent[p]) <= 2 * Capacity
                                  /\ promise[p] \in Nat \cup {None}

\* What the following properties are about: clients that have an API key of their own, or
\* none and an address of their own, and send the same with all requests that are counted
\* together.  (Clients who share either share what is said here of one.)
OwnCredentials ==
  \A r, s \in Requests :
    ~r.public /\ ~s.public /\ r.route = s.route /\ r.route \in Limited =>
      (r.client = s.client <=> \/ r.apiKey # None /\ r.apiKey = s.apiKey
                               \/ r.apiKey = None /\ s.apiKey = None /\ Address(r) = Address(s))

\* In no span as long as a window is a client let through 2 * Capacity times on a limited
\* route: windows are fixed, so the end of one and the start of the next may both be
\* used up, but the request that opened the first is then out of the span
\* (InMemoryFixedWindowRateLimiter.check).
SpanBounded ==
  \A p \in Clients \X Routes :
    Len(recent[p]) = 2 * Capacity => recent[p][2 * Capacity] - recent[p][1] >= Window

\* A client is refused only if it was itself let through Capacity times on that route
\* during the last window's length; the requests of others, and its own that were
\* refused or not counted, do not count against it (_rate_limit_identity, check).
RefusedWhenFull ==
  answer # None /\ answer.status = "limited" =>
    LET times == recent[<<answer.client, answer.route>>]
    IN Len(times) >= Capacity /\ times[Len(times) - Capacity + 1] > now - Window

\* A client that waits for its Retry-After, and is not let through meanwhile, is let
\* through when it comes back, and had it come a second earlier it would not have been
\* (the rounding of retry_after_seconds and the end of a window in `check').
RetryAfterHolds ==
  [][\A p \in Clients \X Routes :
       promise[p] # None /\ answer' # None /\ <<answer'.client, answer'.route>> = p =>
         /\ answer'.status = "limited" => now < promise[p]
         /\ windows' # windows => now > promise[p] - TicksPerSecond]_vars
====
