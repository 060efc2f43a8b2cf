---------------------------- MODULE RateLimit ----------------------------
(* One fixed-window counter of security/ratelimit.py, as the requests of one
   identity use it: INCR and TTL go to Redis in one pipeline, EXPIRE follows
   in a second command, and the connection may fail in between. *)
EXTENDS Integers

CONSTANTS
  Caller,      \* requests that may be counted at once
  MaxRequests, \* max_requests of the limit
  MaxCount     \* bound: how far a window is counted

VARIABLES
  counter,     \* the key in Redis; 0 when there is none
  expires,     \* the key has an expiry
  call,        \* what each request has been told
  dropped      \* a request that had to set the expiry lost its connection

limits == <<counter, expires, call, dropped>>

LimitAssumption == MaxRequests \in Nat /\ MaxCount \in Nat
ASSUME LimitAssumption

NoCall == [stage |-> "idle", count |-> 0, bare |-> FALSE]
Counts == [stage : {"idle", "counted", "allowed"}, count : 0..MaxCount, bare : BOOLEAN]

LimitTypeOK ==
  /\ counter \in 0..MaxCount
  /\ expires \in BOOLEAN
  /\ dropped \in BOOLEAN
  /\ call \in [Caller -> Counts]

LimitInit ==
  /\ counter = 0
  /\ expires = FALSE
  /\ dropped = FALSE
  /\ call = [c \in Caller |-> NoCall]

----------------------------------------------------------------------------
(* INCR and TTL in one pipeline: bare says that TTL was negative. A key that
   INCR creates has no expiry, so a count of one is bare as well. *)
Increment(c) ==
  /\ call[c] = NoCall
  /\ counter < MaxCount
  /\ counter' = counter + 1
  /\ call' = [call EXCEPT ![c] = [stage |-> "counted", count |-> counter + 1, bare |-> ~expires]]
  /\ dropped' = FALSE
  /\ UNCHANGED expires

(* A mutant of SetsExpiry: only the request that creates the key sets it. *)
SetsExpiryOnce(c) == call[c].count = 1

SetsExpiry(c) == call[c].count = 1 \/ call[c].bare

(* The decision. EXPIRE does nothing to a key that is gone. *)
Decide(c) ==
  /\ call[c].stage = "counted"
  /\ expires' = (counter > 0 /\ (expires \/ SetsExpiry(c)))
  /\ call' = [call EXCEPT ![c] = IF call[c].count <= MaxRequests
                                 THEN [@ EXCEPT !.stage = "allowed", !.bare = FALSE]
                                 ELSE NoCall]
  /\ UNCHANGED <<counter, dropped>>

(* Redis fails before EXPIRE: a limit that fails closed refuses the request. *)
LoseRedis(c) ==
  /\ call[c].stage = "counted"
  /\ dropped' = (dropped \/ SetsExpiry(c))
  /\ call' = [call EXCEPT ![c] = NoCall]
  /\ UNCHANGED <<counter, expires>>

WindowEnds ==
  /\ expires
  /\ counter' = 0 /\ expires' = FALSE
  /\ UNCHANGED <<call, dropped>>

(* What follows an allowed request: the handler fails, or succeeds and clears
   the counter; the DEL that clears it may fail too. *)
EndRefused(c) ==
  /\ call[c].stage = "allowed"
  /\ call' = [call EXCEPT ![c] = NoCall]
  /\ UNCHANGED <<counter, expires, dropped>>

Reset(c) ==
  /\ call[c].stage = "allowed"
  /\ call' = [call EXCEPT ![c] = NoCall]
  /\ \/ counter' = 0 /\ expires' = FALSE
     \/ UNCHANGED <<counter, expires>>
  /\ UNCHANGED dropped

----------------------------------------------------------------------------
(* No identity is refused for ever: a counter without an expiry is about to
   get one from a request that is at work, or its requests lost Redis and no
   request has come since; the next one repairs it, whatever the count. *)
CountersExpire ==
  counter > 0 /\ ~expires =>
    dropped \/ \E c \in Caller : call[c].stage = "counted" /\ call[c].bare
============================================================================
