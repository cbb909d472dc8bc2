------------------------------ MODULE Limiter ------------------------------
(***************************************************************************)
(* The rate limit of the enrollment endpoint for one source address        *)
(* (internal/enroll/ratelimit.go) and the connections that go through it   *)
(* (handleConn of internal/enroll/server.go): a bucket of requests, and a  *)
(* ban that grows with the failures in a row.                              *)
(*                                                                         *)
(* A ban is computed in nanoseconds in 64 bits and is here in seconds.     *)
(***************************************************************************)
EXTENDS Integers

CONSTANTS
    Burst,      \* requests in a full bucket (5 in the code)
    MaxPending, \* bound: requests under way
    MaxFails    \* bound: failures in a row

VARIABLES
    bucket,     \* requests the bucket still lets through
    pending,    \* requests let through and not yet reported
    fails,      \* ipState.fails
    backoff,    \* the last ban, 0 for none
    banned      \* now is before ipState.banUntil

vars == <<bucket, pending, fails, backoff, banned>>

Init ==
    /\ bucket = Burst /\ pending = 0
    /\ fails = 0 /\ backoff = 0 /\ banned = FALSE

Cap == 86400

\* time.Duration(1<<(fails-1)) * 5 * time.Second, at most Cap.  5 s are
\* 9765625 * 2^9 ns: shifted by k they are r * 2^(9+k) modulo 2^64, a positive
\* number as long as r has not its top bit.
Backoff(n) ==
    LET k == n - 1
        r == 9765625 % 2^(55 - k) IN
    IF k <= 14 THEN 5 * 2^k
    ELSE IF k <= 30 THEN Cap                 \* 9765625 < 2^24: no overflow
    ELSE IF k >= 55 THEN 0
    ELSE IF r >= 2^(54 - k) THEN 0           \* negative: banUntil is past
    ELSE Cap                                 \* r * 2^(9+k) ns is above 24 h

\* Allow
Allow ==
    /\ ~banned /\ bucket > 0 /\ pending < MaxPending
    /\ bucket' = bucket - 1 /\ pending' = pending + 1
    /\ UNCHANGED <<fails, backoff, banned>>

\* The bucket gets a request back, at 5 in a minute.
Refill ==
    /\ bucket < Burst
    /\ bucket' = bucket + 1
    /\ UNCHANGED <<pending, fails, backoff, banned>>

\* Report(host, true)
Succeeds ==
    /\ pending > 0
    /\ pending' = pending - 1 /\ fails' = 0
    /\ UNCHANGED <<bucket, backoff, banned>>

\* Report(host, false), n times
Fail(n) ==
    /\ pending > 0 /\ fails + n <= MaxFails
    /\ pending' = pending - 1
    /\ fails' = fails + n
    /\ IF fails' < 2 THEN UNCHANGED <<backoff, banned>>
       ELSE backoff' = Backoff(fails') /\ banned' = (backoff' > 0)
    /\ UNCHANGED bucket

Fails == Fail(1)

\* A request of an unknown type is reported in its case and after the switch.
UnknownType == Fail(2)

BanEnds ==
    /\ banned
    /\ banned' = FALSE
    /\ UNCHANGED <<bucket, pending, fails, backoff>>

Next == Allow \/ Refill \/ Succeeds \/ Fails \/ UnknownType \/ BanEnds

Spec == Init /\ [][Next]_vars

-----------------------------------------------------------------------------
\* Properties.

\* Types: a full bucket is Burst, a ban lasts 24 hours at most.
TypeOK ==
    /\ bucket \in 0..Burst /\ pending \in 0..MaxPending
    /\ fails \in 0..MaxFails /\ backoff \in 0..Cap /\ banned \in BOOLEAN

\* One more failure in a row never makes the ban shorter, whatever other
\* requests are under way (ratelimit.go:66: "exponential: 5s, 10s, 20s ...
\* capped at 24h").
BanEscalates == [][fails' > fails /\ fails >= 2 => backoff' >= backoff]_vars

\* docs/operations/enrollment.md:31: the bans are 5 s, 10 s and so on: the
\* first is 5 s.
FirstBan == [][fails < 2 /\ fails' >= 2 => backoff' = 5]_vars
=============================================================================
