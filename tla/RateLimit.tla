----------------------------- MODULE RateLimit -----------------------------
(***************************************************************************)
(* The rate limiter of the FastAPI service (engine/rate_limiter.py) behind *)
(* its middleware (api/middleware/rate_limiting.py), in one process.       *)
(*                                                                         *)
(* The times recorded for a client are a function from requests to ages.   *)
(* The check runs without an await, so it is one step; the request it lets *)
(* through is answered later.                                              *)
(***************************************************************************)
EXTENDS Naturals, FiniteSets

CONSTANTS
  Client,              \* client addresses
  PassedRequest,       \* names for requests that were let through
  RequestsPerMinute,   \* 60
  Minute               \* 60 s in steps of the model's clock

ASSUME RateAssumption == RequestsPerMinute \in Nat \ {0} /\ Minute \in Nat \ {0}

VARIABLE rl

NoneRecorded == [r \in {} |-> 0]

RateInit ==
  rl = [requests |-> [c \in Client |-> NoneRecorded],
        passed   |-> [c \in Client |-> NoneRecorded],   \* history: who was let through
        answer   |-> [c \in Client |-> 0]]

-----------------------------------------------------------------------------
(* Bound of the model: an age stops at two minutes.                        *)
Aged(ages) ==
  [r \in DOMAIN ages |-> IF ages[r] < 2 * Minute THEN ages[r] + 1 ELSE ages[r]]
Recent(ages)      == [r \in {q \in DOMAIN ages : ages[q] < Minute} |-> ages[r]]
Recorded(ages, r) == [q \in DOMAIN ages \union {r} |-> IF q = r THEN 0 ELSE ages[q]]

RateTick ==
  rl' = [rl EXCEPT !.requests = [c \in Client |-> Aged(@[c])],
                   !.passed   = [c \in Client |-> Recent(Aged(@[c]))]]

(* Mutant: the record is emptied when its oldest entry is a minute old.    *)
CleanedAtOnce(ages) == IF \E r \in DOMAIN ages : ages[r] >= Minute THEN NoneRecorded ELSE ages

(* Times a minute old or older are cleaned, whenever the client comes.     *)
Cleaned(ages) == Recent(ages)

(* A client at its limit is refused, and the refusal is not recorded.  Any *)
(* exception of a request that passed is answered 429 as well.  Bound of   *)
(* the model: a request needs a name that no recorded one has.             *)
CheckRateLimit(c) ==
  LET kept == Cleaned(rl.requests[c])
  IN \/ /\ Cardinality(DOMAIN kept) >= RequestsPerMinute
        /\ rl' = [rl EXCEPT !.requests[c] = kept, !.answer[c] = 429]
     \/ /\ Cardinality(DOMAIN kept) < RequestsPerMinute
        /\ \E r \in PassedRequest \ (DOMAIN kept \union DOMAIN rl.passed[c]),
              answer \in {200, 429} :
             rl' = [rl EXCEPT !.requests[c] = Recorded(kept, r),
                              !.passed[c] = Recorded(@, r), !.answer[c] = answer]

RateNext == RateTick \/ \E c \in Client : CheckRateLimit(c)

RateSpec == RateInit /\ [][RateNext]_rl

-----------------------------------------------------------------------------
(* Whenever a minute is taken from, no client got more requests through in *)
(* it than the limit, however long it stayed away or kept on being refused.*)
WindowNeverExceeded ==
  \A c \in Client : Cardinality(DOMAIN rl.passed[c]) <= RequestsPerMinute
=============================================================================
