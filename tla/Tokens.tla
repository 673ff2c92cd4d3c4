------------------------------- MODULE Tokens -------------------------------
(***************************************************************************)
(* The access tokens of the two adapters (tranzact/auth.py, zoho/auth.py)  *)
(* and the requests made with them (client.py of each),                    *)
(* for one account, by any number of threads.                              *)
(*                                                                         *)
(* TranzAct looks at the cache without the lock, then again under it; a    *)
(* thread that was answered 401, or that tests the connection, skips both  *)
(* looks.  Zoho looks under the lock only, and a 401 on a first attempt    *)
(* empties the cache.  Exchanging holds the lock throughout.  The          *)
(* providers are external: a token of theirs stops being accepted when it  *)
(* expires or when they revoke it, and an exchange or a request may fail.  *)
(***************************************************************************)
EXTENDS Integers, FiniteSets

CONSTANTS
    Threads,
    Nobody,         \* owner of a free lock
    MaxTokens,      \* bound: tokens ever issued
    MaxCauses,      \* bound: near expiries, 401s and tests
    max_retries     \* of a request, by provider

ASSUME TokensAssumption ==
    /\ Nobody \notin Threads
    /\ IsFiniteSet(Threads)
    /\ MaxTokens \in Nat \ {0} /\ MaxCauses \in Nat
    /\ max_retries \in [{"tranzact", "zoho"} -> Nat \ {0}]

VARIABLES
    provider,     \* "tranzact" or "zoho"
    issued,       \* tokens issued so far, numbered from 1
    accepted,     \* the last issued token is still good at the provider's
    cached,       \* the cache's access_token, 0 if none
    fresh,        \* its expiry is more than two minutes off, as far as the cache knows
    login_lock,   \* who holds it
    request,      \* of each thread: where it is, its attempt, its token
    causes        \* near expiries, 401s and tests so far (history)

tokenVars == <<provider, issued, accepted, cached, fresh, login_lock, request,
               causes>>

Request == [at : {"idle", "look", "wait", "locked", "send"}, forced : BOOLEAN,
            attempt : Nat, token : 0..MaxTokens]

TokensTypeOK ==
    /\ provider \in {"tranzact", "zoho"}
    /\ issued \in 0..MaxTokens /\ cached \in 0..issued
    /\ accepted \in BOOLEAN /\ fresh \in BOOLEAN
    /\ login_lock \in Threads \cup {Nobody}
    /\ request \in [Threads -> Request]
    /\ causes \in 0..MaxCauses

Quiet == [at |-> "idle", forced |-> FALSE, attempt |-> 0, token |-> 0]

TokensInit ==
    /\ provider \in {"tranzact", "zoho"}
    /\ issued = 0 /\ cached = 0
    /\ accepted = FALSE /\ fresh = FALSE
    /\ login_lock = Nobody
    /\ request = [t \in Threads |-> Quiet]
    /\ causes = 0

\* is_access_valid, the same test in zoho/auth.py.
IsAccessValid == cached # 0 /\ fresh

At(t, place)    == request[t].at = place
GoOn(t, fields) == request' = [request EXCEPT ![t] = fields]

\* Where get_access_token begins: TranzAct's looks without the lock.
Entry == IF provider = "tranzact" THEN "look" ELSE "wait"

\* The next attempt, which asks for a token anew, or the end of the request.
Again(t) ==
    LET n == request[t].attempt + 1 IN
    GoOn(t, IF n < max_retries[provider]
            THEN [Quiet EXCEPT !.at = Entry, !.attempt = n] ELSE Quiet)

\* What get_access_token answers is sent; what it was made to renew is dropped.
Answer(t, token) ==
    IF request[t].forced THEN Again(t)
    ELSE GoOn(t, [request[t] EXCEPT !.at = "send", !.token = token])

\* What makes a token worth exchanging.
Cause == causes < MaxCauses /\ causes' = causes + 1

\* A request begins: a page of a report, or the catalogue of reports, which is
\* asked for once.
Ask(t) ==
    /\ At(t, "idle")
    /\ GoOn(t, [Quiet EXCEPT !.at = Entry])
    /\ UNCHANGED <<provider, issued, accepted, cached, fresh, login_lock, causes>>

\* POST /connections/tranzact/test: a renewal by force after which nothing is
\* sent, as after a last attempt.
Test(t) ==
    /\ provider = "tranzact" /\ At(t, "idle")
    /\ GoOn(t, [Quiet EXCEPT !.at = Entry, !.forced = TRUE,
                             !.attempt = max_retries[provider]])
    /\ Cause
    /\ UNCHANGED <<provider, issued, accepted, cached, fresh, login_lock>>

-----------------------------------------------------------------------------
(* get_access_token. *)

Look(t) ==
    /\ At(t, "look")
    /\ IF ~request[t].forced /\ IsAccessValid
       THEN Answer(t, cached)
       ELSE GoOn(t, [request[t] EXCEPT !.at = "wait"])
    /\ UNCHANGED <<provider, issued, accepted, cached, fresh, login_lock, causes>>

Acquire(t) ==
    /\ At(t, "wait") /\ login_lock = Nobody
    /\ login_lock' = t
    /\ GoOn(t, [request[t] EXCEPT !.at = "locked"])
    /\ UNCHANGED <<provider, issued, accepted, cached, fresh, causes>>

\* Slip: nobody looks again under the lock.
Reuses_never(t) == FALSE

\* Somebody else may have filled the cache while this thread waited.
Reuses(t) == ~request[t].forced /\ IsAccessValid

ReuseToken(t) ==
    /\ At(t, "locked") /\ Reuses(t)
    /\ Answer(t, cached)
    /\ login_lock' = Nobody
    /\ UNCHANGED <<provider, issued, accepted, cached, fresh, causes>>

\* _do_refresh, and if it fails _do_login; for Zoho the refresh only.
Exchange(t) ==
    /\ At(t, "locked") /\ ~Reuses(t) /\ issued < MaxTokens
    /\ issued' = issued + 1
    /\ cached' = issued' /\ fresh' = TRUE /\ accepted' = TRUE
    /\ Answer(t, issued')
    /\ login_lock' = Nobody
    /\ UNCHANGED <<provider, causes>>

\* Neither works, whatever was tried how often: the lock is given back.
ExchangeFails(t) ==
    /\ At(t, "locked") /\ ~Reuses(t)
    /\ GoOn(t, Quiet)
    /\ login_lock' = Nobody
    /\ UNCHANGED <<provider, issued, accepted, cached, fresh, causes>>

-----------------------------------------------------------------------------
(* A request and its answer: _generate_report, and _get of Zoho. *)

Valid(token) == token = issued /\ accepted

\* An answer, or a failure that is not worth another attempt.
Answered(t) ==
    /\ At(t, "send")
    /\ GoOn(t, Quiet)
    /\ UNCHANGED <<provider, issued, accepted, cached, fresh, login_lock, causes>>

\* The network, a 429, a 5xx: the same again later.
Disturbed(t) ==
    /\ At(t, "send")
    /\ Again(t)
    /\ UNCHANGED <<provider, issued, accepted, cached, fresh, login_lock, causes>>

\* 401 of TranzAct: a renewal by force, and one attempt less.
Refused_tranzact(t) ==
    /\ provider = "tranzact" /\ At(t, "send") /\ ~Valid(request[t].token)
    /\ GoOn(t, [request[t] EXCEPT !.at = Entry, !.forced = TRUE])
    /\ Cause
    /\ UNCHANGED <<provider, issued, accepted, cached, fresh, login_lock>>

\* 401 of Zoho: on the first attempt the cache is emptied, without its lock; a
\* later one is a failure as any other.
Refused_zoho(t) ==
    /\ provider = "zoho" /\ At(t, "send") /\ ~Valid(request[t].token)
    /\ request[t].attempt = 0
    /\ fresh' = FALSE /\ Again(t) /\ Cause
    /\ UNCHANGED <<provider, issued, accepted, cached, login_lock>>

-----------------------------------------------------------------------------
(* Time, and the provider. *)

NearExpiry ==
    /\ fresh
    /\ fresh' = FALSE /\ Cause
    /\ UNCHANGED <<provider, issued, accepted, cached, login_lock, request>>

Revoke ==
    /\ accepted
    /\ accepted' = FALSE
    /\ UNCHANGED <<provider, issued, cached, fresh, login_lock, request, causes>>

Proceed(t) ==
    \/ Look(t) \/ Acquire(t) \/ ReuseToken(t) \/ Exchange(t) \/ ExchangeFails(t)
    \/ Answered(t) \/ Disturbed(t) \/ Refused_tranzact(t) \/ Refused_zoho(t)

TokensNext ==
    \/ \E t \in Threads : Ask(t) \/ Test(t) \/ Proceed(t)
    \/ NearExpiry \/ Revoke

TokensSpec == TokensInit /\ [][TokensNext]_tokenVars

-----------------------------------------------------------------------------
(* Properties. *)

\* tranzact/auth.py: "Single-flight: only one thread logs in; the rest wait and
\* reuse its token."  However many threads find the cache stale at once, tokens are
\* exchanged as often as there was a cause: the empty cache at the start, an expiry
\* that came near, a request that was answered 401, a test of the connection.  Each
\* 401 of TranzAct is a cause of its own, also when two threads were refused the
\* same token, and so is each test, also when another has just renewed it.
OneExchangeForAll == issued <= 1 + causes

=============================================================================
