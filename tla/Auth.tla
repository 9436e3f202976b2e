-------------------------------- MODULE Auth --------------------------------
(***************************************************************************)
(* The way in: CSRFMiddleware, HandleLogin behind the rate limiter (the    *)
(* module this one extends), SessionMiddleware, HandleLogout and the       *)
(* session store with its cleanup goroutine and Stop, all at once.         *)
(* Sections under a mutex are one step; a time read before the mutex is    *)
(* taken is kept, and may be old by the time it is used.  Tokens come from *)
(* crypto/rand and never repeat: they are numbered as they are drawn.      *)
(***************************************************************************)
EXTENDS RateLimiter

CONSTANTS Requests,    \* goroutines that serve requests
          TTL,         \* session_ttl
          MaxTokens    \* bound: tokens drawn

ASSUME TTLAssumption == TTL \in Nat \ {0} /\ MaxTokens \in Nat \ {0}

Tokens == 1 .. MaxTokens
None   == 0

VARIABLES
  sessions,  \* the tokens in s.sessions
  expires,   \* Session.ExpiresAt of each token drawn
  drawn,     \* how many tokens have been drawn
  pc,        \* where each request is
  tok,       \* the token a request creates or presents
  sent,      \* what it is: "read" (a safe method), or a write by "own" or "foreign" page
  sweeper,   \* the cleanup goroutine: waiting, sweeping, stopped
  sweepNow,  \* CleanupExpired's now, while it runs
  stopping,  \* stopCh is closed
  cookies,   \* the tokens that have been sent to a browser
  out        \* history: the tokens whose logout was answered

limiter  == <<windows, calls, granted, answer>>
store    == <<sessions, expires, drawn>>
request  == <<pc, tok, sent>>
cleanup  == <<sweeper, sweepNow, stopping>>
browser  == <<cookies, out>>
authVars == <<clock, limiter, store, request, cleanup, browser>>

AuthInit == /\ Init
            /\ sessions = {} /\ expires = [t \in Tokens |-> 0] /\ drawn = 0
            /\ pc = [r \in Requests |-> "idle"] /\ tok = [r \in Requests |-> None]
            /\ sent = [r \in Requests |-> "read"]
            /\ sweeper = "wait" /\ sweepNow = 0 /\ stopping = FALSE
            /\ cookies = {} /\ out = {}

Goto(r, l) == pc' = [pc EXCEPT ![r] = l]
\* The response is written: the goroutine is free for the next request.
Done(r)    == /\ Goto(r, "idle")
              /\ sent' = [sent EXCEPT ![r] = "read"] /\ tok' = [tok EXCEPT ![r] = None]
Expired(t) == clock > expires[t]

-----------------------------------------------------------------------------
(* CSRFMiddleware, in front of every route.  Origin and Referer name the    *)
(* page that sent the request, or are absent: from a browser never both.    *)

Headers == [origin : {"absent", "own", "foreign"}, referer : {"absent", "own", "foreign"}]
Pages   == {h \in Headers : {h.origin, h.referer} \in SUBSET {"absent", "own"}
                            \/ {h.origin, h.referer} \in SUBSET {"absent", "foreign"}}
Page(h) == IF "foreign" \in {h.origin, h.referer} THEN "foreign" ELSE "own"

\* A write passes without either header, by its Origin, or else by its Referer.
Passes(h) == \/ h.origin = "absent" /\ h.referer = "absent"
             \/ h.origin = "own"
             \/ h.origin = "absent" /\ h.referer = "own"

\* A write reaches its handler, or is answered 403 before it does anything.
Written(r, l) == \E h \in Pages : Passes(h) /\ sent' = [sent EXCEPT ![r] = Page(h)] /\ Goto(r, l)

-----------------------------------------------------------------------------
(* POST /login.                                                             *)

\* Slip: the page of the refused attempt is written, but not returned from.
LoginAsksOnly(r) ==
  /\ pc[r] = "idle" /\ Written(r, "login")
  /\ \E a \in Addrs : Allow(a)
  /\ UNCHANGED <<store, tok, cleanup, browser>>

\* limiter.Allow comes first, before the body is read.
LoginAsks(r) ==
  /\ pc[r] = "idle"
  /\ \E a \in Addrs : Allow(a)
  /\ \/ answer'.allowed /\ Written(r, "login")
     \/ ~answer'.allowed /\ UNCHANGED <<pc, sent>>
  /\ UNCHANGED <<store, tok, cleanup, browser>>

\* An unreadable form, another secret, or no random bytes.
LoginFails(r) ==
  /\ pc[r] = "login" /\ Done(r)
  /\ UNCHANGED <<clock, limiter, store, cleanup, browser>>

\* Slip: the TTL is added twice.
LoginDrawsLong(r) ==
  /\ pc[r] = "login" /\ drawn < MaxTokens
  /\ drawn' = drawn + 1
  /\ tok' = [tok EXCEPT ![r] = drawn']
  /\ expires' = [expires EXCEPT ![drawn'] = clock + 2 * TTL]
  /\ Goto(r, "insert")
  /\ UNCHANGED <<clock, limiter, sessions, sent, cleanup, browser>>

\* Create before the mutex: draw the token and read the time.
LoginDraws(r) ==
  /\ pc[r] = "login" /\ drawn < MaxTokens
  /\ drawn' = drawn + 1
  /\ tok' = [tok EXCEPT ![r] = drawn']
  /\ expires' = [expires EXCEPT ![drawn'] = clock + TTL]
  /\ Goto(r, "insert")
  /\ UNCHANGED <<clock, limiter, sessions, sent, cleanup, browser>>

LoginInserts(r) ==
  /\ pc[r] = "insert"
  /\ sessions' = sessions \cup {tok[r]}
  /\ Goto(r, "set cookie")
  /\ UNCHANGED <<clock, limiter, expires, drawn, tok, sent, cleanup, browser>>

LoginAnswers(r) ==
  /\ pc[r] = "set cookie" /\ Done(r)
  /\ cookies' = cookies \cup {tok[r]}
  /\ UNCHANGED <<clock, limiter, store, cleanup, out>>

-----------------------------------------------------------------------------
(* A protected route: SessionMiddleware, then its handler.                  *)

\* A browser sends a cookie it was given, however old (another tab, a replay);
\* without one the request is turned away at once.
Arrive(r) ==
  /\ pc[r] = "idle"
  /\ \E t \in cookies : tok' = [tok EXCEPT ![r] = t]
  /\ Written(r, "get") \/ (Goto(r, "get") /\ UNCHANGED sent)
  /\ UNCHANGED <<clock, limiter, store, cleanup, browser>>

\* SessionStore.Get: absent, or expired and then deleted: denied.
GetMisses(r) ==
  /\ pc[r] = "get" /\ (tok[r] \notin sessions \/ Expired(tok[r]))
  /\ sessions' = sessions \ {tok[r]}
  /\ Done(r)
  /\ UNCHANGED <<clock, limiter, expires, drawn, cleanup, browser>>

GetHits(r) ==
  /\ pc[r] = "get" /\ tok[r] \in sessions /\ ~Expired(tok[r])
  /\ Goto(r, "admitted")
  /\ UNCHANGED <<clock, limiter, store, tok, sent, cleanup, browser>>

\* Slip: the handler puts the session back to note the access.
ServeTouches(r) ==
  /\ pc[r] = "admitted" /\ Done(r)
  /\ sessions' = sessions \cup {tok[r]}
  /\ UNCHANGED <<clock, limiter, expires, drawn, cleanup, browser>>

\* Any handler but the logout.
Serve(r) ==
  /\ pc[r] = "admitted" /\ Done(r)
  /\ UNCHANGED <<clock, limiter, store, cleanup, browser>>

LogoutDeletes(r) ==
  /\ pc[r] = "admitted" /\ sent[r] # "read"
  /\ sessions' = sessions \ {tok[r]}
  /\ Goto(r, "clear cookie")
  /\ UNCHANGED <<clock, limiter, expires, drawn, tok, sent, cleanup, browser>>

LogoutAnswers(r) ==
  /\ pc[r] = "clear cookie" /\ Done(r)
  /\ out' = out \cup {tok[r]}
  /\ UNCHANGED <<clock, limiter, store, cleanup, cookies>>

-----------------------------------------------------------------------------
(* cleanupLoop, CleanupExpired and Stop.                                    *)

\* Slips: the time of the sweep is read once, before the loop; a session is
\* swept at its expiry time, when Get still admits it.
SweepBeginsStale ==
  /\ sweeper = "wait" /\ sweeper' = "sweep"
  /\ UNCHANGED <<clock, limiter, store, request, sweepNow, stopping, browser>>

SweepAtExpiry ==
  /\ sweeper = "sweep" /\ sweeper' = "wait"
  /\ sessions' = {t \in sessions : ~(sweepNow >= expires[t])}
  /\ UNCHANGED <<clock, limiter, expires, drawn, request, sweepNow, stopping, browser>>

SweepBegins ==
  /\ sweeper = "wait" /\ sweeper' = "sweep"
  /\ sweepNow' = clock
  /\ UNCHANGED <<clock, limiter, store, request, stopping, browser>>

Sweep ==
  /\ sweeper = "sweep" /\ sweeper' = "wait"
  /\ sessions' = {t \in sessions : ~(sweepNow > expires[t])} /\ sweepNow' = 0
  /\ UNCHANGED <<clock, limiter, expires, drawn, request, stopping, browser>>

Stop == /\ ~stopping /\ stopping' = TRUE
        /\ UNCHANGED <<clock, limiter, store, request, sweeper, sweepNow, browser>>

\* select: with the ticker ready too, either branch may be taken.
SweeperStops ==
  /\ sweeper = "wait" /\ stopping /\ sweeper' = "stopped"
  /\ UNCHANGED <<clock, limiter, store, request, sweepNow, stopping, browser>>

-----------------------------------------------------------------------------
TimePasses == Tick /\ UNCHANGED <<store, request, cleanup, browser>>

Login(r)     == LoginAsks(r) \/ LoginFails(r) \/ LoginDraws(r) \/ LoginInserts(r) \/ LoginAnswers(r)
Protected(r) == Arrive(r) \/ GetMisses(r) \/ GetHits(r) \/ Serve(r) \/ LogoutDeletes(r) \/ LogoutAnswers(r)

AuthNext == \/ \E r \in Requests : Login(r) \/ Protected(r)
            \/ SweepBegins \/ Sweep \/ Stop \/ SweeperStops
            \/ TimePasses

\* The ticker keeps firing and the goroutine keeps running.
AuthSpec == /\ AuthInit /\ [][AuthNext]_authVars
            /\ WF_authVars(SweepBegins) /\ WF_authVars(Sweep)

-----------------------------------------------------------------------------
\* Every variable stays in its domain.
AuthTypeOK ==
  /\ TypeOK
  /\ sessions \subseteq Tokens /\ cookies \subseteq Tokens /\ out \subseteq Tokens
  /\ expires \in [Tokens -> 0 .. MaxTime + TTL] /\ drawn \in 0 .. MaxTokens
  /\ pc \in [Requests -> {"idle", "login", "insert", "set cookie", "get", "admitted",
                          "clear cookie"}]
  /\ tok \in [Requests -> Tokens \cup {None}]
  /\ sent \in [Requests -> {"read", "own", "foreign"}]
  /\ sweeper \in {"wait", "sweep", "stopped"} /\ sweepNow \in 0 .. MaxTime
  /\ stopping \in BOOLEAN

\* Every session was paid for by a login attempt the limiter let through: there
\* are never more tokens, and logins about to draw one, than allowed attempts.
\* And no session begins or ends because of a page of another site, if the
\* browser sends one of the headers.
SessionsWereAllowed ==
  /\ drawn + Cardinality({r \in Requests : pc[r] = "login"})
       <= Cardinality(UNION {granted[a] : a \in Addrs})
  /\ \A r \in Requests : pc[r] \in {"login", "insert", "set cookie", "clear cookie"} => sent[r] = "own"

\* A request is let through only with a session that has not been logged out,
\* whatever is in flight: a login, a sweep, another request of that session.
LoggedOutStaysOut ==
  [][\A r \in Requests : pc[r] = "get" /\ pc'[r] = "admitted" => tok[r] \notin out]_authVars

\* A session a browser holds disappears only once it has expired or by a
\* logout, though CleanupExpired and Create use a time read before the mutex.
NoEarlyEviction ==
  [][\A t \in sessions \ sessions' :
       Expired(t) \/ \E r \in Requests : tok[r] = t /\ pc'[r] = "clear cookie"]_authVars

\* An expired session is removed in the end even if nobody presents it, as long
\* as the cleanup goroutine is not stopped.
ExpiredIsSwept == \A t \in Tokens : (t \in sessions /\ Expired(t)) ~> (t \notin sessions \/ stopping)
=============================================================================
