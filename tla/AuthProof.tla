------------------------------ MODULE AuthProof ------------------------------
(* Theorems about Auth, for any requests, addresses, limits and times.       *)
EXTENDS Auth, RateLimiterProof

USE LimitAssumption, BoundAssumption, TTLAssumption

-----------------------------------------------------------------------------
(* The inductive invariant.                                                 *)

Labels == {"idle", "login", "insert", "set cookie", "get", "admitted", "clear cookie"}

\* The variables this module adds to the limiter's; a sweep's time is never ahead
\* of the clock.
AuthShape ==
  /\ sessions \subseteq 1 .. drawn /\ cookies \subseteq 1 .. drawn /\ out \subseteq cookies
  /\ expires \in [Tokens -> 0 .. MaxTime + TTL] /\ drawn \in 0 .. MaxTokens
  /\ pc \in [Requests -> Labels]
  /\ tok \in [Requests -> Tokens \cup {None}]
  /\ sent \in [Requests -> {"read", "own"}]
  /\ sweeper \in {"wait", "sweep", "stopped"} /\ sweepNow \in 0 .. MaxTime /\ sweepNow <= clock
  /\ stopping \in BOOLEAN

\* A request is past the first step of a login or logout only as a write of the
\* server's own page.
PageInv(r) == pc[r] \in {"login", "insert", "set cookie", "clear cookie"} => sent[r] = "own"

\* A token is its login's own until the cookie is sent, and what a browser
\* presents was sent.
TokenInv(r) ==
  /\ pc[r] \in {"get", "admitted", "clear cookie"} => tok[r] \in cookies
  /\ pc[r] \in {"insert", "set cookie"} => tok[r] \in 1 .. drawn /\ tok[r] \notin cookies
  /\ pc[r] = "clear cookie" => tok[r] \notin sessions
DistinctInv ==
  \A r, q \in Requests :
    r # q /\ pc[r] \in {"insert", "set cookie"} /\ pc[q] \in {"insert", "set cookie"}
      => tok[r] # tok[q]

\* A session that was logged out is not in the store.
OutInv == \A t \in out : t \notin sessions

\* The logins between the limiter and the draw, and the attempts that were allowed,
\* each of a call that was made.
LoggingIn == {r \in Requests : pc[r] = "login"}
Allowed   == UNION {granted[a] : a \in Addrs}
PaidInv   == /\ \A g \in Allowed : g.call <= calls
             /\ IsFiniteSet(LoggingIn)
             /\ drawn + Cardinality(LoggingIn) <= Cardinality(Allowed)

AuthInv == /\ WindowInv /\ AuthShape
           /\ \A r \in Requests : PageInv(r) /\ TokenInv(r)
           /\ DistinctInv /\ OutInv /\ PaidInv

-----------------------------------------------------------------------------
(* The steps.                                                               *)

AuthStep(r) == Login(r) \/ Protected(r)
SweeperStep == SweepBegins \/ Sweep \/ Stop \/ SweeperStops

LEMMA AuthStepCases ==
  ASSUME [AuthNext]_authVars
  PROVE  \/ \E r \in Requests : AuthStep(r)
         \/ SweeperStep
         \/ TimePasses
         \/ UNCHANGED authVars
  BY DEF AuthNext, AuthStep, SweeperStep

\* The limiter is as it is alone: only an attempt to log in calls it.
LEMMA LimiterStep ==
  ASSUME [AuthNext]_authVars
  PROVE  [Next]_vars
  <1>1. ASSUME NEW r \in Requests, Login(r) PROVE [Next]_vars
    <2>1. CASE LoginAsks(r)
      BY <2>1 DEF LoginAsks, Next
    <2>2. CASE LoginFails(r) \/ LoginDraws(r) \/ LoginInserts(r) \/ LoginAnswers(r)
      BY <2>2 DEF LoginFails, LoginDraws, LoginInserts, LoginAnswers, limiter, vars
    <2> QED
      BY <1>1, <2>1, <2>2 DEF Login
  <1>2. ASSUME NEW r \in Requests, Protected(r) PROVE [Next]_vars
    BY <1>2 DEF Protected, Arrive, GetMisses, GetHits, Serve, LogoutDeletes, LogoutAnswers, limiter,
                vars
  <1>3. CASE SweeperStep
    BY <1>3 DEF SweeperStep, SweepBegins, Sweep, Stop, SweeperStops, limiter, vars
  <1>4. CASE TimePasses
    BY <1>4 DEF TimePasses, Next
  <1>5. CASE UNCHANGED authVars
    BY <1>5 DEF authVars, limiter, vars
  <1> QED
    BY <1>1, <1>2, <1>3, <1>4, <1>5, AuthStepCases DEF AuthStep

\* A write that passes CSRFMiddleware is the server's own page's.
LEMMA PassesIsOwn ==
  ASSUME NEW h \in Pages, Passes(h)
  PROVE  Page(h) = "own"
  BY DEF Pages, Passes, Page, Headers

\* A request's step changes no other request, and not the sweeper.
LEMMA AuthFrame ==
  ASSUME AuthShape, NEW r \in Requests, AuthStep(r)
  PROVE  /\ UNCHANGED <<cleanup, clock>>
         /\ \A q \in Requests : q # r => pc'[q] = pc[q] /\ tok'[q] = tok[q] /\ sent'[q] = sent[q]
         /\ pc' = [q \in Requests |-> pc'[q]] /\ tok' = [q \in Requests |-> tok'[q]]
         /\ sent' = [q \in Requests |-> sent'[q]]
  <1> USE DEF AuthShape, Goto, Done, Written
  <1>1. CASE Login(r)
    <2>1. UNCHANGED <<cleanup, clock>>
      BY <1>1 DEF Login, LoginAsks, LoginFails, LoginDraws, LoginInserts, LoginAnswers, Allow
    <2>2. /\ \A q \in Requests : q # r => pc'[q] = pc[q] /\ tok'[q] = tok[q] /\ sent'[q] = sent[q]
          /\ pc' = [q \in Requests |-> pc'[q]] /\ tok' = [q \in Requests |-> tok'[q]]
          /\ sent' = [q \in Requests |-> sent'[q]]
      BY <1>1 DEF Login, LoginAsks, LoginFails, LoginDraws, LoginInserts, LoginAnswers
    <2> QED
      BY <2>1, <2>2
  <1>2. CASE Protected(r)
    BY <1>2 DEF Protected, Arrive, GetMisses, GetHits, Serve, LogoutDeletes, LogoutAnswers
  <1> QED
    BY <1>1, <1>2 DEF AuthStep

-----------------------------------------------------------------------------
(* What a request's step does, at that request.                             *)

Stays(r)      == tok'[r] = tok[r] /\ sent'[r] = sent[r]
Ends(r)       == pc'[r] = "idle" /\ tok'[r] = None /\ sent'[r] = "read"
Moves(r, l, m) == pc[r] = l /\ pc'[r] = m

\* LoginAsks: the attempt is let through, or it is not.
Asks(r) ==
  /\ \E a \in Addrs : Allow(a) /\ Grant(a)
  /\ Moves(r, "idle", "login") /\ sent'[r] = "own" /\ tok'[r] = tok[r]
  /\ UNCHANGED <<store, browser>>
Refused(r) ==
  /\ Moves(r, "idle", "idle") /\ Stays(r)
  /\ granted' = granted /\ calls' = calls + 1
  /\ UNCHANGED <<store, browser>>

\* LoginFails, LoginDraws, LoginInserts and LoginAnswers.
Fails(r) == pc[r] = "login" /\ Ends(r) /\ UNCHANGED <<store, browser, limiter>>
Draws(r) ==
  /\ Moves(r, "login", "insert") /\ drawn < MaxTokens /\ drawn' = drawn + 1
  /\ tok'[r] = drawn + 1 /\ sent'[r] = sent[r]
  /\ expires' = [expires EXCEPT ![drawn + 1] = clock + TTL]
  /\ UNCHANGED <<sessions, browser, limiter>>
Inserts(r) ==
  /\ Moves(r, "insert", "set cookie") /\ Stays(r)
  /\ sessions' = sessions \cup {tok[r]}
  /\ UNCHANGED <<expires, drawn, browser, limiter>>
Answers(r) ==
  /\ pc[r] = "set cookie" /\ Ends(r)
  /\ cookies' = cookies \cup {tok[r]}
  /\ UNCHANGED <<store, out, limiter>>

\* Arrive, GetMisses, GetHits and Serve.
Arrives(r) ==
  /\ Moves(r, "idle", "get") /\ tok'[r] \in cookies /\ sent'[r] \in {"own", sent[r]}
  /\ UNCHANGED <<store, browser, limiter>>
Misses(r) ==
  /\ pc[r] = "get" /\ Ends(r) /\ (tok[r] \notin sessions \/ Expired(tok[r]))
  /\ sessions' = sessions \ {tok[r]}
  /\ UNCHANGED <<expires, drawn, browser, limiter>>
Hits(r) ==
  /\ Moves(r, "get", "admitted") /\ Stays(r) /\ tok[r] \in sessions
  /\ UNCHANGED <<store, browser, limiter>>
Serves(r) == pc[r] = "admitted" /\ Ends(r) /\ UNCHANGED <<store, browser, limiter>>

\* LogoutDeletes and LogoutAnswers.
Deletes(r) ==
  /\ Moves(r, "admitted", "clear cookie") /\ Stays(r) /\ sent[r] # "read"
  /\ sessions' = sessions \ {tok[r]}
  /\ UNCHANGED <<expires, drawn, browser, limiter>>
Clears(r) ==
  /\ pc[r] = "clear cookie" /\ Ends(r)
  /\ out' = out \cup {tok[r]}
  /\ UNCHANGED <<store, cookies, limiter>>

AuthPoint(r) ==
  \/ Asks(r) \/ Refused(r) \/ Fails(r) \/ Draws(r) \/ Inserts(r) \/ Answers(r)
  \/ Arrives(r) \/ Misses(r) \/ Hits(r) \/ Serves(r) \/ Deletes(r) \/ Clears(r)

LEMMA WrittenAt ==
  ASSUME AuthShape, NEW r \in Requests, NEW l, Written(r, l)
  PROVE  pc'[r] = l /\ sent'[r] = "own"
  BY PassesIsOwn DEF Written, Goto, AuthShape

LEMMA RequestPoint ==
  ASSUME AuthShape, NEW r \in Requests, AuthStep(r)
  PROVE  AuthPoint(r)
  <1>1. DOMAIN pc = Requests /\ DOMAIN tok = Requests /\ DOMAIN sent = Requests
    BY DEF AuthShape
  <1> USE <1>1 DEF Goto, Done, Stays, Ends, Moves, store, browser
  <1>2. CASE LoginAsks(r)
    <2>1. PICK a \in Addrs : Allow(a)
      BY <1>2 DEF LoginAsks
    <2>2. CASE answer'.allowed /\ Written(r, "login")
      <3>1. Grant(a)
        BY <2>1, <2>2 DEF Allow, Deny
      <3>2. pc'[r] = "login" /\ sent'[r] = "own"
        BY <2>2, WrittenAt
      <3> QED
        BY <1>2, <2>1, <3>1, <3>2 DEF LoginAsks, AuthPoint, Asks
    <2>3. CASE ~answer'.allowed /\ UNCHANGED <<pc, sent>>
      <3>1. granted' = granted /\ calls' = calls + 1
        BY <2>1, <2>3 DEF Allow, Deny, Grant
      <3> QED
        BY <1>2, <2>3, <3>1 DEF LoginAsks, AuthPoint, Refused
    <2> QED
      BY <1>2, <2>2, <2>3 DEF LoginAsks
  <1>3. CASE LoginFails(r) \/ LoginInserts(r) \/ LoginAnswers(r)
    BY <1>3 DEF LoginFails, LoginInserts, LoginAnswers, AuthPoint, Fails, Inserts, Answers
  <1>4. CASE LoginDraws(r)
    BY <1>4 DEF LoginDraws, AuthPoint, Draws
  <1>5. CASE Arrive(r)
    <2>1. tok'[r] \in cookies
      BY <1>5 DEF Arrive
    <2>2. pc'[r] = "get" /\ sent'[r] \in {"own", sent[r]}
      BY <1>5, WrittenAt DEF Arrive
    <2> QED
      BY <1>5, <2>1, <2>2 DEF Arrive, AuthPoint, Arrives
  <1>6. CASE GetMisses(r) \/ GetHits(r) \/ Serve(r)
    BY <1>6 DEF GetMisses, GetHits, Serve, AuthPoint, Misses, Hits, Serves
  <1>7. CASE LogoutDeletes(r) \/ LogoutAnswers(r)
    BY <1>7 DEF LogoutDeletes, LogoutAnswers, AuthPoint, Deletes, Clears
  <1> QED
    BY <1>2, <1>3, <1>4, <1>5, <1>6, <1>7 DEF AuthStep, Login, Protected

-----------------------------------------------------------------------------
(* The store and the requests.                                              *)

LEMMA InitAuth == AuthInit => AuthInv
  <1> SUFFICES ASSUME AuthInit PROVE AuthInv
    OBVIOUS
  <1>1. WindowInv
    BY InitWindow DEF AuthInit
  <1>2. AuthShape
    <2>1. 0 \in 0 .. MaxTime + TTL /\ 0 \in 0 .. MaxTokens /\ 0 \in 0 .. MaxTime
      OBVIOUS
    <2>2. expires \in [Tokens -> 0 .. MaxTime + TTL]
      BY <2>1 DEF AuthInit
    <2>3. /\ pc \in [Requests -> Labels] /\ tok \in [Requests -> Tokens \cup {None}]
          /\ sent \in [Requests -> {"read", "own"}]
      BY DEF AuthInit, Labels
    <2>4. /\ sessions = {} /\ cookies = {} /\ out = {} /\ drawn = 0 /\ clock = 0
          /\ sweeper = "wait" /\ sweepNow = 0 /\ stopping = FALSE
      BY DEF AuthInit, Init
    <2>5. sweepNow <= clock
      BY <2>4
    <2> QED
      BY <2>1, <2>2, <2>3, <2>4, <2>5 DEF AuthShape
  <1>3. (\A r \in Requests : PageInv(r) /\ TokenInv(r)) /\ DistinctInv /\ OutInv
    <2>1. out = {} /\ \A r \in Requests : pc[r] = "idle"
      BY DEF AuthInit
    <2> QED
      BY <2>1 DEF PageInv, TokenInv, DistinctInv, OutInv
  <1>4. PaidInv
    <2>1. LoggingIn = {} /\ Allowed = {} /\ drawn = 0
      BY DEF AuthInit, Init, LoggingIn, Allowed
    <2>2. IsFiniteSet({}) /\ Cardinality({}) = 0
      BY FS_EmptySet
    <2> QED
      BY <2>1, <2>2 DEF PaidInv
  <1> QED
    BY <1>1, <1>2, <1>3, <1>4 DEF AuthInv

LEMMA RequestShape ==
  ASSUME WindowInv, AuthShape, NEW r \in Requests, TokenInv(r), AuthStep(r)
  PROVE  AuthShape'
  <1>1. AuthPoint(r) /\ UNCHANGED <<cleanup, clock>>
    BY RequestPoint, AuthFrame
  <1>2. /\ drawn \in 0 .. MaxTokens /\ sessions \subseteq 1 .. drawn /\ cookies \subseteq 1 .. drawn
        /\ out \subseteq cookies /\ expires \in [Tokens -> 0 .. MaxTime + TTL]
        /\ pc[r] \in Labels /\ tok[r] \in Tokens \cup {None} /\ sent[r] \in {"read", "own"}
        /\ clock \in 0 .. MaxTime
    BY DEF AuthShape, WindowInv, TypeOK
  <1>3. \/ drawn' = drawn
        \/ drawn' = drawn + 1 /\ drawn < MaxTokens
    BY <1>1
    DEF AuthPoint, Asks, Refused, Fails, Draws, Inserts, Answers, Arrives, Misses, Hits, Serves,
        Deletes, Clears, store
  <1>4. drawn' \in 0 .. MaxTokens /\ 1 .. drawn \subseteq 1 .. drawn' /\ 1 .. drawn' \subseteq Tokens
    BY <1>2, <1>3 DEF Tokens
  <1>5. /\ pc[r] \in {"insert", "set cookie"} => tok[r] \in 1 .. drawn
        /\ pc[r] = "clear cookie" => tok[r] \in cookies
    BY DEF TokenInv
  <1>6. /\ sessions' \subseteq sessions \/ (sessions' = sessions \cup {tok[r]} /\ pc[r] = "insert")
        /\ cookies' = cookies \/ (cookies' = cookies \cup {tok[r]} /\ pc[r] = "set cookie")
        /\ out' = out \/ (out' = out \cup {tok[r]} /\ pc[r] = "clear cookie")
    BY <1>1
    DEF AuthPoint, Asks, Refused, Fails, Draws, Inserts, Answers, Arrives, Misses, Hits, Serves,
        Deletes, Clears, store, browser, Moves
  <1>7. sessions' \subseteq 1 .. drawn' /\ cookies' \subseteq 1 .. drawn' /\ out' \subseteq cookies'
    <2>1. sessions' \subseteq 1 .. drawn /\ cookies' \subseteq 1 .. drawn
      BY <1>2, <1>5, <1>6
    <2>2. cookies \subseteq cookies'
      BY <1>6
    <2>3. out' \subseteq cookies
      <3>1. out \subseteq cookies
        BY <1>2
      <3>2. out' = out \/ (out' = out \cup {tok[r]} /\ tok[r] \in cookies)
        BY <1>5, <1>6
      <3> QED
        BY <3>1, <3>2
    <2> QED
      BY <1>4, <2>1, <2>2, <2>3
  <1>8. expires' \in [Tokens -> 0 .. MaxTime + TTL]
    <2>1. expires' = expires \/ expires' = [expires EXCEPT ![drawn + 1] = clock + TTL]
      BY <1>1
      DEF AuthPoint, Asks, Refused, Fails, Draws, Inserts, Answers, Arrives, Misses, Hits, Serves,
          Deletes, Clears, store
    <2>2. clock + TTL \in 0 .. MaxTime + TTL
      BY <1>2
    <2> QED
      BY <1>2, <2>1, <2>2
  <1>9. pc'[r] \in Labels /\ tok'[r] \in Tokens \cup {None} /\ sent'[r] \in {"read", "own"}
    <2>1. pc'[r] \in Labels /\ sent'[r] \in {"read", "own"}
      BY <1>1, <1>2
      DEF AuthPoint, Asks, Refused, Fails, Draws, Inserts, Answers, Arrives, Misses, Hits, Serves,
          Deletes, Clears, Moves, Stays, Ends, Labels
    <2>2. tok'[r] = tok[r] \/ tok'[r] = None \/ tok'[r] \in cookies \/ (tok'[r] = drawn + 1 /\ drawn < MaxTokens)
      BY <1>1
      DEF AuthPoint, Asks, Refused, Fails, Draws, Inserts, Answers, Arrives, Misses, Hits, Serves,
          Deletes, Clears, Stays, Ends
    <2>3. cookies \subseteq Tokens
      BY <1>2 DEF Tokens
    <2>4. drawn < MaxTokens => drawn + 1 \in Tokens
      BY <1>2 DEF Tokens
    <2> QED
      BY <1>2, <2>1, <2>2, <2>3, <2>4
  <1>10. \A q \in Requests :
           pc'[q] \in Labels /\ tok'[q] \in Tokens \cup {None} /\ sent'[q] \in {"read", "own"}
    BY <1>9, AuthFrame DEF AuthShape
  <1>11. /\ pc' \in [Requests -> Labels] /\ tok' \in [Requests -> Tokens \cup {None}]
         /\ sent' \in [Requests -> {"read", "own"}]
    BY <1>10, AuthFrame
  <1> QED
    BY <1>1, <1>4, <1>7, <1>8, <1>11 DEF AuthShape, cleanup

LEMMA SweeperFrame ==
  ASSUME AuthShape, SweeperStep
  PROVE  /\ UNCHANGED <<request, browser, limiter, clock, expires, drawn>>
         /\ sessions' \subseteq sessions
         /\ \A t \in sessions : t \notin sessions' => sweepNow > expires[t]
         /\ sweeper' \in {"wait", "sweep", "stopped"} /\ sweepNow' \in {sweepNow, clock, 0}
         /\ stopping' \in BOOLEAN
  BY DEF SweeperStep, SweepBegins, Sweep, Stop, SweeperStops, AuthShape, store

LEMMA SweeperShape ==
  ASSUME WindowInv, AuthShape, SweeperStep
  PROVE  AuthShape'
  <1>1. clock \in 0 .. MaxTime
    BY DEF WindowInv, TypeOK
  <1>2. sweepNow' \in 0 .. MaxTime /\ sweepNow' <= clock
    <2>1. sweepNow \in 0 .. MaxTime /\ sweepNow <= clock
      BY DEF AuthShape
    <2>2. sweepNow' = sweepNow \/ sweepNow' = clock \/ sweepNow' = 0
      BY SweeperFrame
    <2> QED
      BY <1>1, <2>1, <2>2
  <1> QED
    BY <1>2, SweeperFrame DEF AuthShape, request, browser

LEMMA TimeShape ==
  ASSUME WindowInv, AuthShape, TimePasses
  PROVE  AuthShape'
  <1>1. clock' = clock + 1 /\ clock \in Nat /\ UNCHANGED <<store, request, cleanup, browser>>
    BY DEF TimePasses, Tick, WindowInv, TypeOK
  <1>2. sweepNow \in 0 .. MaxTime /\ sweepNow <= clock
    BY DEF AuthShape
  <1>3. sweepNow <= clock'
    BY <1>1, <1>2
  <1> QED
    BY <1>1, <1>3 DEF AuthShape, store, request, cleanup, browser

LEMMA RequestPage ==
  ASSUME AuthShape, NEW r \in Requests, PageInv(r), AuthStep(r)
  PROVE  PageInv(r)'
  <1>1. AuthPoint(r) /\ sent[r] \in {"read", "own"}
    BY RequestPoint DEF AuthShape
  <1> QED
    BY <1>1
    DEF PageInv, AuthPoint, Asks, Refused, Fails, Draws, Inserts, Answers, Arrives, Misses, Hits,
        Serves, Deletes, Clears, Moves, Stays, Ends

\* How the tokens in the store, in the browsers and logged out change.
LEMMA TokensMove ==
  ASSUME AuthShape, NEW r \in Requests, AuthStep(r)
  PROVE  /\ cookies \subseteq cookies' /\ drawn' \in {drawn, drawn + 1}
         /\ cookies' # cookies => cookies' = cookies \cup {tok[r]} /\ pc[r] = "set cookie"
                                    /\ pc'[r] = "idle"
         /\ sessions' \subseteq sessions \/ (sessions' = sessions \cup {tok[r]} /\ pc[r] = "insert")
         /\ out' = out \/ (out' = out \cup {tok[r]} /\ pc[r] = "clear cookie" /\ sessions' = sessions)
  <1>1. AuthPoint(r)
    BY RequestPoint
  <1> QED
    BY <1>1
    DEF AuthPoint, Asks, Refused, Fails, Draws, Inserts, Answers, Arrives, Misses, Hits, Serves,
        Deletes, Clears, store, browser, Moves, Ends

LEMMA RequestToken ==
  ASSUME AuthShape, NEW r \in Requests, TokenInv(r), AuthStep(r)
  PROVE  TokenInv(r)'
  <1>1. AuthPoint(r) /\ drawn \in Nat /\ cookies \subseteq 1 .. drawn
    BY RequestPoint DEF AuthShape
  <1>2. CASE Draws(r)
    <2>1. pc'[r] = "insert" /\ tok'[r] = drawn + 1 /\ drawn' = drawn + 1 /\ cookies' = cookies
      BY <1>2 DEF Draws, Moves, browser
    <2>2. drawn + 1 \in 1 .. drawn' /\ drawn + 1 \notin cookies
      BY <1>1, <2>1
    <2> QED
      BY <2>1, <2>2 DEF TokenInv
  <1>3. CASE ~Draws(r)
    BY <1>1, <1>3
    DEF TokenInv, AuthPoint, Asks, Refused, Fails, Inserts, Answers, Arrives, Misses, Hits, Serves,
        Deletes, Clears, store, browser, Moves, Stays, Ends
  <1> QED
    BY <1>2, <1>3

\* The token another request holds is not touched.
LEMMA OtherToken ==
  ASSUME AuthShape, NEW r \in Requests, NEW q \in Requests, q # r, TokenInv(r), TokenInv(q),
         DistinctInv, AuthStep(r)
  PROVE  TokenInv(q)' /\ (PageInv(q) => PageInv(q)')
  <1>1. pc'[q] = pc[q] /\ tok'[q] = tok[q] /\ sent'[q] = sent[q] /\ drawn \in Nat
    BY AuthFrame DEF AuthShape
  <1>2. 1 .. drawn \subseteq 1 .. drawn'
    <2>1. drawn' = drawn \/ drawn' = drawn + 1
      BY TokensMove
    <2> QED
      BY <1>1, <2>1
  <1>3. pc[q] \in {"insert", "set cookie"} => tok[q] \notin cookies'
    BY TokensMove DEF TokenInv, DistinctInv
  <1>4. pc[q] = "clear cookie" => tok[q] \notin sessions'
    BY TokensMove DEF TokenInv
  <1> QED
    BY <1>1, <1>2, <1>3, <1>4, TokensMove DEF TokenInv, PageInv

LEMMA RequestDistinct ==
  ASSUME AuthShape, \A q \in Requests : TokenInv(q), NEW r \in Requests, DistinctInv, AuthStep(r)
  PROVE  DistinctInv'
  <1>1. AuthPoint(r) /\ drawn \in Nat
    BY RequestPoint DEF AuthShape
  <1>2. ASSUME NEW q \in Requests, q # r, pc'[r] \in {"insert", "set cookie"},
               pc[q] \in {"insert", "set cookie"}
        PROVE  tok'[r] # tok[q]
    <2>1. CASE Draws(r)
      <3>1. tok[q] \in 1 .. drawn
        BY <1>2 DEF TokenInv
      <3>2. tok'[r] = drawn + 1
        BY <2>1 DEF Draws
      <3> QED
        BY <1>1, <3>1, <3>2
    <2>2. CASE ~Draws(r)
      <3>1. pc[r] \in {"insert", "set cookie"} /\ tok'[r] = tok[r]
        BY <1>1, <1>2, <2>2
        DEF AuthPoint, Asks, Refused, Fails, Inserts, Answers, Arrives, Misses, Hits, Serves,
            Deletes, Clears, Moves, Stays, Ends
      <3> QED
        BY <1>2, <3>1 DEF DistinctInv
    <2> QED
      BY <2>1, <2>2
  <1>3. \A q \in Requests : q # r => pc'[q] = pc[q] /\ tok'[q] = tok[q]
    BY AuthFrame
  <1>4. ASSUME NEW p \in Requests, NEW q \in Requests, p # q,
               pc'[p] \in {"insert", "set cookie"}, pc'[q] \in {"insert", "set cookie"}
        PROVE  tok'[p] # tok'[q]
    <2>1. CASE p = r
      BY <1>2, <1>3, <1>4, <2>1
    <2>2. CASE q = r
      BY <1>2, <1>3, <1>4, <2>2
    <2>3. CASE p # r /\ q # r
      BY <1>3, <1>4, <2>3 DEF DistinctInv
    <2> QED
      BY <2>1, <2>2, <2>3
  <1> QED
    BY <1>4 DEF DistinctInv

LEMMA RequestOut ==
  ASSUME AuthShape, NEW r \in Requests, TokenInv(r), OutInv, AuthStep(r)
  PROVE  OutInv'
  <1>1. out \subseteq cookies
    BY DEF AuthShape
  <1> QED
    BY <1>1, TokensMove DEF OutInv, TokenInv

-----------------------------------------------------------------------------
(* Logins and allowed attempts.                                             *)

LEMMA AllowedFinite ==
  ASSUME WindowInv
  PROVE  IsFiniteSet(Allowed) /\ Cardinality(Allowed) \in Nat
  <1>1. Allowed \subseteq Entry
    BY DEF Allowed, WindowInv, TypeOK
  <1> QED
    BY <1>1, EntriesFinite

\* An allowed attempt is a call nobody has made before.
LEMMA AllowedGrows ==
  ASSUME WindowInv, PaidInv, NEW a \in Addrs, Allow(a), Grant(a)
  PROVE  /\ calls' = calls + 1 /\ calls \in Nat
         /\ \E e \in Entry : /\ e.call = calls + 1 /\ e \notin Allowed
                             /\ Allowed' = Allowed \cup {e}
  <1> DEFINE e == [call |-> calls + 1, at |-> clock]
  <1>1. /\ calls \in 0 .. MaxCalls /\ calls < MaxCalls /\ calls' = calls + 1 /\ clock \in 0 .. MaxTime
        /\ granted \in [Addrs -> SUBSET Entry]
    BY DEF WindowInv, TypeOK, Allow
  <1>2. e \in Entry /\ e.call = calls + 1
    BY <1>1 DEF Entry
  <1>3. e \notin Allowed
    <2>1. \A g \in Allowed : g.call <= calls
      BY DEF PaidInv
    <2> QED
      BY <1>1, <1>2, <2>1
  <1>4. granted' = [granted EXCEPT ![a] = @ \cup {e}]
    BY DEF Grant
  <1> HIDE DEF e
  <1>5. Allowed' = Allowed \cup {e}
    BY <1>1, <1>4 DEF Allowed
  <1> QED
    BY <1>1, <1>2, <1>3, <1>5

LEMMA RequestPaid ==
  ASSUME WindowInv, AuthShape, PaidInv, NEW r \in Requests, AuthStep(r)
  PROVE  PaidInv'
  <1>1. /\ AuthPoint(r) /\ drawn \in Nat
        /\ \A q \in Requests : q # r => pc'[q] = pc[q]
    BY RequestPoint, AuthFrame DEF AuthShape
  <1>2. /\ IsFiniteSet(LoggingIn) /\ drawn + Cardinality(LoggingIn) <= Cardinality(Allowed)
        /\ Cardinality(LoggingIn) \in Nat /\ IsFiniteSet(Allowed) /\ Cardinality(Allowed) \in Nat
        /\ \A g \in Allowed : g.call <= calls
    BY AllowedFinite, FS_CardinalityType DEF PaidInv
  <1>3. calls \in Nat /\ \A g \in Allowed : g.call \in Nat
    BY DEF Allowed, WindowInv, TypeOK, Entry
  <1>4. CASE Asks(r)
    <2>1. PICK a \in Addrs : Allow(a) /\ Grant(a)
      BY <1>4 DEF Asks
    <2>2. PICK e \in Entry : /\ e.call = calls + 1 /\ e \notin Allowed
                             /\ Allowed' = Allowed \cup {e} /\ calls' = calls + 1
      BY <2>1, AllowedGrows
    <2>3. Cardinality(Allowed') = Cardinality(Allowed) + 1
      BY <1>2, <2>2, FS_AddElement
    <2>4. r \notin LoggingIn /\ LoggingIn' = LoggingIn \cup {r}
      BY <1>1, <1>4 DEF Asks, Moves, LoggingIn
    <2>5. IsFiniteSet(LoggingIn') /\ Cardinality(LoggingIn') = Cardinality(LoggingIn) + 1
      BY <1>2, <2>4, FS_AddElement
    <2>6. drawn' = drawn
      BY <1>4 DEF Asks, store
    <2>7. \A g \in Allowed' : g.call <= calls'
      <3>1. \A g \in Allowed : g.call <= calls + 1
        BY <1>2, <1>3
      <3> QED
        BY <1>3, <2>2, <3>1
    <2>8. drawn' + Cardinality(LoggingIn') <= Cardinality(Allowed')
      BY <1>1, <1>2, <2>3, <2>5, <2>6
    <2> QED
      BY <2>5, <2>7, <2>8 DEF PaidInv
  <1>5. CASE Fails(r) \/ Draws(r)
    <2>1. r \in LoggingIn /\ LoggingIn' = LoggingIn \ {r}
      BY <1>1, <1>5 DEF Fails, Draws, Moves, Ends, LoggingIn
    <2>2. IsFiniteSet(LoggingIn') /\ Cardinality(LoggingIn') = Cardinality(LoggingIn) - 1
      BY <1>2, <2>1, FS_RemoveElement
    <2>3. (drawn' = drawn \/ drawn' = drawn + 1) /\ UNCHANGED <<granted, calls>>
      BY <1>5 DEF Fails, Draws, store, limiter
    <2>4. Allowed' = Allowed
      BY <2>3 DEF Allowed
    <2>5. drawn' + Cardinality(LoggingIn') <= Cardinality(Allowed')
      BY <1>1, <1>2, <2>2, <2>3, <2>4
    <2> QED
      BY <1>2, <2>2, <2>3, <2>4, <2>5 DEF PaidInv
  <1>6. CASE ~Asks(r) /\ ~Fails(r) /\ ~Draws(r)
    <2>1. /\ pc[r] # "login" /\ pc'[r] # "login" /\ drawn' = drawn /\ granted' = granted
          /\ calls' = calls \/ calls' = calls + 1
      BY <1>1, <1>6
      DEF AuthPoint, Refused, Inserts, Answers, Arrives, Misses, Hits, Serves, Deletes, Clears,
          Moves, Ends, store, limiter
    <2>2. LoggingIn' = LoggingIn /\ Allowed' = Allowed
      BY <1>1, <2>1 DEF LoggingIn, Allowed
    <2>3. \A g \in Allowed : g.call <= calls'
      BY <1>2, <1>3, <2>1
    <2> QED
      BY <1>2, <2>1, <2>2, <2>3 DEF PaidInv
  <1> QED
    BY <1>1, <1>4, <1>5, <1>6

-----------------------------------------------------------------------------
(* The theorems.                                                            *)

LEMMA NextAuth == AuthInv /\ [AuthNext]_authVars => AuthInv'
  <1> SUFFICES ASSUME AuthInv, [AuthNext]_authVars PROVE AuthInv'
    OBVIOUS
  <1> USE DEF AuthInv
  <1>1. WindowInv'
    BY LimiterStep, NextWindow
  <1>2. ASSUME NEW r \in Requests, AuthStep(r) PROVE AuthInv'
    <2>1. AuthShape' /\ DistinctInv' /\ OutInv' /\ PaidInv'
      BY <1>2, RequestShape, RequestDistinct, RequestOut, RequestPaid
    <2>2. \A q \in Requests : PageInv(q)' /\ TokenInv(q)'
      BY <1>2, RequestPage, RequestToken, OtherToken
    <2> QED
      BY <1>1, <2>1, <2>2
  <1>3. ASSUME SweeperStep PROVE AuthInv'
    <2>1. AuthShape'
      BY <1>3, SweeperShape
    <2>2. UNCHANGED <<pc, tok, sent, cookies, out, granted, calls, drawn>> /\ sessions' \subseteq sessions
      BY <1>3, SweeperFrame DEF request, browser, limiter
    <2>3. (\A q \in Requests : PageInv(q)' /\ TokenInv(q)') /\ DistinctInv' /\ OutInv'
      BY <2>2 DEF PageInv, TokenInv, DistinctInv, OutInv
    <2>4. PaidInv'
      BY <2>2 DEF PaidInv, LoggingIn, Allowed
    <2> QED
      BY <1>1, <2>1, <2>3, <2>4
  <1>4. ASSUME TimePasses \/ UNCHANGED authVars PROVE AuthInv'
    <2>1. UNCHANGED <<store, request, cleanup, browser, granted, calls>>
      BY <1>4 DEF TimePasses, Tick, authVars, limiter
    <2>2. AuthShape'
      BY <1>4, TimeShape DEF AuthShape, authVars, store, request, cleanup, browser
    <2>3. (\A q \in Requests : PageInv(q)' /\ TokenInv(q)') /\ DistinctInv' /\ OutInv'
      BY <2>1 DEF PageInv, TokenInv, DistinctInv, OutInv, store, request, browser
    <2>4. PaidInv'
      BY <2>1 DEF PaidInv, LoggingIn, Allowed, store, request
    <2> QED
      BY <1>1, <2>2, <2>3, <2>4
  <1> QED
    BY <1>2, <1>3, <1>4, AuthStepCases

LEMMA AuthInvariant == AuthSpec => []AuthInv
  BY InitAuth, NextAuth, PTL DEF AuthSpec

\* Every variable stays in its domain, for every number of requests and addresses.
THEOREM AuthTypeCorrect == AuthSpec => []AuthTypeOK
  <1>1. AuthInv => AuthTypeOK
    <2> SUFFICES ASSUME AuthInv PROVE AuthTypeOK
      OBVIOUS
    <2>1. 1 .. drawn \subseteq Tokens
      BY DEF AuthInv, AuthShape, Tokens
    <2> QED
      BY <2>1 DEF AuthInv, AuthShape, AuthTypeOK, WindowInv, Labels
  <1> QED
    BY <1>1, AuthInvariant, PTL

\* In front of the login form the limiter behaves as it does alone, so that what
\* is proved of it there holds of the server.
THEOREM LimiterInFront == AuthSpec => Spec
  <1>1. AuthInit => Init
    BY DEF AuthInit
  <1> QED
    BY <1>1, LimiterStep, PTL DEF AuthSpec, Spec

\* However many requests are served at once, there are never more sessions than
\* login attempts the limiter let through, and only a page of the server itself
\* begins or ends one.
THEOREM SessionsWereAllowedAlways == AuthSpec => []SessionsWereAllowed
  <1>1. AuthInv => SessionsWereAllowed
    BY DEF AuthInv, PaidInv, PageInv, SessionsWereAllowed, LoggingIn, Allowed
  <1> QED
    BY <1>1, AuthInvariant, PTL

\* No request is let through with a session whose logout was answered, whatever
\* else is in flight.
THEOREM LoggedOutStaysOutAlways == AuthSpec => LoggedOutStaysOut
  <1>1. ASSUME AuthInv, [AuthNext]_authVars
        PROVE  [\A r \in Requests : pc[r] = "get" /\ pc'[r] = "admitted" => tok[r] \notin out]_authVars
    <2>1. ASSUME NEW r \in Requests, pc[r] = "get", pc'[r] = "admitted" PROVE tok[r] \notin out
      <3>1. tok[r] \in sessions
        <4>1. CASE AuthStep(r)
          BY <1>1, <2>1, <4>1, RequestPoint
          DEF AuthInv, AuthPoint, Asks, Refused, Fails, Draws, Inserts, Answers, Arrives, Misses,
              Hits, Serves, Deletes, Clears, Moves, Ends
        <4>2. CASE ~AuthStep(r)
          <5>1. pc'[r] = pc[r]
            BY <1>1, <4>2, AuthStepCases, AuthFrame, SweeperFrame
            DEF AuthInv, TimePasses, authVars, request
          <5> QED
            BY <2>1, <5>1
        <4> QED
          BY <4>1, <4>2
      <3> QED
        BY <1>1, <3>1 DEF AuthInv, OutInv
    <2> QED
      BY <2>1
  <1> QED
    BY <1>1, AuthInvariant, PTL DEF AuthSpec, LoggedOutStaysOut

\* A session leaves the store only once it has expired or by a logout, though the
\* sweep uses a time read before it took the mutex.
THEOREM NoEarlyEvictionAlways == AuthSpec => NoEarlyEviction
  <1>1. ASSUME AuthInv, [AuthNext]_authVars
        PROVE  [\A t \in sessions \ sessions' :
                  Expired(t) \/ \E r \in Requests : tok[r] = t /\ pc'[r] = "clear cookie"]_authVars
    <2>1. ASSUME NEW t \in sessions, t \notin sessions'
          PROVE  Expired(t) \/ \E r \in Requests : tok[r] = t /\ pc'[r] = "clear cookie"
      <3>1. CASE \E r \in Requests : AuthStep(r)
        <4>1. PICK r \in Requests : AuthPoint(r)
          BY <1>1, <3>1, RequestPoint DEF AuthInv
        <4>2. \/ sessions \subseteq sessions'
              \/ /\ sessions' = sessions \ {tok[r]}
                 /\ tok[r] \notin sessions \/ Expired(tok[r]) \/ pc'[r] = "clear cookie"
          BY <4>1
          DEF AuthPoint, Asks, Refused, Fails, Draws, Inserts, Answers, Arrives, Misses, Hits,
              Serves, Deletes, Clears, Moves, store
        <4>3. t = tok[r]
          BY <2>1, <4>2
        <4>4. Expired(tok[r]) \/ pc'[r] = "clear cookie"
          BY <2>1, <4>2
        <4> QED
          BY <4>1, <4>3, <4>4 DEF Expired
      <3>2. CASE SweeperStep
        <4>1. sweepNow > expires[t]
          BY <1>1, <2>1, <3>2, SweeperFrame DEF AuthInv
        <4>2. sweepNow <= clock /\ sweepNow \in Nat /\ clock \in Nat /\ expires[t] \in Nat
          <5>1. t \in Tokens
            BY <1>1, <2>1 DEF AuthInv, AuthShape, Tokens
          <5> QED
            BY <1>1, <5>1 DEF AuthInv, AuthShape, WindowInv, TypeOK
        <4>3. Expired(t)
          BY <4>1, <4>2 DEF Expired
        <4> QED
          BY <4>3
      <3>3. CASE TimePasses \/ UNCHANGED authVars
        BY <2>1, <3>3 DEF TimePasses, authVars, store
      <3> QED
        BY <1>1, <3>1, <3>2, <3>3, AuthStepCases
    <2> QED
      BY <2>1
  <1> QED
    BY <1>1, AuthInvariant, PTL DEF AuthSpec, NoEarlyEviction
=============================================================================
