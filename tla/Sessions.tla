------------------------------- MODULE Sessions -------------------------------
(***************************************************************************)
(* The session of one browser with the API server: a refresh token in a    *)
(* cookie, replaced by a new one at every refresh and put on a blacklist   *)
(* at refresh and at logout (users/views/authentication.py,                *)
(* users/serializers/user.py), and the daily task that removes the expired *)
(* tokens from the tables (users/tasks.py).                                *)
(*                                                                         *)
(* The tabs of the browser share the cookie and send requests at the same  *)
(* time.  A request reads the blacklist and writes it in two statements.   *)
(* A token is the number of its issue; access tokens, which nothing        *)
(* revokes, are left out.                                                  *)
(***************************************************************************)
EXTENDS Naturals, FiniteSets

CONSTANTS
  Tab,
  MaxTokens,    \* bound: tokens issued
  MaxLost,      \* bound: answers lost
  MaxFlushes    \* bound: runs of flush_expired_tokens

NoToken == 0

VARIABLES
  cookie,       \* the refresh token of the browser, or NoToken
  issued,       \* tokens issued so far
  outstanding,  \* OutstandingToken: the tokens the server has a row for
  blacklist,    \* BlacklistedToken, a part of the outstanding ones
  expired,      \* tokens past their expiry date
  at, token,    \* per tab: the step of its request, the cookie it was sent with
  new,          \* per tab: the token its answer carries
  out,          \* the browser got the answer of a logout, and no other since
  loose,        \* tokens issued to the browser that it no longer holds, though
                \* no logout of it was sent with them
  spent,        \* tokens that were blacklisted
  doubled,      \* tokens that were blacklisted by a second request
  shared,       \* tokens two requests were under way with at the same time
  overlapped,   \* two requests of the browser were under way at the same time
  relogged,     \* a login was sent while the browser held a valid token
  lost, flushes

vars == <<cookie, issued, outstanding, blacklist, expired, at, token, new, out,
          loose, spent, doubled, shared, overlapped, relogged, lost, flushes>>
tables == <<outstanding, blacklist, expired, spent, doubled>>
history == <<shared, overlapped, relogged>>
browser == <<cookie, out, loose>>

Issued == 1..issued
\* RefreshToken(cookie): the signature, the date and the blacklist.
Accepted(id) == id # NoToken /\ id \notin expired /\ id \notin blacklist
InFlight == {r \in Tab : at[r] # "idle"}
\* The server has found its token valid and not yet blacklisted it.
Using(r, id) == at[r] \in {"refresh", "logout"} /\ token[r] = id

TypeOK ==
  /\ cookie \in 0..MaxTokens /\ issued \in 0..MaxTokens
  /\ blacklist \subseteq outstanding /\ outstanding \subseteq Issued
  /\ expired \subseteq Issued /\ spent \subseteq Issued /\ loose \subseteq Issued
  /\ doubled \subseteq spent /\ shared \subseteq Issued
  /\ overlapped \in BOOLEAN /\ relogged \in BOOLEAN
  /\ at \in [Tab -> {"idle", "login", "refresh", "logout", "refreshed", "loggedOut"}]
  /\ token \in [Tab -> 0..MaxTokens] /\ new \in [Tab -> 0..MaxTokens]
  /\ out \in BOOLEAN /\ lost \in 0..MaxLost /\ flushes \in 0..MaxFlushes

Init ==
  /\ cookie = NoToken /\ issued = 0
  /\ outstanding = {} /\ blacklist = {} /\ expired = {} /\ spent = {}
  /\ doubled = {} /\ shared = {} /\ overlapped = FALSE /\ relogged = FALSE
  /\ at = [r \in Tab |-> "idle"]
  /\ token = [r \in Tab |-> NoToken] /\ new = [r \in Tab |-> NoToken]
  /\ out = TRUE /\ loose = {} /\ lost = 0 /\ flushes = 0

Goto(r, step) == at' = [at EXCEPT ![r] = step]

-----------------------------------------------------------------------------
(* Requests                                                                *)

\* RefreshToken.for_user, the same after a password and at the end of an OpenID
\* Connect login.
LoginSuccess(r) ==
  /\ issued < MaxTokens
  /\ issued' = issued + 1
  /\ outstanding' = outstanding \union {issued'}
  /\ new' = [new EXCEPT ![r] = issued']

Login(r) ==
  /\ at[r] = "idle"
  /\ LoginSuccess(r)
  /\ token' = [token EXCEPT ![r] = NoToken]
  /\ Goto(r, "login")
  /\ overlapped' = (overlapped \/ InFlight # {})
  /\ relogged' = (relogged \/ Accepted(cookie))
  /\ UNCHANGED <<browser, blacklist, expired, spent, doubled, shared, lost, flushes>>

\* refresh and logout look at the token of the cookie first; one that is not
\* accepted is a TokenError: 401, or an error of the server at logout, and the
\* cookie stays.
Send(r, request) ==
  /\ at[r] = "idle" /\ Accepted(cookie)
  /\ Goto(r, request)
  /\ token' = [token EXCEPT ![r] = cookie]
  /\ overlapped' = (overlapped \/ InFlight # {})
  /\ shared' = shared \union {id \in {cookie} : \E q \in Tab : Using(q, id)}
  /\ UNCHANGED <<browser, issued, tables, new, relogged, lost, flushes>>

Blacklist(id) ==
  /\ outstanding' = outstanding \union {id}
  /\ blacklist' = blacklist \union {id}
  /\ spent' = spent \union {id}
  /\ doubled' = doubled \union ({id} \intersect spent)
  /\ UNCHANGED expired

\* CustomTokenRefreshSerializer: BLACKLIST_AFTER_ROTATION.
Spend(id) == Blacklist(id)

\* set_jti, set_exp: the new token has no row.
Refresh(r) ==
  /\ at[r] = "refresh" /\ issued < MaxTokens
  /\ Spend(token[r])
  /\ issued' = issued + 1
  /\ new' = [new EXCEPT ![r] = issued']
  /\ Goto(r, "refreshed")
  /\ UNCHANGED <<browser, history, token, lost, flushes>>

Logout(r) ==
  /\ at[r] = "logout"
  /\ Blacklist(token[r])
  /\ new' = [new EXCEPT ![r] = NoToken]
  /\ Goto(r, "loggedOut")
  /\ UNCHANGED <<browser, history, issued, token, lost, flushes>>

\* logout without a cookie.
LogoutWithout(r) ==
  /\ at[r] = "idle" /\ cookie = NoToken
  /\ Goto(r, "loggedOut")
  /\ token' = [token EXCEPT ![r] = NoToken] /\ new' = [new EXCEPT ![r] = NoToken]
  /\ overlapped' = (overlapped \/ InFlight # {})
  /\ UNCHANGED <<browser, issued, tables, shared, relogged, lost, flushes>>

Free(r) ==
  /\ Goto(r, "idle")
  /\ token' = [token EXCEPT ![r] = NoToken]
  /\ new' = [new EXCEPT ![r] = NoToken]

Answering(r) == at[r] \in {"login", "refreshed", "loggedOut"}

\* _set_token_cookies, delete_cookie: the answer replaces whatever the browser
\* holds by now.
Answer(r) ==
  /\ Answering(r)
  /\ cookie' = new[r]
  /\ out' = (at[r] = "loggedOut")
  /\ loose' = (loose \union ({cookie} \ {token[r], NoToken})) \ {new[r]}
  /\ Free(r)
  /\ UNCHANGED <<issued, tables, history, lost, flushes>>

LoseAnswer(r) ==
  /\ Answering(r) /\ lost < MaxLost
  /\ lost' = lost + 1
  /\ loose' = loose \union ({new[r]} \ {NoToken})
  /\ Free(r)
  /\ UNCHANGED <<cookie, out, issued, tables, history, flushes>>

-----------------------------------------------------------------------------
(* Time                                                                    *)

Expire(id) ==
  /\ id \in Issued \ expired
  /\ expired' = expired \union {id}
  /\ UNCHANGED <<browser, history, issued, outstanding, blacklist, spent, doubled, at, token, new, lost,
                 flushes>>

\* Faulty: the filter on the date is missing.
FlushedAny == outstanding

\* expires_at__lte; the blacklist goes with its tokens (CASCADE).
Flushed == outstanding \intersect expired

Flush ==
  /\ flushes < MaxFlushes
  /\ flushes' = flushes + 1
  /\ outstanding' = outstanding \ Flushed
  /\ blacklist' = blacklist \ Flushed
  /\ UNCHANGED <<browser, history, issued, expired, spent, doubled, at, token, new, lost>>

Next ==
  \/ \E r \in Tab :
       \/ Login(r) \/ Send(r, "refresh") \/ Send(r, "logout")
       \/ Refresh(r) \/ Logout(r) \/ LogoutWithout(r)
       \/ Answer(r) \/ LoseAnswer(r)
  \/ \E id \in Issued : Expire(id)
  \/ Flush

Spec == Init /\ [][Next]_vars

-----------------------------------------------------------------------------
\* A token that was replaced or logged out is never accepted again, whatever
\* the tabs send at the same time and though the rows of expired tokens are
\* removed.
SpentStaysSpent == \A id \in spent : ~Accepted(id)

\* Two requests get an answer for one token only if they were under way with it at
\* the same time: both had read the blacklist before either wrote it.
SpentOnce == doubled \subseteq shared

\* The logout of a browser ends all its sessions, if no two of its requests were
\* ever under way at the same time, none of its answers was lost and it did not
\* log in again with a valid token in its cookie.
LogoutEndsAll ==
  out /\ InFlight = {} /\ ~overlapped /\ lost = 0 /\ ~relogged =>
    \A id \in Issued : ~Accepted(id)

\* And if it did any of that, the tokens that are accepted after the logout are
\* among those it no longer held when it logged out: the token of a refresh that
\* was under way at the same time, of an answer it did not get, or of a session
\* another login replaced.
SessionEnds ==
  out /\ InFlight = {} => \A id \in Issued : Accepted(id) => id \in loose
=============================================================================
