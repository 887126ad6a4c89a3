------------------------------- MODULE Sessions -------------------------------
(***************************************************************************)
(* Logging in and out: AuthService.Login, the middleware JWTAuth and the   *)
(* logout handler of the router.  A token carries the account as it was at *)
(* login; the middleware trusts it without asking the database again.      *)
(***************************************************************************)
EXTENDS OfficeDB

\* Whether Redis answers the middleware's question for the blacklist entry.
Answers ==
    CASE store = "memory" -> {FALSE} [] store = "redis" -> {TRUE} [] OTHER -> BOOLEAN

\* Without an answer the token counts as not listed.
Accepted(t, answers) == tokens[t].left > 0 /\ (answers => black[t] = 0)

JWTAuth(t) == \E answers \in Answers : Accepted(t, answers)

AdminRequest(p, kind, t) ==
    /\ Free(p, kind)
    /\ JWTAuth(t)
    /\ tokens[t].role \in {"super_admin", "hotel_admin"}

\* Fault: a disabled account is not turned away.
LoginReadAny(p, u) ==
    /\ Free(p, "login")
    /\ u \in Live(users) \cap Targets
    /\ Holding(p, "logging_in", u, users[u])
    /\ UNCHANGED <<deployment, tables, smsVars, sessionVars, boot>>

LoginRead(p, u) ==
    /\ Free(p, "login")
    /\ u \in Live(users) \cap Targets /\ users[u].active
    /\ Holding(p, "logging_in", u, users[u])
    /\ UNCHANGED <<deployment, tables, smsVars, sessionVars, boot>>

\* A token nobody holds any more stands for a new one.
LoginIssue(p, t) ==
    /\ at[p] = "logging_in"
    /\ tokens[t].left = 0 /\ black[t] = 0
    /\ tokens' = [tokens EXCEPT ![t] = [user |-> target[p], role |-> copy[p].role,
                                        hotel |-> copy[p].hotel, left |-> TokenLife]]
    /\ Answered(p)
    /\ UNCHANGED <<deployment, tables, smsVars, black, lead, boot>>

\* Fault: the entry is kept for a shorter time than a token lives.
LogoutShort(t) ==
    /\ "logout" \in traffic /\ boot.step = "up" /\ JWTAuth(t)
    /\ store # "memory"
    /\ \/ black' = [black EXCEPT ![t] = 1]
       \/ store = "flaky" /\ UNCHANGED black
    /\ UNCHANGED <<deployment, tables, smsVars, tokens, lead, boot, requests>>

\* Without Redis logging out does nothing; its error is dropped.
Logout(t) ==
    /\ "logout" \in traffic /\ boot.step = "up" /\ JWTAuth(t)
    /\ store # "memory"
    /\ \/ black' = [black EXCEPT ![t] = TokenLife]
       \/ store = "flaky" /\ UNCHANGED black
    /\ UNCHANGED <<deployment, tables, smsVars, tokens, lead, boot, requests>>

TokensAge ==
    tokens' = [t \in Token |-> IF tokens[t].left <= 1 THEN NoToken
                              ELSE [tokens[t] EXCEPT !.left = @ - 1]]

EntriesAge == black' = [t \in Token |-> IF black[t] = 0 THEN 0 ELSE black[t] - 1]

Hour ==
    /\ "login" \in traffic
    /\ TokensAge /\ EntriesAge
    /\ UNCHANGED <<deployment, tables, smsVars, lead, boot, requests>>

\* A token expires by the server's clock, its entry by that of Redis; either can
\* be set.
RedisGains ==
    /\ "login" \in traffic /\ lead < MaxDrift
    /\ lead' = lead + 1
    /\ EntriesAge
    /\ UNCHANGED <<deployment, tables, smsVars, tokens, boot, requests>>

RedisLoses ==
    /\ "login" \in traffic /\ lead > 0
    /\ lead' = lead - 1
    /\ TokensAge
    /\ UNCHANGED <<deployment, tables, smsVars, black, boot, requests>>
=============================================================================
