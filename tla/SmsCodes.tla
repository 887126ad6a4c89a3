------------------------------- MODULE SmsCodes -------------------------------
(***************************************************************************)
(* pkg/sms/sms.go: one verification code per phone, in Redis or, without   *)
(* Redis, in a map of the server.  Sending and verifying are a read and a  *)
(* write each, with nothing that keeps other requests out in between.      *)
(***************************************************************************)
EXTENDS OfficeDB

\* Fault: the cooldown is measured against the whole life of the code.
SendCodeReadAny(p, ph) ==
    /\ Free(p, "send_code") /\ tally[ph].sent < MaxTally
    /\ codes[ph] <= CodeLife
    /\ Holding(p, "sending", ph, None)
    /\ UNCHANGED <<deployment, tables, smsVars, sessionVars, boot>>

\* The cooldown is read off the time the last code has left: a minute after it
\* was sent, CodeLife - 1 minutes.
SendCodeRead(p, ph) ==
    /\ Free(p, "send_code") /\ tally[ph].sent < MaxTally
    /\ codes[ph] <= CodeLife - 1
    /\ Holding(p, "sending", ph, None)
    /\ UNCHANGED <<deployment, tables, smsVars, sessionVars, boot>>

\* Fault: a new code's time is added to what the old one has left.
SendCodeSaveLonger(p) ==
    /\ at[p] = "sending"
    /\ codes' = [codes EXCEPT ![target[p]] = @ + CodeLife]
    /\ tally' = [tally EXCEPT ![target[p]] = CodeSent(@)]
    /\ Answered(p)
    /\ UNCHANGED <<deployment, tables, sessionVars, boot>>

SendCodeSave(p) ==
    /\ at[p] = "sending"
    /\ codes' = [codes EXCEPT ![target[p]] = CodeLife]
    /\ tally' = [tally EXCEPT ![target[p]] = CodeSent(@)]
    /\ Answered(p)
    /\ UNCHANGED <<deployment, tables, sessionVars, boot>>

\* A request that names the stored code; any other one is refused.
VerifyCodeRead(p, ph) ==
    /\ Free(p, "register") /\ tally[ph].used < MaxTally
    /\ codes[ph] > 0
    /\ Holding(p, "matched", ph, None)
    /\ UNCHANGED <<deployment, tables, smsVars, sessionVars, boot>>

\* A code is accepted; what becomes of it is `removed' and `lost', 0 or 1.
Accept(p, removed, lost) ==
    /\ tally' = [tally EXCEPT ![target[p]] = CodeUsed(@, removed, lost)]
    /\ Holding(p, "finding", target[p], User(target[p], "guest", None))
    /\ UNCHANGED <<deployment, tables, sessionVars, boot>>

\* Fault: the verified code is not removed.
VerifyCodeKeep(p) == at[p] = "matched" /\ Accept(p, 0, 0) /\ UNCHANGED codes

\* Whatever code is stored by now is removed.  The error of Redis is dropped,
\* also the one that comes of the client hanging up.
VerifyCodeDelete(p) ==
    /\ at[p] = "matched"
    /\ \/ /\ codes[target[p]] > 0
          /\ codes' = [codes EXCEPT ![target[p]] = 0]
          /\ Accept(p, 1, 0)
       \/ codes[target[p]] = 0 /\ Accept(p, 0, 0) /\ UNCHANGED codes
       \/ store # "memory" /\ Accept(p, 0, 1) /\ UNCHANGED codes

Minute ==
    /\ "send_code" \in traffic
    /\ codes' = [ph \in Phone |-> IF codes[ph] = 0 THEN 0 ELSE codes[ph] - 1]
    /\ tally' = [ph \in Phone |-> MinuteOver(tally[ph])]
    /\ UNCHANGED <<deployment, tables, sessionVars, boot, requests>>
=============================================================================
