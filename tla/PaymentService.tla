---------------------------- MODULE PaymentService ----------------------------
(***************************************************************************)
(* internal/service/payment_service.go: Create, which locks the order,     *)
(* checks it and calls the provider inside one transaction.  The providers *)
(* the repository ships either succeed at once (mock) or return an error   *)
(* (wechat, alipay), which rolls everything back; so a committed payment is*)
(* always a successful one.                                                *)
(***************************************************************************)
EXTENDS HotelDB

\* Fault: the order is read with no lock.
CreatePaymentReadUnlocked(p, o) ==
    /\ "pay" \in Handlers /\ at[p] = "idle"
    /\ o \in DOMAIN orders
    /\ orders[o].status = "pending"
    /\ payments[o] = <<>>
    /\ SelectInTx(p)
    /\ Holding(p, "paying", o, orders[o])
    /\ UNCHANGED <<engine, tables, aged, batch>>

\* Fault: any order that was not paid can be paid.
CreatePaymentReadAny(p, o) ==
    /\ "pay" \in Handlers /\ at[p] = "idle"
    /\ o \in DOMAIN orders
    /\ payments[o] = <<>>
    /\ SelectForUpdate(p, o)
    /\ Holding(p, "paying", o, orders[o])
    /\ UNCHANGED <<engine, tables, aged, batch>>

\* The locking read of the order and the check for an earlier payment.
CreatePaymentRead(p, o) ==
    /\ "pay" \in Handlers /\ at[p] = "idle"
    /\ o \in DOMAIN orders
    /\ orders[o].status = "pending"
    /\ payments[o] = <<>>
    /\ SelectForUpdate(p, o)
    /\ Holding(p, "paying", o, orders[o])
    /\ UNCHANGED <<engine, tables, aged, batch>>

\* The provider said success: payment and order are saved in one commit.
CreatePaymentSave(p) ==
    /\ at[p] = "paying"
    /\ StillCurrent(p)
    /\ CanWrite(p, {target[p]})
    /\ payments' = [payments EXCEPT ![target[p]] = Append(@, copy[p].totalPrice)]
    /\ Save(target[p], [copy[p] EXCEPT !.status = "paid"])
    /\ Commit(p)
    /\ UNCHANGED <<engine, rooms, aged, batch>>
=============================================================================
