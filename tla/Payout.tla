------------------------------- MODULE Payout -------------------------------
(***************************************************************************)
(* Payouts of one approved expense claim through Paystack: the intents     *)
(* opened for it, the transfers they ask for, and everyone who writes what *)
(* became of them: the paying request, webhooks, the fast poller, the slow *)
(* reconciler, the reset page and a payment by hand.                       *)
(*                                                                         *)
(* Every session loads, waits for somebody else, and writes: what it read  *)
(* may be stale by then, and mishaps records the steps for which that (or  *)
(* the code as it is) lets the money and the claim part.                   *)
(*                                                                         *)
(* Time is an event (the 24 hours of an intent lapse); amounts, fees, the  *)
(* approver's budget, batches and the ledger are left out.                 *)
(***************************************************************************)
EXTENDS Naturals, FiniteSets

CONSTANTS
  Sessions,     \* database sessions at work at a time
  MaxIntents,   \* bound on the intents opened for the claim
  MaxPolls,     \* TRANSFER_POLL_MAX_ATTEMPTS
  Verdicts,     \* what Paystack may say of a transfer in the end
  Attended,     \* whether operators reset intents and pay by hand
  GoesOn        \* bound: whether runs go on after the first mishap

ASSUME PayoutConstants ==
  /\ MaxIntents \in Nat \ {0}
  /\ MaxPolls \in Nat \ {0}
  /\ Verdicts \subseteq {"success", "failed", "reversed"}
  /\ Attended \in BOOLEAN
  /\ GoesOn \in BOOLEAN

VARIABLES
  claim,      \* the claim and its MARK_PAID action row
  intent,     \* payment_intent, in order of creation; misread is a history
  transfer,   \* what Paystack has under an intent's reference
  heard,      \* webhook events on record
  session,    \* what each session has read, and locked
  mishaps     \* history: the steps taken after which claim and money may part

vars == <<claim, intent, transfer, heard, session, mishaps>>

Ids == 1..MaxIntents

Statuses == {"NONE", "PENDING", "PROCESSING", "COMPLETED", "FAILED", "REVERSED",
             "ABANDONED", "EXPIRED", "INDETERMINATE"}

\* A transfer that is adrift was asked for; the request may still be on its way.
TransferStates == {"none", "adrift", "pending", "success", "failed", "reversed"}

IdleSession ==
  [pc |-> "idle", i |-> 0, seen |-> "NONE", paid |-> FALSE, known |-> 0, says |-> "none"]

\* Two intents for one claim; an intent given up while its money is out or its
\* outcome asked for, by its 24 hours or by force; an error that says nothing of
\* a transfer taken for its failure; the claim reopened by the news of a transfer
\* that had not paid it, or not by that of the one that had; a second payment
\* that mark_paid takes for a repetition of the first.
Mishaps == {"opened twice", "expired in flight", "forced", "misread", "reverted",
            "not reverted", "unmarked"}

Init ==
  /\ claim = [status |-> "APPROVED", marked |-> FALSE, byHand |-> FALSE]
  /\ intent = [i \in Ids |->
       [status |-> "NONE", polls |-> 0, due |-> FALSE, misread |-> FALSE]]
  /\ transfer = [i \in Ids |-> "none"]
  /\ heard = {}
  /\ session = [s \in Sessions |-> IdleSession]
  /\ mishaps = {}

Opened == {i \in Ids : intent[i].status # "NONE"}

With(status) == {i \in Ids : intent[i].status \in status}

\* has_payment_in_flight
InFlight == With({"PENDING", "PROCESSING", "INDETERMINATE"})

\* The transfers whose money has left, or may leave any moment.
Out == {i \in Ids : transfer[i] \in {"adrift", "pending", "success"}}

\* The initiation and the polls keep the row locked through their call.
RowFree(i) == \A s \in Sessions :
  session[s].pc \in {"sent", "polling"} => session[s].i # i

ClaimFree == \A s \in Sessions : session[s].pc # "sent"

Start(s, read) ==
  /\ session[s].pc = "idle"
  /\ session' = [session EXCEPT ![s] = read]

End(s) == session' = [session EXCEPT ![s] = IdleSession]

\* Giving up intent i forgets money that is out, or an outcome that is known or
\* asked for.
Hides(i) ==
  \/ i \in Out
  \/ intent[i].status \in {"COMPLETED", "REVERSED", "INDETERMINATE"}

Record(happened, mishap) == mishaps' = IF happened THEN mishaps \cup {mishap} ELSE mishaps

\* A session dies, or its request is refused and rolled back.
RollBack(s) ==
  /\ session[s].pc # "idle"
  /\ End(s)
  /\ UNCHANGED <<claim, intent, transfer, heard, mishaps>>

-----------------------------------------------------------------------------
(* What is written. *)

SetStatus(i, status) == intent' = [intent EXCEPT ![i].status = status]

\* An error of Paystack's is no verdict on transfer i: it need not be about it
\* (a key that was rotated, too many requests).
NotFailed(i) == transfer[i] \notin {"none", "failed"}

\* FAILED, because Paystack answered with an error.
Failed(row, misread) == [row EXCEPT !.status = "FAILED", !.misread = @ \/ misread]

\* mark_paid, for a transfer that succeeded or by hand: its action row lets it
\* happen once.
Marked ==
  IF claim.status = "APPROVED" /\ ~claim.marked
    THEN [claim EXCEPT !.status = "PAID", !.marked = TRUE]
    ELSE claim

\* process_successful_transfer
Complete(i) ==
  /\ SetStatus(i, "COMPLETED")
  /\ claim' = Marked
  /\ Record(Marked.status # "PAID", "unmarked")

\* Variant: the claim is left alone.
RevertNothing(i, paid) == UNCHANGED <<claim, mishaps>>

\* The claim goes back to APPROVED when the session read it as PAID, whichever
\* transfer had paid it; it stays PAID when this one did so after the reading.
Revert(i, paid) ==
  /\ paid => ClaimFree
  /\ claim' = IF paid THEN [claim EXCEPT !.status = "APPROVED"] ELSE claim
  /\ mishaps' = mishaps
       \cup (IF paid /\ (claim.byHand \/ (Out \cup With({"COMPLETED"})) \ {i} # {}) THEN {"reverted"} ELSE {})
       \cup (IF ~paid /\ intent[i].status = "COMPLETED" /\ claim.status = "PAID"
               THEN {"not reverted"} ELSE {})

-----------------------------------------------------------------------------
(* The paying request: create_expense_payment_intent, then                 *)
(* initiate_expense_transfer.                                              *)

\* Variant: no look at the intents whose outcome is unknown.
CheckActive(s) ==
  /\ With({"PENDING", "PROCESSING"}) = {}
  /\ Start(s, [IdleSession EXCEPT !.pc = "opening", !.known = Cardinality(Opened)])
  /\ UNCHANGED <<claim, intent, transfer, heard, mishaps>>

\* The checks come before the lock.  An active intent whose 24 hours are over
\* is to be expired, in flight or not; one that is fresh is handed back.
CheckIntents(s) ==
  LET active == With({"PENDING", "PROCESSING"}) IN
  /\ With({"INDETERMINATE"}) = {}
  /\ \E i \in active \cup {0} :
       /\ IF i = 0 THEN active = {} ELSE intent[i].due
       /\ Start(s, [IdleSession EXCEPT !.pc = "opening", !.i = i,
                      !.known = Cardinality(Opened)])
  /\ UNCHANGED <<claim, intent, transfer, heard, mishaps>>

OpenIntent(s) ==
  LET old == session[s].i
      new == Cardinality(Opened) + 1
  IN
  /\ session[s].pc = "opening"
  /\ new \in Ids
  /\ claim.status = "APPROVED"
  /\ ClaimFree
  /\ RowFree(old)
  /\ intent' = [i \in Ids |->
       IF i = new THEN [intent[i] EXCEPT !.status = "PENDING"]
       ELSE IF i = old THEN [intent[i] EXCEPT !.status = "EXPIRED"]
       ELSE intent[i]]
  /\ mishaps' = mishaps
       \cup (IF new > session[s].known + 1 THEN {"opened twice"} ELSE {})
       \cup (IF old # 0 /\ Hides(old) THEN {"expired in flight"} ELSE {})
  /\ End(s)
  /\ UNCHANGED <<claim, transfer, heard>>

\* The request expires a lapsed intent itself, or the poller does.
ExpirePending(i) ==
  /\ intent[i].status = "PENDING"
  /\ intent[i].due
  /\ RowFree(i)
  /\ SetStatus(i, "EXPIRED")
  /\ Record(Hides(i), "expired in flight")
  /\ UNCHANGED <<claim, transfer, heard, session>>

\* The request goes out under the intent's reference, which Paystack accepts
\* once; says is what was sent under it before.
Send(s, i) ==
  /\ intent[i].status = "PENDING"
  /\ ~intent[i].due
  /\ claim.status = "APPROVED"
  /\ RowFree(i)
  /\ ClaimFree
  /\ Start(s, [IdleSession EXCEPT !.pc = "sent", !.i = i, !.says = transfer[i]])
  /\ transfer' = [transfer EXCEPT ![i] = IF @ = "none" THEN "adrift" ELSE @]
  /\ UNCHANGED <<claim, intent, heard, mishaps>>

\* Paystack's answer, or that of the verification which follows a timeout or
\* the refusal of a reference it has already.
Answered(s) ==
  LET i == session[s].i IN
  /\ session[s].pc = "sent"
  /\ transfer[i] \notin {"none", "adrift"}
  /\ \/ transfer[i] = "success" /\ Complete(i)
     \/ /\ transfer[i] # "success"
        /\ SetStatus(i, IF transfer[i] = "failed" THEN "FAILED" ELSE "PROCESSING")
        /\ UNCHANGED <<claim, mishaps>>
  /\ End(s)
  /\ UNCHANGED <<transfer, heard>>

\* Paystack answers with an error.  A first request is refused by it; of one
\* that was sent before, or of its verification, it says nothing.  The route
\* rolls back; the Sub command records FAILED.
Refused(s) ==
  LET i == session[s].i
      first == session[s].says = "none"
      misread == ~first /\ NotFailed(i)
  IN
  /\ session[s].pc = "sent"
  /\ first => transfer[i] = "adrift"
  /\ transfer' = [transfer EXCEPT ![i] = IF first THEN "none" ELSE @]
  /\ \/ UNCHANGED <<intent, mishaps>>
     \/ /\ intent' = [intent EXCEPT ![i] = Failed(@, misread)]
        /\ Record(misread, "misread")
  /\ End(s)
  /\ UNCHANGED <<claim, heard>>

\* Variant: a verification that finds nothing says that nothing was sent.
UnobservedIsRefused(s) ==
  /\ session[s].pc = "sent"
  /\ SetStatus(session[s].i, IF transfer[session[s].i] \in {"none", "adrift"}
                               THEN "FAILED" ELSE "INDETERMINATE")
  /\ End(s)
  /\ UNCHANGED <<claim, transfer, heard, mishaps>>

\* No answer, and no verification that could stand in for it.
Unobserved(s) ==
  /\ session[s].pc = "sent"
  /\ SetStatus(session[s].i, "INDETERMINATE")
  /\ End(s)
  /\ UNCHANGED <<claim, transfer, heard, mishaps>>

-----------------------------------------------------------------------------
(* The fast poller and the slow reconciler. *)

\* What a poll may be told: the state of a transfer Paystack has, an error that
\* Paystack answers whatever the state, or nothing.
Answers(i) ==
  {"refused", "unreachable"} \cup ({transfer[i]} \ {"none", "adrift"})

\* Variant: the selection does not look at the attempts.
PollBeyond(s, i, says) ==
  /\ intent[i].status \in {"PROCESSING", "INDETERMINATE"}
  /\ RowFree(i)
  /\ says \in Answers(i)
  /\ Start(s, [IdleSession EXCEPT !.pc = "polling", !.i = i, !.says = says])
  /\ UNCHANGED <<claim, intent, transfer, heard, mishaps>>

\* reconcile_stuck_transfer and resolve_indeterminate_transfer up to the answer.
Poll(s, i, says) ==
  /\ \/ intent[i].status = "PROCESSING" /\ intent[i].polls < MaxPolls
     \/ intent[i].status = "INDETERMINATE"
  /\ RowFree(i)
  /\ says \in Answers(i)
  /\ Start(s, [IdleSession EXCEPT !.pc = "polling", !.i = i, !.says = says])
  /\ UNCHANGED <<claim, intent, transfer, heard, mishaps>>

\* The last attempt of the fast poller: an error that Paystack answered is taken
\* for a refusal, silence leaves the outcome unknown.
GivenUp(row, says, misread) ==
  CASE says = "unreachable" -> [row EXCEPT !.status = "INDETERMINATE"]
    [] says = "refused" -> Failed(row, misread)
    [] OTHER -> row

\* Without a verdict the attempt of the fast poller is counted; the slow one
\* keeps the row as it is.
NoVerdict(i, says) ==
  LET counted == [intent[i] EXCEPT !.polls = @ + 1]
      last == counted.polls >= MaxPolls
  IN
  \/ intent[i].status = "INDETERMINATE" /\ UNCHANGED <<intent, mishaps>>
  \/ /\ intent[i].status # "INDETERMINATE"
     /\ intent' = [intent EXCEPT ![i] =
          IF last THEN GivenUp(counted, says, NotFailed(i)) ELSE counted]
     /\ Record(last /\ says = "refused" /\ NotFailed(i), "misread")

PollSettle(s) ==
  LET i == session[s].i
      says == session[s].says
      paid == claim.status = "PAID"
  IN
  /\ session[s].pc = "polling"
  /\ \/ says = "success" /\ ClaimFree /\ Complete(i)
     \/ says = "failed" /\ SetStatus(i, "FAILED") /\ Revert(i, paid)
     \/ says = "reversed" /\ SetStatus(i, "REVERSED") /\ Revert(i, paid)
     \/ /\ says \in {"refused", "pending", "unreachable"}
        /\ NoVerdict(i, says)
        /\ UNCHANGED claim
  /\ End(s)
  /\ UNCHANGED <<transfer, heard>>

-----------------------------------------------------------------------------
(* Webhooks, in any order and at any time, again and again until one is on *)
(* record. *)

Happened(i, v) ==
  \/ transfer[i] = v
  \/ v = "success" /\ transfer[i] = "reversed"

\* The event is inserted, which keeps a second delivery waiting, and the
\* intent is loaded without a lock.
Hear(s, i, v) ==
  /\ Happened(i, v)
  /\ <<i, v>> \notin heard
  /\ \A t \in Sessions : ~(/\ session[t].pc = "hearing"
                           /\ session[t].i = i
                           /\ session[t].says = v)
  /\ Start(s, [pc |-> "hearing", i |-> i, seen |-> intent[i].status,
                paid |-> claim.status = "PAID", known |-> 0, says |-> v])
  /\ UNCHANGED <<claim, intent, transfer, heard, mishaps>>

\* The status is that of the loaded row, and only a status that differs from
\* it is written.
Overwrite(s, status) == SetStatus(session[s].i,
  IF session[s].seen = status THEN intent[session[s].i].status ELSE status)

\* _handle_transfer_success, _handle_transfer_failed, _handle_transfer_reversed.
\* An event that comes at the wrong time is recorded as failed, and not again.
Handle(s) ==
  LET i == session[s].i
      seen == session[s].seen
      Ignored == UNCHANGED <<claim, intent, mishaps>>
      completes == seen \in {"PROCESSING", "PENDING", "INDETERMINATE"}
      returns == seen \in {"COMPLETED", "PROCESSING", "INDETERMINATE"}
  IN
  /\ session[s].pc = "hearing"
  /\ RowFree(i)
  /\ \/ /\ session[s].says = "success"
        /\ IF completes THEN ClaimFree /\ Complete(i) ELSE Ignored
     \/ /\ session[s].says = "failed"
        /\ Overwrite(s, "FAILED")
        /\ Revert(i, session[s].paid)
     \/ /\ session[s].says = "reversed"
        /\ IF returns
             THEN Overwrite(s, "REVERSED") /\ Revert(i, session[s].paid)
             ELSE Ignored
  /\ heard' = heard \cup {<<i, session[s].says>>}
  /\ End(s)
  /\ UNCHANGED transfer

-----------------------------------------------------------------------------
(* The reset of the latest intent, and mark_paid by hand. *)

\* Variant: the reset may be forced for any intent.
ResetLoadAny(s) == LET i == Cardinality(Opened) IN
  /\ i > 0
  /\ claim.status = "APPROVED"
  /\ Start(s, [IdleSession EXCEPT !.pc = "resetting", !.i = i,
                 !.seen = intent[i].status])
  /\ UNCHANGED <<claim, intent, transfer, heard, mishaps>>

\* An operator may force the reset of an intent that is still active.
ResetLoad(s) == \E force \in BOOLEAN : LET i == Cardinality(Opened) IN
  /\ Attended
  /\ i > 0
  /\ claim.status = "APPROVED"
  /\ intent[i].status \notin {"COMPLETED", "REVERSED", "INDETERMINATE"}
  /\ force \/ intent[i].status \in {"ABANDONED", "FAILED", "EXPIRED"}
  /\ Start(s, [IdleSession EXCEPT !.pc = "resetting", !.i = i,
                 !.seen = intent[i].status])
  /\ UNCHANGED <<claim, intent, transfer, heard, mishaps>>

ResetWrite(s) ==
  LET i == session[s].i IN
  /\ session[s].pc = "resetting"
  /\ RowFree(i)
  /\ Overwrite(s, "ABANDONED")
  /\ Record(Hides(i), "forced")
  /\ End(s)
  /\ UNCHANGED <<claim, transfer, heard>>

PayByHand ==
  /\ Attended
  /\ claim.status = "APPROVED"
  /\ ~claim.marked
  /\ InFlight = {}
  /\ ClaimFree
  /\ claim' = [Marked EXCEPT !.byHand = TRUE]
  /\ UNCHANGED <<intent, transfer, heard, session, mishaps>>

-----------------------------------------------------------------------------
(* Paystack and the clock. *)

Arrive(i) ==
  /\ transfer[i] = "adrift"
  /\ transfer' = [transfer EXCEPT ![i] = "pending"]
  /\ UNCHANGED <<claim, intent, heard, session, mishaps>>

Lose(i) ==
  /\ transfer[i] = "adrift"
  /\ transfer' = [transfer EXCEPT ![i] = "none"]
  /\ UNCHANGED <<claim, intent, heard, session, mishaps>>

Conclude(i) ==
  /\ \/ /\ transfer[i] = "pending"
        /\ \E v \in Verdicts \ {"reversed"} : transfer' = [transfer EXCEPT ![i] = v]
     \/ /\ transfer[i] = "success"
        /\ "reversed" \in Verdicts
        /\ transfer' = [transfer EXCEPT ![i] = "reversed"]
  /\ UNCHANGED <<claim, intent, heard, session, mishaps>>

\* expires_at passes.
Lapse(i) ==
  /\ intent[i].status \in {"PENDING", "PROCESSING"}
  /\ ~intent[i].due
  /\ intent' = [intent EXCEPT ![i].due = TRUE]
  /\ UNCHANGED <<claim, transfer, heard, session, mishaps>>

-----------------------------------------------------------------------------

SessionStep(s) ==
  \/ RollBack(s)
  \/ CheckIntents(s) \/ OpenIntent(s)
  \/ Answered(s) \/ Refused(s) \/ Unobserved(s)
  \/ PollSettle(s) \/ Handle(s)
  \/ ResetLoad(s) \/ ResetWrite(s)
  \/ \E i \in Ids :
       \/ Send(s, i)
       \/ \E says \in Answers(i) : Poll(s, i, says)
       \/ \E v \in Verdicts : Hear(s, i, v)

Step ==
  \/ \E s \in Sessions : SessionStep(s)
  \/ PayByHand
  \/ \E i \in Ids : ExpirePending(i) \/ Arrive(i) \/ Lose(i) \/ Conclude(i) \/ Lapse(i)

Next == (GoesOn \/ mishaps = {}) /\ Step

Spec == Init /\ [][Next]_vars

=============================================================================
