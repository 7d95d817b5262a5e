-------------------------- MODULE PayoutProperties --------------------------
(***************************************************************************)
(* What the payouts of one claim promise.                                  *)
(***************************************************************************)
EXTENDS Payout

Claims == [status : {"APPROVED", "PAID"}, marked : BOOLEAN, byHand : BOOLEAN]

Rows == [status : Statuses, polls : 0..MaxPolls, due : BOOLEAN, misread : BOOLEAN]

Reads ==
  [pc : {"idle", "opening", "sent", "polling", "hearing", "resetting"},
   i : 0..MaxIntents, seen : Statuses, paid : BOOLEAN, known : 0..MaxIntents,
   says : TransferStates \cup {"refused", "unreachable"}]

\* Types; the fast poller counts no attempt past TRANSFER_POLL_MAX_ATTEMPTS,
\* since find_stuck_transfer_intents selects on poll_count.
TypeOK ==
  /\ claim \in Claims
  /\ intent \in [Ids -> Rows]
  /\ transfer \in [Ids -> TransferStates]
  /\ heard \subseteq Ids \X Verdicts
  /\ session \in [Sessions -> Reads]
  /\ mishaps \subseteq Mishaps

VerdictIsTrue(i) ==
  /\ intent[i].status = "PROCESSING" => transfer[i] \notin {"none", "adrift"}
  /\ intent[i].status = "COMPLETED" => transfer[i] \in {"success", "reversed"}
  /\ intent[i].status = "FAILED" => transfer[i] \in {"none", "failed"} \/ intent[i].misread
  /\ intent[i].status = "REVERSED" => transfer[i] = "reversed"

\* ADR-0007: no silence, crash or race makes a verdict.  A row says COMPLETED,
\* FAILED or REVERSED only of a transfer for which that is true: late webhooks,
\* stale sessions and unanswered calls included.  The exception is a row on which
\* FAILED was written because Paystack answered the last attempt of the fast
\* poller, or a repeated request, with an error (misread, a mishap).
VerdictsAreTrue == \A i \in Ids : VerdictIsTrue(i)

\* The money of one claim is out, or may be out, once
\* (create_expense_payment_intent: "otherwise this claim may be paid twice").
PaidAtMostOnce == Cardinality(Out) + (IF claim.byHand THEN 1 ELSE 0) <= 1

\* It is, unless one of the named steps was taken: crashes before the answer is
\* stored, lost answers, repeated initiations, resets, reversals and payments by
\* hand in any order do not pay a claim twice by themselves.
PaidOnce == mishaps = {} => PaidAtMostOnce

\* Without such a step the claim reads PAID exactly while a payment of it, by
\* hand or by a transfer recorded as COMPLETED, stands.
ClaimTells == mishaps = {} =>
  (claim.status = "PAID" <=> claim.byHand \/ With({"COMPLETED"}) # {})

GivesUp(i) ==
  /\ intent[i].status = "INDETERMINATE"
  /\ intent'[i].status \notin {"INDETERMINATE", "COMPLETED", "FAILED", "REVERSED"}

ReadBefore(s, i) ==
  /\ session[s].pc \in {"opening", "resetting"}
  /\ session[s].i = i
  /\ session[s].seen # "INDETERMINATE"

\* resolve_indeterminate_transfer: INDETERMINATE is left for a verdict of
\* Paystack's.  Only a session that read the row before its outcome was unknown,
\* a reset or a request that expires it, can take it anywhere else.
UnknownIsKept ==
  [][\A i \in Ids : GivesUp(i) => \E s \in Sessions : ReadBefore(s, i)]_vars

=============================================================================
