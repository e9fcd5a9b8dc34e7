------------------------------ MODULE Messages ------------------------------
(***************************************************************************)
(* The SMS messages about an order (apps/notifications): the policies that *)
(* are checked before a message is sent, the log each attempt leaves in    *)
(* SMSLog, and the half-hourly job that sends failed messages again.       *)
(*                                                                         *)
(* An attempt has three steps that no transaction holds together: read the *)
(* logs (apply_sms_policies) and write a PENDING one, call the provider,   *)
(* save what it answered.  The provider is outside: a message it accepted  *)
(* is on its way even when its answer is lost.                             *)
(*                                                                         *)
(* The operators map the notes kept on one message (one order and template *)
(* code) to the notes after a step; module Lifecycle takes the steps.      *)
(***************************************************************************)
EXTENDS Integers, Sequences, FiniteSets

CONSTANTS
    SmsPerDay,     \* SMS_RATE_LIMIT_PER_USER_PER_DAY
    DedupeWindow,  \* SMS_DEDUPE_WINDOW_SECONDS; 0: earlier messages do not matter
    MaxAttempts    \* max_attempts of retry_failed

ASSUME SmsAssumption == SmsPerDay \in Nat /\ DedupeWindow \in Nat /\ MaxAttempts \in Nat

\* The template codes of an order's messages, all of them transactional but
\* "order_packaged", which the quiet hours may suppress.
Templates == {"order_created", "payment_success", "payment_failed",
              "order_confirmed_by_shop", "order_preparing", "order_packaged",
              "order_out_for_delivery", "delivered", "order_cancelled",
              "refund_processed", "cod_reminder"}

TRANSACTIONAL_EVENTS == Templates \ {"order_packaged"}

\* The SMSLog rows of one order and template: how many are SENT, and the values of
\* retry_count found among the FAILED ones.  Of the events of the order: messages the
\* provider took ("delivered"), those among them without a SENT row ("unanswered"),
\* and FAILED rows ("failures").  "resent": messages that retry_failed sent.
Notes == [sent : Nat, failed : SUBSET (0..MaxAttempts), delivered : Nat,
          unanswered : Nat, failures : Nat, resent : Nat]

NoNotes == [sent |-> 0, failed |-> {}, delivered |-> 0,
            unanswered |-> 0, failures |-> 0, resent |-> 0]

\* Defect: the log of earlier messages is not consulted.
PoliciesWithoutDedupe(n, t, today, quiet) ==
    /\ quiet => t \in TRANSACTIONAL_EVENTS
    /\ SmsPerDay > 0 => today < SmsPerDay

\* apply_sms_policies: "today" counts the SENT rows of the customer's last 24 hours.
\* Of _check_dedupe only the second query can match: the first one compares the
\* message text with metadata nobody writes.
apply_sms_policies(n, t, today, quiet) ==
    /\ quiet => t \in TRANSACTIONAL_EVENTS
    /\ SmsPerDay > 0 => today < SmsPerDay
    /\ DedupeWindow > 0 => n.sent = 0

\* provider.send: accepted, refused, or accepted and the answer is lost (the call
\* has a timeout of 15 seconds).
Answers == {"accepted", "refused", "lost"}

provider_send(n, answer) ==
    CASE answer = "accepted" -> [n EXCEPT !.delivered = @ + 1]
      [] answer = "lost"     -> [n EXCEPT !.delivered = @ + 1, !.unanswered = @ + 1]
      [] answer = "refused"  -> n

\* The row of an event's message becomes SENT, or FAILED without a retry_count.
save_log(n, answer) ==
    IF answer = "accepted" THEN [n EXCEPT !.sent = @ + 1]
    ELSE [n EXCEPT !.failed = @ \cup {0}, !.failures = @ + 1]

\* retry_failed sends a FAILED message again, with force and so past every policy.  Only
\* the new row counts the attempt: the row it starts from keeps its status and its
\* retry_count, and the next run finds it again.
Retryable(n) == {a \in n.failed : a < MaxAttempts}

retry_failed(n, a, answer) ==
    IF answer = "accepted" THEN [n EXCEPT !.resent = @ + 1, !.sent = @ + 1]
    ELSE [n EXCEPT !.resent = @ + 1, !.failed = @ \cup {a + 1}]

=============================================================================
