---------------------------- MODULE Notifications ----------------------------
(***************************************************************************)
(* Messages of one account about its agent runs (notifications.py, the     *)
(* NotificationAttemptRepository of storage/repositories.py, the digest    *)
(* and the test message of agent_mode/service.py).                         *)
(*                                                                         *)
(* A sender is a run, which sends one digest, or a request for a test      *)
(* message, which has no run id.  It takes the channels of the preference  *)
(* one after the other; for a text it checks readiness, phone, consent and *)
(* two limits, then asks the provider, then records the attempt.  The      *)
(* limits count the recorded attempts, whatever became of them.            *)
(***************************************************************************)
EXTENDS Integers, Sequences, FiniteSets

CONSTANTS Senders,    \* runs and requests that may be under way at once
          Runs,       \* the senders that are runs
          Profiles,   \* notification settings an operator may have
          DayLimit,   \* SMS_MAX_MESSAGES_PER_USER_PER_DAY
          RunLimit,   \* SMS_MAX_MESSAGES_PER_RUN
          MaxRows     \* bound: attempts of one day

ASSUME NotificationsAssumption ==
  /\ Runs \subseteq Senders /\ IsFiniteSet(Senders) /\ Senders # {}
  /\ DayLimit \in Nat /\ RunLimit \in Nat /\ MaxRows \in Nat

VARIABLES
  profile,   \* the stored settings: preference, email, sms, phone, consent
  readiness, \* the provider's configuration: ready, disabled or unconfigured
  rows,      \* the attempts of the last day, oldest first, those without a row too
  sender     \* sender -> [doing, left, profile, run]

noticeVars == <<profile, readiness, rows, sender>>

Sleeping == [doing |-> "nothing"]
Readiness == {"ready", "disabled", "unconfigured"}

\* send_event: the channels of the preference that are switched on, e-mail first.
Channels(p) ==
  (IF p.preference \in {"email", "both"} /\ p.email THEN <<"email">> ELSE <<>>)
    \o (IF p.preference \in {"sms", "both"} /\ p.sms THEN <<"sms">> ELSE <<>>)

\* An attempt; took tells whether the provider has the message, which no row says.
Attempted(channel, status, run, took) == [channel |-> channel, status |-> status, run |-> run, took |-> took]

Count(P(_)) == Cardinality({i \in DOMAIN rows : P(rows[i])})

\* Faulty variant: only texts known as sent count.
CountRecent_SentOnly == Count(LAMBDA a : a.channel = "sms" /\ a.status = "sent")

\* count_recent over the statuses _sms_allowed names.
CountRecent == Count(LAMBDA a : a.channel = "sms" /\ a.status \in {"sent", "failed", "skipped", "disabled"})

\* count_for_run.
CountForRun(run) == Count(LAMBDA a : a.channel = "sms" /\ a.status # "unrecorded" /\ a.run = run)

\* Faulty variant: one more than the limit.
Limited_OneMore(run) == CountRecent > DayLimit \/ (run # "test" /\ CountForRun(run) >= RunLimit)

\* _sms_allowed: the reason a text is held back.
Limited(run) == CountRecent >= DayLimit \/ (run # "test" /\ CountForRun(run) >= RunLimit)

\* sms_readiness and the checks of _send_sms before the limits.
Unsendable(p) == readiness # "ready" \/ ~p.phone \/ ~p.consent

-----------------------------------------------------------------------------
NoticeInit ==
  /\ profile \in Profiles /\ readiness \in Readiness
  /\ rows = <<>> /\ sender = [s \in Senders |-> Sleeping]

\* send_test_notification: the channel that is asked for replaces the preference
\* and both switches; one that is unknown replaces nothing.
Requested(p, channel) ==
  IF channel = "unknown" THEN p
  ELSE [p EXCEPT !.preference = channel, !.email = channel \in {"email", "both"},
                 !.sms = channel \in {"sms", "both"}]

\* send_event, for a run's one digest or for a test message; the settings are
\* those the run or the request loaded.
Begin(s) ==
  /\ sender[s] = Sleeping
  /\ s \in Runs => \A i \in DOMAIN rows : rows[i].run # s
  /\ \E p \in IF s \in Runs THEN {profile}
               ELSE {Requested(profile, channel) : channel \in {"email", "sms", "both", "unknown"}} :
       /\ Channels(p) # <<>>
       /\ sender' = [sender EXCEPT ![s] = [doing |-> "check", left |-> Channels(p), profile |-> p,
                                           run |-> IF s \in Runs THEN s ELSE "test"]]
  /\ UNCHANGED <<profile, readiness, rows>>

\* The sender goes on with the next channel.
Onward(q) == IF Len(q.left) = 1 THEN Sleeping ELSE [q EXCEPT !.doing = "check", !.left = Tail(@)]

\* _record.
Record(s, status, took) ==
  /\ Len(rows) < MaxRows
  /\ rows' = Append(rows, Attempted(Head(sender[s].left), status, sender[s].run, took))
  /\ sender' = [sender EXCEPT ![s] = Onward(@)]
  /\ UNCHANGED <<profile, readiness>>

\* _send_email: a user without an address is skipped; the provider may fail with
\* or without having taken the message.
SendEmail(s) ==
  /\ sender[s].doing = "check" /\ Head(sender[s].left) = "email"
  /\ \/ Record(s, "skipped", FALSE)
     \/ \E took \in BOOLEAN : Record(s, "failed", took)
     \/ Record(s, "sent", TRUE)

\* _send_sms, a text that is not sent: a disabled provider has a status of its own.
HoldText(s) ==
  /\ sender[s].doing = "check" /\ Head(sender[s].left) = "sms"
  /\ Unsendable(sender[s].profile) \/ Limited(sender[s].run)
  /\ Record(s, IF readiness = "disabled" THEN "disabled" ELSE "skipped", FALSE)

\* _send_sms, all checks passed.
AllowText(s) ==
  /\ sender[s].doing = "check" /\ Head(sender[s].left) = "sms"
  /\ ~Unsendable(sender[s].profile) /\ ~Limited(sender[s].run)
  /\ sender' = [sender EXCEPT ![s].doing = "text"]
  /\ UNCHANGED <<profile, readiness, rows>>

\* TwilioSmsClient.send and the record of what came of it: a timeout is a failure
\* although the provider may have taken the text.
SendText(s) ==
  /\ sender[s].doing = "text"
  /\ \/ Record(s, "sent", TRUE)
     \/ \E took \in BOOLEAN : Record(s, "failed", took)

\* The process dies after the provider took the text and before the record, or an
\* answer that is no JSON object ends send with an error nothing catches.
LoseRecord(s) ==
  /\ sender[s].doing = "text" /\ Len(rows) < MaxRows
  /\ rows' = Append(rows, Attempted("sms", "unrecorded", sender[s].run, TRUE))
  /\ sender' = [sender EXCEPT ![s] = Sleeping]
  /\ UNCHANGED <<profile, readiness>>

\* The oldest attempt is a day old.
Age == rows # <<>> /\ rows' = Tail(rows) /\ UNCHANGED <<profile, readiness, sender>>

\* The operator stores other settings.
EditNotices(p) == p # profile /\ profile' = p /\ UNCHANGED <<readiness, rows, sender>>

NoticeStep ==
  \/ \E s \in Senders : Begin(s) \/ SendEmail(s) \/ HoldText(s) \/ AllowText(s) \/ SendText(s) \/ LoseRecord(s)
  \/ Age
  \/ \E p \in Profiles : EditNotices(p)

NoticeSpec == NoticeInit /\ [][NoticeStep]_noticeVars

-----------------------------------------------------------------------------
\* The texts a user gets in a day exceed the limit only by senders that overlap and
\* by texts whose record was lost (_sms_allowed and _send_sms: the count is read
\* before the text is sent, and the attempt recorded after it).
TextsStayBounded ==
  Count(LAMBDA a : a.channel = "sms" /\ a.took)
    <= DayLimit + (Cardinality(Senders) - 1) + Count(LAMBDA a : a.status = "unrecorded")
=============================================================================
