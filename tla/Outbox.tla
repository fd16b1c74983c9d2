------------------------------- MODULE Outbox -------------------------------
(***************************************************************************)
(* The outbox of failed Slack alerts (app/notifications/slack_outbox.py)   *)
(* as SlackNotifier.notify uses it (app/notifications/slack.py).           *)
(*                                                                         *)
(* Every alert first resends what the outbox file holds, then is sent      *)
(* itself; an alert about an order that cannot be sent is appended to the  *)
(* file.  Both rewrite the whole file, by way of one temporary file, and   *)
(* nothing locks it: threads of one process (a detached order handler and  *)
(* the session) and other processes do so side by side.                    *)
(* The temporary file is taken to be written in one piece.                 *)
(*                                                                         *)
(* Times are those of time.monotonic, which notify takes for now: it       *)
(* counts from the boot of the machine.                                    *)
(***************************************************************************)
EXTENDS Naturals, Sequences, FiniteSets

CONSTANTS
  Alert,        \* alerts about orders; the others never reach the file
  Notifier,     \* threads or processes that send alerts
  NoAlert,
  NoFile,       \* the temporary file does not exist
  MaxAttempts,  \* OUTBOX_MAX_ATTEMPTS
  Ttl,          \* OUTBOX_TTL_SECONDS, in ticks
  MaxTime,      \* bound on the clock
  MaxMishaps,   \* bound on the steps of Mishap
  Mishaps       \* what may go wrong besides a failing network

(* A line of the outbox file. *)
Entry == [alert : Alert, at : 0..MaxTime, attempts : 0..MaxAttempts]

ASSUME OutboxAssumption ==
  /\ NoAlert \notin Alert /\ NoFile \notin Seq(Entry)
  /\ {MaxAttempts, Ttl, MaxTime, MaxMishaps} \subseteq Nat
  /\ MaxAttempts > 0
  /\ Mishaps \subseteq {"crash", "write_fails", "reboot"}

VARIABLES
  clock,     \* time.monotonic()
  file,      \* slack_outbox.jsonl
  tmp,       \* slack_outbox.jsonl.tmp: what it holds, or nothing
  pc,        \* where each notifier is
  alert,     \* the alert it was called for
  now,       \* the time it was called at
  todo,      \* entries it has read and not tried yet
  kept,      \* what it is going to write
  raised,    \* alerts that notify was called for
  tries,     \* failed resends of each alert
  arrived,   \* how often each alert has reached the channel
  answered,  \* how often Slack's answer said so, too
  since,     \* the time each of them was raised at
  mishaps,   \* how often something went wrong
  alone      \* no two notifiers have overlapped so far

local   == <<pc, alert, now, todo, kept>>
history == <<raised, tries, arrived, answered, since, mishaps, alone>>
vars == <<clock, file, tmp, local, history>>

TypeOK ==
  /\ clock \in 0..MaxTime
  /\ file \in Seq(Entry)
  /\ tmp = NoFile \/ tmp \in Seq(Entry)
  /\ pc \in [Notifier -> {"idle", "resend", "swap", "send", "read", "append",
                          "install"}]
  /\ alert \in [Notifier -> Alert \cup {NoAlert}]
  /\ now \in [Notifier -> 0..MaxTime]
  /\ todo \in [Notifier -> Seq(Entry)] /\ kept \in [Notifier -> Seq(Entry)]
  /\ raised \subseteq Alert
  /\ tries \in [Alert -> 0..MaxAttempts + 1]
  /\ arrived \in [Alert -> 0..MaxAttempts + 2] /\ answered \in [Alert -> 0..2]
  /\ since \in [Alert -> 0..MaxTime]
  /\ mishaps \in 0..MaxMishaps
  /\ alone \in BOOLEAN

Init ==
  /\ clock = 0
  /\ file = <<>> /\ tmp = NoFile
  /\ pc = [n \in Notifier |-> "idle"]
  /\ alert = [n \in Notifier |-> NoAlert]
  /\ now = [n \in Notifier |-> 0]
  /\ todo = [n \in Notifier |-> <<>>] /\ kept = [n \in Notifier |-> <<>>]
  /\ raised = {}
  /\ tries = [a \in Alert |-> 0]
  /\ arrived = [a \in Alert |-> 0] /\ answered = [a \in Alert |-> 0]
  /\ since = [a \in Alert |-> 0]
  /\ mishaps = 0
  /\ alone = TRUE

(* Mutant: an entry that was tried often enough stays. *)
IsAlive_Endless(e, time) == time - e.at <= Ttl

(* An entry with a stamp of the future is alive. *)
IsAlive(e, time) == time <= e.at + Ttl /\ e.attempts < MaxAttempts

(* The histories count to one more than the bound on them. *)
Capped(k, bound) == IF k <= bound THEN k + 1 ELSE k

Enqueued(a) == \E i \in DOMAIN file : file[i].alert = a

Goto(n, label) == pc' = [pc EXCEPT ![n] = label]

-----------------------------------------------------------------------------
(* notify, up to the read of resend_pending.  An alert that no file waits  *)
(* for (NoAlert) is dropped when it cannot be sent, but resends too.       *)
(* An alert that is switched off, throttled or a dry run's does not come   *)
(* this far.                                                               *)
Notify(n, a) ==
  /\ pc[n] = "idle"
  /\ a \notin raised
  /\ raised' = raised \cup ({a} \cap Alert)
  /\ alert' = [alert EXCEPT ![n] = a]
  /\ now' = [now EXCEPT ![n] = clock]
  /\ todo' = [todo EXCEPT ![n] = file] /\ kept' = [kept EXCEPT ![n] = <<>>]
  /\ alone' = (alone /\ \A m \in Notifier : pc[m] = "idle")
  /\ Goto(n, "resend")
  /\ since' = [b \in Alert |-> IF b = a THEN clock ELSE since[b]]
  /\ UNCHANGED <<clock, file, tmp, tries, arrived, answered, mishaps>>

(* A message reaches the channel.  Slack's answer may be lost, or not be   *)
(* understood, and then the sender takes the message for failed, as it     *)
(* does one that Slack never saw.                                          *)
Reaches(a) ==
  arrived' = [b \in Alert |-> IF b = a THEN Capped(arrived[b], MaxAttempts + 1) ELSE arrived[b]]

MayReach(a) == Reaches(a) \/ UNCHANGED arrived

Answers(a) == answered' = [b \in Alert |-> IF b = a THEN Capped(answered[b], 1) ELSE answered[b]]

(* Mutant: the attempt is not counted. *)
Tried_Uncounted(e) == e

Tried(e) == [e EXCEPT !.attempts = @ + 1]

Arrives(n, e) == Reaches(e.alert) /\ Answers(e.alert) /\ UNCHANGED <<kept, tries>>

(* Mutant: an entry that failed again is not written back. *)
Fails_Drops(n, e) ==
  /\ tries' = [tries EXCEPT ![e.alert] = Capped(@, MaxAttempts)]
  /\ MayReach(e.alert)
  /\ UNCHANGED <<kept, answered>>

Fails(n, e) ==
  /\ tries' = [tries EXCEPT ![e.alert] = Capped(@, MaxAttempts)]
  /\ kept' = IF IsAlive(Tried(e), now[n]) THEN [kept EXCEPT ![n] = Append(@, Tried(e))] ELSE kept
  /\ MayReach(e.alert)
  /\ UNCHANGED answered

(* The loop of resend_pending over the entries it has read. *)
Resend(n) ==
  /\ pc[n] = "resend" /\ todo[n] # <<>>
  /\ todo' = [todo EXCEPT ![n] = Tail(@)]
  /\ LET e == Head(todo[n])
     IN  IF IsAlive(e, now[n]) THEN Arrives(n, e) \/ Fails(n, e)
         ELSE UNCHANGED <<arrived, answered, kept, tries>>
  /\ UNCHANGED <<clock, file, tmp, pc, alert, now, raised, since, mishaps, alone>>

Finish(n) ==
  /\ Goto(n, "idle")
  /\ alert' = [alert EXCEPT ![n] = NoAlert]
  /\ now' = [now EXCEPT ![n] = 0]

CanWrite(n) == (pc[n] = "resend" /\ todo[n] = <<>>) \/ pc[n] = "append"

(* _write_entries: the temporary file is written, *)
WriteTmp(n) ==
  /\ CanWrite(n)
  /\ tmp' = kept[n]
  /\ kept' = [kept EXCEPT ![n] = <<>>]
  /\ Goto(n, IF pc[n] = "resend" THEN "swap" ELSE "install")
  /\ UNCHANGED <<clock, file, alert, now, todo, history>>

(* After a write, done or not: the alert's own turn, or the end. *)
Proceed(n, resending) ==
  IF resending THEN Goto(n, "send") /\ UNCHANGED <<alert, now>> ELSE Finish(n)

(* and takes the file's place.  Another notifier may have changed what it  *)
(* holds, or moved it away: then os.replace raises, which is ignored.      *)
Swap(n) ==
  /\ pc[n] \in {"swap", "install"}
  /\ IF tmp = NoFile THEN UNCHANGED <<file, tmp>> ELSE file' = tmp /\ tmp' = NoFile
  /\ Proceed(n, pc[n] = "swap")
  /\ UNCHANGED <<clock, todo, kept, history>>

(* The alert itself. *)
SendSucceeds(n) ==
  /\ pc[n] = "send"
  /\ Finish(n)
  /\ Reaches(alert[n]) /\ Answers(alert[n])
  /\ UNCHANGED <<clock, file, tmp, todo, kept, raised, tries, since, mishaps, alone>>

SendFails(n) ==
  /\ pc[n] = "send"
  /\ IF alert[n] \in Alert THEN Goto(n, "read") /\ UNCHANGED <<alert, now>> ELSE Finish(n)
  /\ MayReach(alert[n])
  /\ UNCHANGED <<clock, file, tmp, todo, kept, raised, tries, answered, since, mishaps, alone>>

(* enqueue_failed_notification, up to its write. *)
ReadToEnqueue(n) ==
  /\ pc[n] = "read"
  /\ kept' = [kept EXCEPT ![n] =
       Append(file, [alert |-> alert[n], at |-> now[n], attempts |-> 0])]
  /\ Goto(n, "append")
  /\ UNCHANGED <<clock, file, tmp, alert, now, todo, history>>

-----------------------------------------------------------------------------
Mishap(kind) ==
  /\ kind \in Mishaps /\ mishaps < MaxMishaps
  /\ mishaps' = mishaps + 1
  /\ UNCHANGED <<raised, tries, arrived, answered, since, alone>>

(* The disk is full, or the file cannot be opened. *)
WriteFails(n) ==
  /\ Mishap("write_fails")
  /\ CanWrite(n)
  /\ tmp' \in {tmp, <<>>}
  /\ kept' = [kept EXCEPT ![n] = <<>>]
  /\ Proceed(n, pc[n] = "resend")
  /\ UNCHANGED <<clock, file, todo>>

Stopped(N) ==
  /\ pc' = [n \in Notifier |-> IF n \in N THEN "idle" ELSE pc[n]]
  /\ alert' = [n \in Notifier |-> IF n \in N THEN NoAlert ELSE alert[n]]
  /\ now' = [n \in Notifier |-> IF n \in N THEN 0 ELSE now[n]]
  /\ todo' = [n \in Notifier |-> IF n \in N THEN <<>> ELSE todo[n]]
  /\ kept' = [n \in Notifier |-> IF n \in N THEN <<>> ELSE kept[n]]
  /\ UNCHANGED <<file, tmp>>

(* The process of a notifier is killed, and started again. *)
Crash(n) == Mishap("crash") /\ Stopped({n}) /\ UNCHANGED clock

(* So is the machine: its clock starts again, too. *)
Reboot == Mishap("reboot") /\ Stopped(Notifier) /\ clock' = 0

Tick ==
  /\ clock < MaxTime
  /\ clock' = clock + 1
  /\ UNCHANGED <<file, tmp, local, history>>

Step(n) ==
  \/ Resend(n) \/ WriteTmp(n) \/ Swap(n)
  \/ SendSucceeds(n) \/ SendFails(n) \/ ReadToEnqueue(n)

Next ==
  \/ \E n \in Notifier : Step(n) \/ WriteFails(n) \/ Crash(n)
  \/ \E n \in Notifier, a \in Alert \cup {NoAlert} : Notify(n, a)
  \/ Reboot \/ Tick

Spec == Init /\ [][Next]_vars

(* A call of the network times out, so a notifier that was called comes to *)
(* its end, and alerts of some kind are sent again and again.              *)
Fairness ==
  \A n \in Notifier : WF_vars(Step(n)) /\ WF_vars(Notify(n, NoAlert))

FairSpec == Spec /\ Fairness

-----------------------------------------------------------------------------
(* Nothing went wrong but the network, and no two notifiers overlapped. *)
Undisturbed == alone /\ mishaps = 0

(* "Persists failed durable-class notifications" (slack_outbox.py:5-8): an *)
(* alert about an order is confirmed by Slack, or waits in the file until  *)
(* it was tried often enough or is too old.                                *)
NothingForgotten ==
  Undisturbed => \A a \in raised :
    \/ \E n \in Notifier : pc[n] # "idle"
    \/ answered[a] > 0 \/ Enqueued(a) \/ tries[a] = MaxAttempts \/ clock > since[a] + Ttl

(* "Success removes the entry; failure increments attempts"                *)
(* (slack_outbox.py:135-136): an alert that Slack confirmed, or that was   *)
(* resent OUTBOX_MAX_ATTEMPTS times, is not sent again.  A send that looks *)
(* failed may have reached the channel (slack.py:266-276), so an alert can *)
(* be there once for its own send and once for every resend, not more.     *)
NotSentAgain ==
  [][Undisturbed' => \A a \in Alert :
       /\ answered[a] > 0 \/ tries[a] = MaxAttempts =>
            arrived'[a] = arrived[a] /\ answered'[a] = answered[a] /\ tries'[a] = tries[a]
       /\ arrived'[a] <= MaxAttempts + 1]_vars

(* As long as alerts of any kind are sent, an entry leaves the file, even  *)
(* if notifiers overwrite each other's count of its attempts.              *)
OutboxDrains == \A a \in Alert : Enqueued(a) ~> ~Enqueued(a)
=============================================================================
