---------------------------- MODULE OutboxProofs ----------------------------
(***************************************************************************)
(* Proofs about Outbox, for any alerts and notifiers: its types, which     *)
(* hold although every notifier writes back what it once read; and that,   *)
(* as long as notifiers take turns, no alert is forgotten, and none is     *)
(* sent again that Slack has confirmed or that was tried often enough.     *)
(***************************************************************************)
EXTENDS Outbox, SequenceTheorems, TLAPS

LEMMA Numbers ==
  /\ MaxAttempts \in Nat /\ MaxAttempts > 0 /\ Ttl \in Nat /\ MaxTime \in Nat /\ MaxMishaps \in Nat
  /\ NoAlert \notin Alert
BY OutboxAssumption

(* An entry that is still alive can be tried once more. *)
LEMMA TriedFits ==
  ASSUME NEW e \in Entry, NEW t \in Nat, IsAlive(e, t)
  PROVE  Tried(e) \in Entry
<1>1. e.attempts + 1 \in 0..MaxAttempts
  BY Numbers DEF Entry, IsAlive
<1> QED
  BY <1>1 DEF Tried, Entry

(* The entry that a failed alert becomes. *)
LEMMA EntryFits ==
  ASSUME TypeOK, NEW n \in Notifier, alert[n] \in Alert
  PROVE  [alert |-> alert[n], at |-> now[n], attempts |-> 0] \in Entry
BY Numbers DEF TypeOK, Entry

LEMMA CapFits ==
  ASSUME NEW b \in Nat, NEW k \in 0..b + 1
  PROVE  Capped(k, b) \in 0..b + 1
BY DEF Capped

(* The histories of a send. *)
LEMMA CountsFit ==
  ASSUME TypeOK, NEW a
  PROVE  /\ UNCHANGED arrived \/ Reaches(a) => arrived' \in [Alert -> 0..MaxAttempts + 2]
         /\ UNCHANGED answered \/ Answers(a) => answered' \in [Alert -> 0..2]
<1> USE Numbers DEF TypeOK
<1>1. ASSUME NEW b \in Alert
      PROVE  /\ Capped(arrived[b], MaxAttempts + 1) \in 0..MaxAttempts + 2
             /\ Capped(answered[b], 1) \in 0..2
  BY DEF Capped
<1>2. Reaches(a) => arrived' \in [Alert -> 0..MaxAttempts + 2]
  BY <1>1 DEF Reaches
<1>3. Answers(a) => answered' \in [Alert -> 0..2]
  BY <1>1 DEF Answers
<1> QED
  BY <1>2, <1>3

(* What a notifier that ends its call, or goes on to its own alert, leaves *)
(* of the variables it has to itself.                                      *)
Places == {"idle", "resend", "swap", "send", "read", "append", "install"}

OwnFits ==
  /\ pc \in [Notifier -> Places]
  /\ alert \in [Notifier -> Alert \cup {NoAlert}]
  /\ now \in [Notifier -> 0..MaxTime]

(* Whoever is past its own send has an alert about an order. *)
Waiting == \A n \in Notifier : pc[n] = "read" => alert[n] \in Alert

IInv == TypeOK /\ Waiting

LEMMA FinishFits ==
  ASSUME OwnFits, Waiting, NEW n \in Notifier, Finish(n)
  PROVE  OwnFits' /\ Waiting'
BY Numbers DEF OwnFits, Places, Waiting, Finish, Goto

LEMMA ProceedFits ==
  ASSUME OwnFits, Waiting, NEW n \in Notifier, NEW r, Proceed(n, r)
  PROVE  OwnFits' /\ Waiting'
<1>1. CASE r
  BY <1>1 DEF Proceed, OwnFits, Places, Waiting, Goto
<1>2. CASE ~r
  BY <1>2, FinishFits DEF Proceed
<1> QED
  BY <1>1, <1>2

-----------------------------------------------------------------------------
LEMMA TypeStep == IInv /\ [Next]_vars => TypeOK' /\ Waiting'
<1> SUFFICES ASSUME IInv, [Next]_vars PROVE TypeOK' /\ Waiting'
  OBVIOUS
<1> USE Numbers DEF IInv, TypeOK, Waiting, local, history
<1>0. OwnFits /\ Waiting
  BY DEF OwnFits, Places
<1>1. ASSUME NEW n \in Notifier, Resend(n)
      PROVE  TypeOK' /\ Waiting'
  <2>1. todo[n] \in Seq(Entry) /\ todo[n] # <<>> /\ kept[n] \in Seq(Entry) /\ now[n] \in Nat
    BY <1>1, Numbers DEF Resend
  <2>2. Head(todo[n]) \in Entry /\ Tail(todo[n]) \in Seq(Entry)
    BY <2>1
  <2> DEFINE e == Head(todo[n])
  <2>3. e.alert \in Alert
    BY <2>2 DEF Entry
  <2>4. todo' = [todo EXCEPT ![n] = Tail(todo[n])]
    BY <1>1 DEF Resend
  <2>5. todo' \in [Notifier -> Seq(Entry)]
    BY <2>2, <2>4
  <2>6. kept' \in [Notifier -> Seq(Entry)]
    <3>1. CASE UNCHANGED kept
      BY <3>1
    <3>2. CASE ~UNCHANGED kept
      <4>1. IsAlive(e, now[n]) /\ IsAlive(Tried(e), now[n])
            /\ kept' = [kept EXCEPT ![n] = Append(kept[n], Tried(e))]
        BY <1>1, <3>2 DEF Resend, Arrives, Fails
      <4>2. Append(kept[n], Tried(e)) \in Seq(Entry)
        BY <2>1, <2>2, <4>1, TriedFits
      <4> QED
        BY <4>1, <4>2
    <3> QED
      BY <3>1, <3>2
  <2>7. tries' \in [Alert -> 0..MaxAttempts + 1]
    <3> DEFINE T2 == 0..MaxAttempts + 1
               b  == e.alert
               d  == Capped(tries[b], MaxAttempts)
    <3>1. tries \in [Alert -> T2] /\ b \in Alert
      BY <2>3
    <3>2. d \in T2
      BY <2>3, CapFits, Numbers
    <3>3. tries' = tries \/ tries' = [tries EXCEPT ![b] = d]
      BY <1>1, Zenon DEF Resend, Arrives, Fails
    <3> HIDE DEF T2, b, d
    <3>4. tries' \in [Alert -> T2]
      BY <3>1, <3>2, <3>3
    <3> QED
      BY <3>4 DEF T2
  <2>8. arrived' \in [Alert -> 0..MaxAttempts + 2] /\ answered' \in [Alert -> 0..2]
    <3>1. UNCHANGED arrived \/ Reaches(e.alert)
      BY <1>1, Zenon DEF Resend, Arrives, Fails, MayReach
    <3>2. UNCHANGED answered \/ Answers(e.alert)
      BY <1>1, Zenon DEF Resend, Arrives, Fails
    <3> QED
      BY <3>1, <3>2, CountsFit
  <2> QED
    BY <1>1, <2>5, <2>6, <2>7, <2>8, Zenon DEF Resend
<1>2. ASSUME NEW n \in Notifier, WriteTmp(n)
      PROVE  TypeOK' /\ Waiting'
  BY <1>2 DEF WriteTmp, Goto
<1>3. ASSUME NEW n \in Notifier, Swap(n)
      PROVE  TypeOK' /\ Waiting'
  <2>1. OwnFits' /\ Waiting'
    BY <1>0, <1>3, ProceedFits DEF Swap
  <2>2. file' \in Seq(Entry) /\ (tmp' = NoFile \/ tmp' \in Seq(Entry))
    BY <1>3 DEF Swap
  <2> QED
    BY <1>3, <2>1, <2>2, Zenon DEF Swap, OwnFits, Places
<1>4. ASSUME NEW n \in Notifier, SendSucceeds(n)
      PROVE  TypeOK' /\ Waiting'
  <2>1. OwnFits' /\ Waiting'
    BY <1>0, <1>4, FinishFits DEF SendSucceeds
  <2>2. arrived' \in [Alert -> 0..MaxAttempts + 2] /\ answered' \in [Alert -> 0..2]
    BY <1>4, CountsFit DEF SendSucceeds
  <2> QED
    BY <1>4, <2>1, <2>2, Zenon DEF SendSucceeds, OwnFits, Places
<1>5. ASSUME NEW n \in Notifier, SendFails(n)
      PROVE  TypeOK' /\ Waiting'
  <2>1. OwnFits' /\ Waiting'
    <3>1. CASE alert[n] \in Alert
      BY <1>0, <1>5, <3>1 DEF SendFails, OwnFits, Places, Goto
    <3>2. CASE alert[n] \notin Alert
      BY <1>0, <1>5, <3>2, FinishFits DEF SendFails
    <3> QED
      BY <3>1, <3>2
  <2>2. arrived' \in [Alert -> 0..MaxAttempts + 2]
    BY <1>5, CountsFit DEF SendFails, MayReach
  <2> QED
    BY <1>5, <2>1, <2>2, Zenon DEF SendFails, OwnFits, Places
<1>6. ASSUME NEW n \in Notifier, ReadToEnqueue(n)
      PROVE  TypeOK' /\ Waiting'
  <2>1. [alert |-> alert[n], at |-> now[n], attempts |-> 0] \in Entry
    BY <1>6, EntryFits DEF ReadToEnqueue
  <2>2. kept' \in [Notifier -> Seq(Entry)]
    BY <1>6, <2>1 DEF ReadToEnqueue
  <2>3. OwnFits' /\ Waiting'
    BY <1>0, <1>6 DEF ReadToEnqueue, OwnFits, Places, Goto
  <2> QED
    BY <1>6, <2>2, <2>3, Zenon DEF ReadToEnqueue, OwnFits, Places
<1>7. ASSUME NEW n \in Notifier, WriteFails(n)
      PROVE  TypeOK' /\ Waiting'
  <2>1. OwnFits' /\ Waiting'
    BY <1>0, <1>7, ProceedFits DEF WriteFails
  <2>2. kept' \in [Notifier -> Seq(Entry)]
    BY <1>7 DEF WriteFails
  <2>3. tmp' = NoFile \/ tmp' \in Seq(Entry)
    <3>1. tmp' = tmp \/ tmp' = <<>>
      BY <1>7, Zenon DEF WriteFails
    <3>2. <<>> \in Seq(Entry)
      OBVIOUS
    <3> QED
      BY <3>1, <3>2, Zenon
  <2>4. mishaps' \in 0..MaxMishaps
    BY <1>7 DEF WriteFails, Mishap
  <2> QED
    BY <1>7, <2>1, <2>2, <2>3, <2>4, Zenon DEF WriteFails, Mishap, OwnFits, Places
<1>8. ASSUME NEW n \in Notifier, Crash(n)
      PROVE  TypeOK' /\ Waiting'
  BY <1>8 DEF Crash, Mishap, Stopped
<1>9. ASSUME NEW n \in Notifier, NEW a \in Alert \cup {NoAlert}, Notify(n, a)
      PROVE  TypeOK' /\ Waiting'
  <2>1. OwnFits' /\ Waiting'
    BY <1>0, <1>9 DEF Notify, Goto, OwnFits, Places
  <2>2. todo' \in [Notifier -> Seq(Entry)] /\ kept' \in [Notifier -> Seq(Entry)]
    BY <1>9 DEF Notify
  <2>3. raised' \subseteq Alert /\ since' \in [Alert -> 0..MaxTime] /\ alone' \in BOOLEAN
    BY <1>9 DEF Notify
  <2> QED
    BY <1>9, <2>1, <2>2, <2>3, Zenon DEF Notify, OwnFits, Places
<1>10. CASE Reboot
  BY <1>10 DEF Reboot, Mishap, Stopped
<1>11. CASE Tick
  BY <1>11 DEF Tick
<1>12. CASE UNCHANGED vars
  BY <1>12 DEF vars
<1> HIDE DEF IInv, TypeOK, Waiting
<1> QED
  BY <1>1, <1>2, <1>3, <1>4, <1>5, <1>6, <1>7, <1>8, <1>9, <1>10, <1>11, <1>12
  DEF Next, Step

LEMMA Invariant == Spec => []IInv
<1>1. Init => IInv
  BY Numbers DEF Init, IInv, TypeOK, Waiting
<1>2. IInv /\ [Next]_vars => IInv'
  BY TypeStep DEF IInv
<1> QED
  BY <1>1, <1>2, PTL DEF Spec

(* Every variable keeps its type; no entry of the file was tried more than *)
(* OUTBOX_MAX_ATTEMPTS times (slack_outbox.py:79-90).                      *)
THEOREM TypeCorrect == Spec => []TypeOK
<1>1. IInv => TypeOK
  BY DEF IInv
<1> QED
  BY <1>1, Invariant, PTL

-----------------------------------------------------------------------------
(* What is known of the alerts. *)
Known == [raised |-> raised, answered |-> answered, tries |-> tries, since |-> since, clock |-> clock]

Has(p, a) == \E i \in DOMAIN p : p[i].alert = a

Distinct(p) == \A i, j \in DOMAIN p : p[i].alert = p[j].alert => i = j

(* An entry is as old, and was tried as often, as its alert; which Slack   *)
(* has not confirmed.                                                      *)
IsTrue(e, k) ==
  /\ e.alert \in k.raised /\ k.answered[e.alert] = 0
  /\ e.at = k.since[e.alert] /\ e.attempts = k.tries[e.alert]

AllTrue(p, k) == \A i \in DOMAIN p : IsTrue(p[i], k)

Done(a, k) == k.answered[a] > 0 \/ k.tries[a] = MaxAttempts \/ k.clock > k.since[a] + Ttl

(* A notifier's entries: p and q hold the alerts, each of them once, that  *)
(* were raised and are not done with; but for b, its own, which has not    *)
(* been sent.                                                              *)
Carries(p, q, b, k) ==
  /\ Distinct(p) /\ Distinct(q)
  /\ \A a \in Alert : ~(Has(p, a) /\ Has(q, a))
  /\ AllTrue(p, k) /\ AllTrue(q, k)
  /\ \A a \in k.raised \ {b} : Done(a, k) \/ Has(p, a) \/ Has(q, a)
  /\ ~Has(p, b) /\ ~Has(q, b)

OneAtATime == \A m, n \in Notifier : pc[m] # "idle" /\ pc[n] # "idle" => m = n

Unraised == \A a \in Alert \ raised : answered[a] = 0 /\ tries[a] = 0

Unsent ==
  \A n \in Notifier :
    /\ now[n] <= clock
    /\ pc[n] \in {"resend", "swap", "send", "read"} /\ alert[n] \in Alert
       => /\ alert[n] \in raised /\ since[alert[n]] = now[n]
          /\ answered[alert[n]] = 0 /\ tries[alert[n]] = 0

Hand(n) ==
  /\ pc[n] = "resend" => Carries(kept[n], todo[n], alert[n], Known)
  /\ pc[n] = "swap" => tmp # NoFile /\ Carries(tmp, <<>>, alert[n], Known)
  /\ pc[n] \in {"send", "read"} => Carries(file, <<>>, alert[n], Known)
  /\ pc[n] = "append" => Carries(kept[n], <<>>, NoAlert, Known)
  /\ pc[n] = "install" => tmp # NoFile /\ Carries(tmp, <<>>, NoAlert, Known)

InHand ==
  /\ (\A n \in Notifier : pc[n] = "idle") => Carries(file, <<>>, NoAlert, Known)
  /\ \A n \in Notifier : Hand(n)

AtMost == \A a \in Alert : answered[a] <= 1 /\ tries[a] <= MaxAttempts

Orderly == OneAtATime /\ Unraised /\ Unsent /\ InHand /\ AtMost

(* Notifiers that do not overlap, and no mishap: the outbox is in order. *)
InOrder == Undisturbed => Orderly

-----------------------------------------------------------------------------
LEMMA TailHas ==
  ASSUME NEW q \in Seq(Entry), q # <<>>, NEW k
  PROVE  LET e == Head(q)
             t == Tail(q)
         IN  /\ e \in Entry /\ t \in Seq(Entry)
             /\ \A a : Has(q, a) <=> a = e.alert \/ Has(t, a)
             /\ Distinct(q) => Distinct(t) /\ ~Has(t, e.alert)
             /\ AllTrue(q, k) => AllTrue(t, k) /\ IsTrue(e, k)
<1> DEFINE e == Head(q)
           t == Tail(q)
<1>1. Len(q) \in Nat /\ Len(q) >= 1 /\ DOMAIN q = 1..Len(q)
  BY EmptySeq, LenProperties
<1>2. /\ e = q[1] /\ e \in Entry /\ t \in Seq(Entry) /\ Len(t) = Len(q) - 1
      /\ \A i \in 1..Len(t) : t[i] = q[i + 1]
  BY <1>1, HeadTailProperties, ElementOfSeq
<1>3. DOMAIN t = 1..Len(t)
  BY <1>2, LenProperties
<1> HIDE DEF e, t
<1>4. \A i \in DOMAIN t : i \in Nat /\ i + 1 \in DOMAIN q /\ t[i] = q[i + 1] /\ i + 1 # 1
  BY <1>1, <1>2, <1>3
<1>5. \A j \in DOMAIN q : j = 1 \/ (j - 1 \in DOMAIN t /\ t[j - 1] = q[j])
  BY <1>1, <1>2, <1>3
<1>6. 1 \in DOMAIN q
  BY <1>1
<1>7. \A a : Has(q, a) <=> a = e.alert \/ Has(t, a)
  <2>1. ASSUME NEW a, Has(q, a) PROVE a = e.alert \/ Has(t, a)
    <3>1. PICK j \in DOMAIN q : q[j].alert = a
      BY <2>1 DEF Has
    <3> QED
      BY <1>2, <1>5, <3>1 DEF Has
  <2>2. ASSUME NEW a, a = e.alert \/ Has(t, a) PROVE Has(q, a)
    BY <1>2, <1>4, <1>6, <2>2 DEF Has
  <2> QED
    BY <2>1, <2>2
<1>8. Distinct(q) => ~Has(t, e.alert)
  BY <1>2, <1>4, <1>6 DEF Distinct, Has
<1>9. ASSUME Distinct(q) PROVE Distinct(t)
  <2>1. \A i, j \in DOMAIN t : t[i].alert = t[j].alert => i + 1 = j + 1
    BY <1>4, <1>9 DEF Distinct
  <2> QED
    BY <1>4, <2>1 DEF Distinct
<1>10. AllTrue(q, k) => AllTrue(t, k) /\ IsTrue(e, k)
  BY <1>2, <1>4, <1>6 DEF AllTrue
<1> QED
  BY <1>2, <1>7, <1>8, <1>9, <1>10 DEF e, t

LEMMA AppendHas ==
  ASSUME NEW p \in Seq(Entry), NEW e \in Entry, NEW k
  PROVE  LET q == Append(p, e)
         IN  /\ q \in Seq(Entry)
             /\ \A a : Has(q, a) <=> a = e.alert \/ Has(p, a)
             /\ Distinct(p) /\ ~Has(p, e.alert) => Distinct(q)
             /\ AllTrue(p, k) /\ IsTrue(e, k) => AllTrue(q, k)
<1> DEFINE q == Append(p, e)
           n == Len(p) + 1
<1>1. /\ Len(p) \in Nat /\ DOMAIN p = 1..Len(p) /\ DOMAIN q = 1..n /\ q \in Seq(Entry)
      /\ q[n] = e /\ \A i \in 1..Len(p) : q[i] = p[i]
  BY AppendProperties, LenProperties
<1> HIDE DEF q
<1>2. DOMAIN q = DOMAIN p \cup {n} /\ \A i \in DOMAIN p : q[i] = p[i]
  BY <1>1
<1> HIDE DEF n
<1>3. \A a : Has(q, a) <=> a = e.alert \/ Has(p, a)
  BY <1>1, <1>2 DEF Has
<1>4. Distinct(p) /\ ~Has(p, e.alert) => Distinct(q)
  BY <1>1, <1>2 DEF Distinct, Has
<1>5. AllTrue(p, k) /\ IsTrue(e, k) => AllTrue(q, k)
  BY <1>1, <1>2 DEF AllTrue
<1> QED
  BY <1>1, <1>3, <1>4, <1>5 DEF q

LEMMA NothingCarried == ASSUME NEW k PROVE Distinct(<<>>) /\ AllTrue(<<>>, k) /\ \A a : ~Has(<<>>, a)
BY DEF Distinct, AllTrue, Has

(* Time alone takes no alert away. *)
LEMMA LaterCarries ==
  ASSUME NEW p, NEW q, NEW b, NEW k, NEW m, Carries(p, q, b, k),
         m.raised = k.raised, m.answered = k.answered, m.tries = k.tries, m.since = k.since,
         k.raised \subseteq Alert, k.since \in [Alert -> Nat],
         k.clock \in Nat, m.clock \in Nat, k.clock <= m.clock
  PROVE  Carries(p, q, b, m)
<1>1. AllTrue(p, m) /\ AllTrue(q, m)
  BY DEF Carries, AllTrue, IsTrue
<1>2. \A a \in k.raised : Done(a, k) => Done(a, m)
  <2>1. \A a \in k.raised : k.since[a] \in Nat
    OBVIOUS
  <2> QED
    BY <2>1, OutboxAssumption DEF Done
<1> QED
  BY <1>1, <1>2 DEF Carries

-----------------------------------------------------------------------------
(* The types the steps below need. *)
LEMMA TypesOf ==
  ASSUME IInv
  PROVE  /\ raised \subseteq Alert /\ since \in [Alert -> Nat]
         /\ clock \in Nat /\ now \in [Notifier -> Nat]
         /\ tries \in [Alert -> Nat] /\ answered \in [Alert -> Nat]
         /\ todo \in [Notifier -> Seq(Entry)] /\ kept \in [Notifier -> Seq(Entry)]
         /\ file \in Seq(Entry)
         /\ pc \in [Notifier -> Places]
         /\ NoAlert \notin Alert /\ alert \in [Notifier -> Alert \cup {NoAlert}]
         /\ mishaps \in Nat
<1> USE Numbers DEF IInv, TypeOK, Places
<1>1. since \in [Alert -> Nat] /\ now \in [Notifier -> Nat] /\ tries \in [Alert -> Nat]
  OBVIOUS
<1>2. clock \in Nat /\ mishaps \in Nat
  OBVIOUS
<1>5. answered \in [Alert -> Nat]
  <2>1. answered \in [Alert -> 0..2] /\ 0..2 \subseteq Nat
    OBVIOUS
  <2> QED
    BY <2>1, Zenon
<1>3. raised \subseteq Alert /\ file \in Seq(Entry) /\ pc \in [Notifier -> Places]
  OBVIOUS
<1>4. NoAlert \notin Alert /\ alert \in [Notifier -> Alert \cup {NoAlert}]
  OBVIOUS
<1> QED
  BY <1>1, <1>2, <1>3, <1>4, <1>5

LEMMA KnownFields ==
  /\ Known.raised = raised /\ Known.answered = answered /\ Known.tries = tries
  /\ Known.since = since /\ Known.clock = clock
BY DEF Known

(* The only notifier at work has made a step.                              *)
LEMMA HandOver ==
  ASSUME IInv, OneAtATime, NEW n \in Notifier, pc[n] # "idle",
         pc' \in [Notifier -> Places],
         \A m \in Notifier : m # n => pc'[m] = pc[m],
         pc'[n] = "idle" => Carries(file', <<>>, NoAlert, Known'),
         pc'[n] # "idle" => Hand(n)'
  PROVE  OneAtATime' /\ InHand'
<1>1. \A m \in Notifier : m # n => pc'[m] = "idle"
  BY DEF OneAtATime
<1>2. OneAtATime'
  BY <1>1 DEF OneAtATime
<1>3. \A m \in Notifier : m # n => Hand(m)'
  BY <1>1 DEF Hand
<1>4. pc'[n] = "idle" => Hand(n)'
  BY DEF Hand
<1> QED
  BY <1>2, <1>3, <1>4 DEF InHand

LEMMA OrderlyInitially == Init => InOrder
<1> SUFFICES ASSUME Init PROVE Orderly
  BY DEF InOrder
<1>1. OneAtATime /\ Unraised /\ Unsent /\ AtMost
  BY Numbers DEF Init, OneAtATime, Unraised, Unsent, AtMost
<1>2. Carries(<<>>, <<>>, NoAlert, Known)
  <2>1. Known.raised = {}
    BY KnownFields DEF Init
  <2> QED
    BY <2>1, NothingCarried DEF Carries
<1>3. InHand
  BY <1>2 DEF InHand, Init, Hand
<1> QED
  BY <1>1, <1>3 DEF Orderly

(* A notifier that is alone starts with what the file holds. *)
LEMMA OrderlyNotify ==
  ASSUME IInv, Orderly, NEW n \in Notifier, NEW a \in Alert \cup {NoAlert}, Notify(n, a), alone'
  PROVE  Orderly'
<1>1. /\ \A m \in Notifier : pc[m] = "idle"
      /\ a \notin raised /\ raised' = raised \cup ({a} \cap Alert)
      /\ alert' = [alert EXCEPT ![n] = a] /\ now' = [now EXCEPT ![n] = clock]
      /\ todo' = [todo EXCEPT ![n] = file] /\ kept' = [kept EXCEPT ![n] = <<>>]
      /\ pc' = [pc EXCEPT ![n] = "resend"]
      /\ since' = [b \in Alert |-> IF b = a THEN clock ELSE since[b]]
      /\ UNCHANGED <<clock, file, tmp, tries, answered, mishaps>>
  BY DEF Notify, Goto
<1>2. /\ pc'[n] = "resend" /\ alert'[n] = a /\ now'[n] = clock /\ kept'[n] = <<>> /\ todo'[n] = file
      /\ \A m \in Notifier : m # n => pc'[m] = "idle" /\ now'[m] = now[m] /\ alert'[m] = alert[m]
  <2>1. /\ n \in DOMAIN pc /\ n \in DOMAIN alert /\ n \in DOMAIN now
        /\ n \in DOMAIN todo /\ n \in DOMAIN kept
    BY TypesOf
  <2> QED
    BY <1>1, <2>1, TypesOf
<1>3. OneAtATime'
  BY <1>2 DEF OneAtATime
<1>4. Unraised' /\ AtMost'
  BY <1>1 DEF Orderly, Unraised, AtMost
<1>5. Unsent'
  BY <1>1, <1>2, TypesOf DEF Orderly, Unsent, Unraised
<1>6. Carries(file, <<>>, NoAlert, Known)
  BY <1>1 DEF Orderly, InHand
<1>7. Carries(<<>>, file, a, Known')
  <2>1. \A b \in raised : b # a /\ since'[b] = since[b]
    BY <1>1, TypesOf
  <2>2. AllTrue(file, Known')
    <3>1. AllTrue(file, Known)
      BY <1>6 DEF Carries
    <3> QED
      BY <1>1, <2>1, <3>1, KnownFields DEF AllTrue, IsTrue, Known
  <2>3. \A b \in raised : Done(b, Known) => Done(b, Known')
    BY <1>1, <2>1 DEF Done, Known
  <2>4. ~Has(file, a)
    BY <1>1, <1>6, KnownFields DEF Carries, AllTrue, IsTrue, Has
  <2>5. Known'.raised \ {a} = raised
    BY <1>1, TypesOf, KnownFields DEF Known
  <2>6. NoAlert \notin raised
    BY TypesOf
  <2> QED
    BY <1>6, <2>2, <2>3, <2>4, <2>5, <2>6, KnownFields, NothingCarried DEF Carries
<1>8. InHand'
  <2>1. Hand(n)'
    BY <1>2, <1>7 DEF Hand
  <2>2. \A m \in Notifier : Hand(m)'
    BY <1>2, <2>1 DEF Hand
  <2> QED
    BY <1>2, <2>2 DEF InHand
<1> QED
  BY <1>3, <1>4, <1>5, <1>8 DEF Orderly

LEMMA OrderlyTick == ASSUME IInv, Orderly, Tick PROVE Orderly'
<1>1. clock' = clock + 1 /\ UNCHANGED <<file, tmp, pc, alert, now, todo, kept, raised, tries, answered, since>>
  BY DEF Tick, local, history
<1>2. \A p, q, b : Carries(p, q, b, Known) => Carries(p, q, b, Known')
  <2>1. clock \in Nat /\ clock' \in Nat /\ clock <= clock'
    BY <1>1, TypesOf
  <2>2. /\ Known'.raised = raised /\ Known'.answered = answered /\ Known'.tries = tries
        /\ Known'.since = since /\ Known'.clock = clock'
    BY <1>1 DEF Known
  <2> QED
    BY <2>1, <2>2, LaterCarries, KnownFields, TypesOf
<1>3. InHand'
  <2>1. \A n \in Notifier : Hand(n)'
    BY <1>1, <1>2 DEF Orderly, InHand, Hand
  <2>2. (\A n \in Notifier : pc'[n] = "idle") => Carries(file', <<>>, NoAlert, Known')
    BY <1>1, <1>2 DEF Orderly, InHand
  <2> QED
    BY <2>1, <2>2 DEF InHand
<1>4. OneAtATime' /\ Unraised' /\ AtMost'
  BY <1>1 DEF Orderly, OneAtATime, Unraised, AtMost
<1>5. Unsent'
  BY <1>1, TypesOf DEF Orderly, Unsent
<1> QED
  BY <1>3, <1>4, <1>5 DEF Orderly

-----------------------------------------------------------------------------
(* An entry that was tried is done with, or carried on.                    *)
LEMMA TriedCarries ==
  ASSUME NEW p \in Seq(Entry), NEW q \in Seq(Entry), q # <<>>, NEW b, NEW k, NEW m,
         Carries(p, q, b, k), k.raised \subseteq Alert,
         m.raised = k.raised, m.since = k.since, m.clock = k.clock,
         \A a \in Alert : a # Head(q).alert => m.answered[a] = k.answered[a] /\ m.tries[a] = k.tries[a]
  PROVE  /\ Done(Head(q).alert, m) => Carries(p, Tail(q), b, m)
         /\ \A e \in Entry : e.alert = Head(q).alert /\ IsTrue(e, m)
                               => Carries(Append(p, e), Tail(q), b, m)
<1> DEFINE h == Head(q)
           t == Tail(q)
<1>1. /\ h \in Entry /\ t \in Seq(Entry)
      /\ \A a : Has(q, a) <=> a = h.alert \/ Has(t, a)
      /\ Distinct(t) /\ ~Has(t, h.alert) /\ AllTrue(t, k) /\ IsTrue(h, k)
  BY TailHas DEF Carries
<1>2. h.alert \in Alert /\ h.alert \in k.raised /\ h.alert # b
  BY <1>1 DEF Carries, IsTrue, Entry
<1> HIDE DEF h, t
<1>3. ~Has(p, h.alert)
  BY <1>1, <1>2 DEF Carries
<1>4. AllTrue(p, m) /\ AllTrue(t, m)
  <2>1. \A i \in DOMAIN p : p[i].alert # h.alert /\ p[i].alert \in Alert
    BY <1>3 DEF Has, Carries, AllTrue, IsTrue
  <2>2. \A i \in DOMAIN t : t[i].alert # h.alert /\ t[i].alert \in Alert
    BY <1>1 DEF Has, AllTrue, IsTrue
  <2>3. AllTrue(p, k)
    BY DEF Carries
  <2> QED
    BY <1>1, <2>1, <2>2, <2>3 DEF AllTrue, IsTrue, h
<1>5. \A a \in k.raised \ {b} : a = h.alert \/ Done(a, m) \/ Has(p, a) \/ Has(t, a)
  <2>1. \A a \in k.raised \ {b} : Done(a, k) \/ Has(p, a) \/ Has(q, a)
    BY DEF Carries
  <2>2. \A a \in k.raised : a # h.alert /\ Done(a, k) => Done(a, m)
    BY DEF Done, h
  <2> QED
    BY <1>1, <2>1, <2>2
<1>6. ASSUME Done(h.alert, m) PROVE Carries(p, t, b, m)
  BY <1>1, <1>4, <1>5, <1>6 DEF Carries
<1>7. ASSUME NEW e \in Entry, e.alert = h.alert, IsTrue(e, m)
      PROVE  Carries(Append(p, e), t, b, m)
  <2>1. /\ \A a : Has(Append(p, e), a) <=> a = h.alert \/ Has(p, a)
        /\ Distinct(Append(p, e)) /\ AllTrue(Append(p, e), m)
    BY <1>3, <1>4, <1>7, AppendHas DEF Carries
  <2> QED
    BY <1>1, <1>2, <1>4, <1>5, <2>1 DEF Carries
<1> QED
  BY <1>6, <1>7 DEF h, t

LEMMA OrderlyResend ==
  ASSUME IInv, Orderly, NEW n \in Notifier, Resend(n)
  PROVE  Orderly'
<1> DEFINE e == Head(todo[n])
           b == alert[n]
<1>1. /\ pc[n] = "resend" /\ todo[n] # <<>> /\ todo' = [todo EXCEPT ![n] = Tail(todo[n])]
      /\ UNCHANGED <<clock, file, tmp, pc, alert, now, raised, since>>
      /\ IF IsAlive(e, now[n]) THEN Arrives(n, e) \/ Fails(n, e)
         ELSE UNCHANGED <<answered, kept, tries>>
  BY Zenon DEF Resend
<1>2. Carries(kept[n], todo[n], b, Known)
  BY <1>1 DEF Orderly, InHand, Hand
<1>3. kept[n] \in Seq(Entry) /\ todo[n] \in Seq(Entry) /\ now[n] \in Nat /\ todo'[n] = Tail(todo[n])
  BY <1>1, TypesOf
<1>4. e \in Entry /\ IsTrue(e, Known)
  BY <1>1, <1>2, <1>3, TailHas DEF Carries
<1>5. /\ e.alert \in raised /\ e.alert \in Alert /\ answered[e.alert] = 0
      /\ e.at = since[e.alert] /\ e.attempts = tries[e.alert]
      /\ e.attempts \in Nat /\ e.attempts <= MaxAttempts /\ e.at \in Nat
  BY <1>4, KnownFields, Numbers DEF IsTrue, Entry
<1>6. e.alert # b
  BY <1>1, <1>2, <1>3, TailHas DEF Carries
<1> HIDE DEF e
<1>7. /\ \A a \in Alert : a # e.alert => answered'[a] = answered[a] /\ tries'[a] = tries[a]
      /\ answered'[e.alert] <= 1 /\ tries'[e.alert] <= MaxAttempts
      /\ \/ Done(e.alert, Known') /\ kept'[n] = kept[n]
         \/ /\ kept'[n] = Append(kept[n], Tried(e)) /\ Tried(e) \in Entry
            /\ Tried(e).alert = e.alert /\ IsTrue(Tried(e), Known')
  <2>1. /\ Known'.raised = raised /\ Known'.answered = answered' /\ Known'.tries = tries'
        /\ Known'.since = since /\ Known'.clock = clock
    BY <1>1 DEF Known
  <2>2. CASE ~IsAlive(e, now[n])
    <3>1. UNCHANGED <<answered, kept, tries>>
      BY <1>1, <2>2 
    <3>2. now[n] <= clock /\ clock \in Nat /\ Ttl \in Nat
      BY TypesOf, Numbers DEF Orderly, Unsent
    <3>3. now[n] > e.at + Ttl \/ e.attempts = MaxAttempts
      BY <1>3, <1>5, <2>2, Numbers DEF IsAlive
    <3>4. Done(e.alert, Known')
      BY <1>3, <1>5, <2>1, <3>1, <3>2, <3>3 DEF Done
    <3> QED
      BY <1>5, <3>1, <3>4
  <2>3. CASE IsAlive(e, now[n]) /\ Arrives(n, e)
    <3>1. Answers(e.alert) /\ UNCHANGED <<kept, tries>>
      BY <2>3 DEF Arrives
    <3>2. Capped(answered[e.alert], 1) = 1
      BY <1>5 DEF Capped
    <3>3. answered'[e.alert] = 1 /\ \A a \in Alert : a # e.alert => answered'[a] = answered[a]
      BY <1>5, <3>1, <3>2 DEF Answers
    <3>4. Done(e.alert, Known')
      BY <2>1, <3>3 DEF Done
    <3> QED
      BY <1>5, <3>1, <3>3, <3>4
  <2>4. CASE IsAlive(e, now[n]) /\ Fails(n, e)
    <3>1. /\ tries' = [tries EXCEPT ![e.alert] = Capped(tries[e.alert], MaxAttempts)] /\ UNCHANGED answered
          /\ kept' = IF IsAlive(Tried(e), now[n]) THEN [kept EXCEPT ![n] = Append(kept[n], Tried(e))] ELSE kept
      BY <2>4 DEF Fails
    <3>2. e.attempts < MaxAttempts /\ now[n] <= e.at + Ttl
      BY <2>4 DEF IsAlive
    <3>3. Capped(tries[e.alert], MaxAttempts) = e.attempts + 1
      BY <1>5, <3>2, Numbers DEF Capped
    <3>4. tries'[e.alert] = e.attempts + 1 /\ \A a \in Alert : a # e.alert => tries'[a] = tries[a]
      BY <1>5, <3>1, <3>3, TypesOf
    <3>5. e.attempts + 1 <= MaxAttempts
      BY <1>5, <3>2, Numbers
    <3>6. Tried(e) \in Entry
      BY <1>3, <1>4, <2>4, TriedFits
    <3>7. Tried(e).alert = e.alert /\ Tried(e).at = e.at /\ Tried(e).attempts = e.attempts + 1
      BY <1>4 DEF Tried, Entry
    <3>8. CASE IsAlive(Tried(e), now[n])
      <4>1. kept'[n] = Append(kept[n], Tried(e))
        BY <3>1, <3>8, TypesOf
      <4>2. IsTrue(Tried(e), Known')
        BY <1>5, <2>1, <3>1, <3>4, <3>7 DEF IsTrue
      <4> QED
        BY <1>5, <3>1, <3>4, <3>5, <3>6, <3>7, <4>1, <4>2
    <3>9. CASE ~IsAlive(Tried(e), now[n])
      <4>1. e.attempts + 1 = MaxAttempts
        BY <1>5, <3>2, <3>5, <3>7, <3>9, Numbers DEF IsAlive
      <4>2. Done(e.alert, Known')
        BY <2>1, <3>4, <4>1 DEF Done
      <4> QED
        BY <1>5, <3>1, <3>4, <3>5, <3>9, <4>2
    <3> QED
      BY <3>8, <3>9
  <2> QED
    BY <1>1, <2>2, <2>3, <2>4
<1>8. Carries(kept'[n], todo'[n], b, Known')
  <2>1. /\ Known'.raised = Known.raised /\ Known'.since = Known.since /\ Known'.clock = Known.clock
        /\ Known.raised \subseteq Alert
        /\ \A a \in Alert : a # e.alert => /\ Known'.answered[a] = Known.answered[a]
                                          /\ Known'.tries[a] = Known.tries[a]
    BY <1>1, <1>7, KnownFields, TypesOf DEF Known
  <2>2. /\ Done(e.alert, Known') => Carries(kept[n], Tail(todo[n]), b, Known')
        /\ \A x \in Entry : x.alert = e.alert /\ IsTrue(x, Known')
                               => Carries(Append(kept[n], x), Tail(todo[n]), b, Known')
    BY <1>1, <1>2, <1>3, <2>1, TriedCarries DEF e
  <2> QED
    BY <1>3, <1>7, <2>2
<1>9. OneAtATime' /\ InHand'
  <2>1. Hand(n)'
    BY <1>1, <1>8 DEF Hand
  <2>2. pc'[n] # "idle" /\ pc' \in [Notifier -> Places] /\ OneAtATime
    BY <1>1, TypesOf DEF Orderly
  <2> QED
    BY <1>1, <2>1, <2>2, HandOver
<1>10. Unraised' /\ AtMost'
  BY <1>1, <1>5, <1>7 DEF Orderly, Unraised, AtMost
<1>11. Unsent'
  <2>1. \A m \in Notifier : m # n => pc'[m] = "idle"
    BY <1>1 DEF Orderly, OneAtATime
  <2> QED
    BY <1>1, <1>6, <1>7, <2>1 DEF Orderly, Unsent
<1> QED
  BY <1>9, <1>10, <1>11 DEF Orderly

-----------------------------------------------------------------------------
(* The steps of a notifier that change no count of an alert. *)
LEMMA QuietStep ==
  ASSUME IInv, Orderly, NEW n \in Notifier, pc[n] # "idle", NEW place \in Places,
         pc' = [pc EXCEPT ![n] = place],
         UNCHANGED <<clock, raised, tries, answered, since>>,
         UNCHANGED <<alert, now>> \/ (place = "idle" /\ now' = [now EXCEPT ![n] = 0]),
         place \in {"swap", "send", "read"} => pc[n] \in {"resend", "swap", "send", "read"},
         place # "resend",
         Hand(n)', place = "idle" => Carries(file', <<>>, NoAlert, Known)
  PROVE  Orderly'
<1>1. pc'[n] = place /\ \A m \in Notifier : m # n => pc'[m] = "idle"
  BY TypesOf DEF Orderly, OneAtATime
<1>2. Known' = Known
  BY DEF Known
<1>3. OneAtATime' /\ InHand'
  <2>1. pc' \in [Notifier -> Places] /\ OneAtATime
    BY TypesOf DEF Orderly
  <2>2. \A m \in Notifier : m # n => pc'[m] = pc[m]
    BY TypesOf
  <2> QED
    BY <1>1, <1>2, <2>1, <2>2, HandOver
<1>4. Unraised' /\ AtMost'
  BY DEF Orderly, Unraised, AtMost
<1>5. Unsent'
  <2>1. \A m \in Notifier : now'[m] <= clock
    BY TypesOf DEF Orderly, Unsent
  <2>2. ASSUME pc'[n] \in {"resend", "swap", "send", "read"}, alert'[n] \in Alert
        PROVE  /\ alert'[n] \in raised /\ since[alert'[n]] = now'[n]
               /\ answered[alert'[n]] = 0 /\ tries[alert'[n]] = 0
    BY <1>1, <2>2 DEF Orderly, Unsent
  <2> QED
    BY <1>1, <2>1, <2>2 DEF Unsent
<1> QED
  BY <1>3, <1>4, <1>5 DEF Orderly

LEMMA OrderlyWrite ==
  ASSUME IInv, Orderly, NEW n \in Notifier, WriteTmp(n) \/ Swap(n)
  PROVE  Orderly'
<1>1. CASE WriteTmp(n) /\ pc[n] = "resend"
  <2>1. /\ todo[n] = <<>> /\ tmp' = kept[n] /\ pc' = [pc EXCEPT ![n] = "swap"]
        /\ UNCHANGED <<clock, raised, tries, answered, since, alert, now>>
    BY <1>1 DEF WriteTmp, CanWrite, Goto, history
  <2>2. Carries(kept[n], <<>>, alert[n], Known) /\ kept[n] # NoFile
    BY <1>1, <2>1, TypesOf, OutboxAssumption DEF Orderly, InHand, Hand
  <2>3. Known' = Known /\ pc'[n] = "swap"
    BY <2>1, TypesOf DEF Known
  <2>4. Hand(n)'
    BY <2>1, <2>2, <2>3 DEF Hand
  <2> QED
    BY <1>1, <2>1, <2>4, QuietStep DEF Places
<1>2. CASE WriteTmp(n) /\ pc[n] = "append"
  <2>1. /\ tmp' = kept[n] /\ pc' = [pc EXCEPT ![n] = "install"]
        /\ UNCHANGED <<clock, raised, tries, answered, since, alert, now>>
    BY <1>2 DEF WriteTmp, Goto, history
  <2>2. Carries(kept[n], <<>>, NoAlert, Known) /\ kept[n] # NoFile
    BY <1>2, TypesOf, OutboxAssumption DEF Orderly, InHand, Hand
  <2>3. Known' = Known /\ pc'[n] = "install"
    BY <2>1, TypesOf DEF Known
  <2>4. Hand(n)'
    BY <2>1, <2>2, <2>3 DEF Hand
  <2> QED
    BY <1>2, <2>1, <2>4, QuietStep DEF Places
<1>3. CASE Swap(n) /\ pc[n] = "swap"
  <2>1. tmp # NoFile /\ Carries(tmp, <<>>, alert[n], Known)
    BY <1>3 DEF Orderly, InHand, Hand
  <2>2. /\ file' = tmp /\ pc' = [pc EXCEPT ![n] = "send"]
        /\ UNCHANGED <<clock, raised, tries, answered, since, alert, now>>
    BY <1>3, <2>1 DEF Swap, Proceed, Goto, history
  <2>3. Known' = Known /\ pc'[n] = "send"
    BY <2>2, TypesOf DEF Known
  <2>4. Hand(n)'
    BY <2>1, <2>2, <2>3 DEF Hand
  <2> QED
    BY <1>3, <2>2, <2>4, QuietStep DEF Places
<1>4. CASE Swap(n) /\ pc[n] = "install"
  <2>1. tmp # NoFile /\ Carries(tmp, <<>>, NoAlert, Known)
    BY <1>4 DEF Orderly, InHand, Hand
  <2>2. /\ file' = tmp /\ pc' = [pc EXCEPT ![n] = "idle"] /\ now' = [now EXCEPT ![n] = 0]
        /\ UNCHANGED <<clock, raised, tries, answered, since>>
    BY <1>4, <2>1 DEF Swap, Proceed, Finish, Goto, history
  <2>3. pc'[n] = "idle"
    BY <2>2, TypesOf
  <2>4. Hand(n)'
    BY <2>3 DEF Hand
  <2> QED
    BY <1>4, <2>1, <2>2, <2>4, QuietStep DEF Places
<1> QED
  BY <1>1, <1>2, <1>3, <1>4 DEF WriteTmp, CanWrite, Swap

LEMMA OrderlyEnqueue ==
  ASSUME IInv, Orderly, NEW n \in Notifier, SendFails(n) \/ ReadToEnqueue(n)
  PROVE  Orderly'
<1> DEFINE b == alert[n]
<1>1. CASE SendFails(n)
  <2>1. Carries(file, <<>>, b, Known) /\ pc[n] = "send" /\ UNCHANGED file
    BY <1>1 DEF SendFails, Orderly, InHand, Hand
  <2>2. CASE b \in Alert
    <3>1. /\ pc' = [pc EXCEPT ![n] = "read"]
          /\ UNCHANGED <<clock, raised, tries, answered, since, alert, now>>
      BY <1>1, <2>2 DEF SendFails, Goto, history
    <3>2. Known' = Known /\ pc'[n] = "read"
      BY <3>1, TypesOf DEF Known
    <3>3. Hand(n)'
      BY <2>1, <3>1, <3>2 DEF Hand
    <3> QED
      BY <2>1, <3>1, <3>3, QuietStep DEF Places
  <2>3. CASE b \notin Alert
    <3>1. /\ pc' = [pc EXCEPT ![n] = "idle"] /\ now' = [now EXCEPT ![n] = 0] /\ b = NoAlert
          /\ UNCHANGED <<clock, raised, tries, answered, since>>
      BY <1>1, <2>3, TypesOf DEF SendFails, Finish, Goto, history
    <3>2. pc'[n] = "idle"
      BY <3>1, TypesOf
    <3>3. Hand(n)'
      BY <3>2 DEF Hand
    <3> QED
      BY <2>1, <3>1, <3>3, QuietStep DEF Places
  <2> QED
    BY <2>2, <2>3
<1>2. CASE ReadToEnqueue(n)
  <2> DEFINE e == [alert |-> b, at |-> now[n], attempts |-> 0]
  <2>1. /\ pc[n] = "read" /\ kept' = [kept EXCEPT ![n] = Append(file, e)]
        /\ pc' = [pc EXCEPT ![n] = "append"]
        /\ UNCHANGED <<clock, raised, tries, answered, since, alert, now>>
    BY <1>2 DEF ReadToEnqueue, Goto, history
  <2>2. b \in Alert /\ e \in Entry
    BY <2>1, EntryFits DEF IInv, Waiting
  <2>3. e.alert = b /\ e.at = now[n] /\ e.attempts = 0
    OBVIOUS
  <2> HIDE DEF e
  <2>4. Carries(file, <<>>, b, Known)
    BY <2>1 DEF Orderly, InHand, Hand
  <2>5. IsTrue(e, Known)
    BY <2>1, <2>2, <2>3, KnownFields DEF IsTrue, Orderly, Unsent
  <2>6. /\ \A a : Has(Append(file, e), a) <=> a = b \/ Has(file, a)
        /\ Distinct(Append(file, e)) /\ AllTrue(Append(file, e), Known)
    BY <2>2, <2>3, <2>4, <2>5, AppendHas, TypesOf DEF Carries
  <2>7. Carries(Append(file, e), <<>>, NoAlert, Known)
    <3>1. ~Has(Append(file, e), NoAlert)
      <4>1. \A i \in DOMAIN Append(file, e) : Append(file, e)[i].alert \in Alert
        BY <2>6, KnownFields, TypesOf DEF AllTrue, IsTrue
      <4> QED
        BY <4>1, TypesOf DEF Has
    <3>2. \A a \in Known.raised \ {NoAlert} : Done(a, Known) \/ Has(Append(file, e), a)
      BY <2>4, <2>6, NothingCarried DEF Carries
    <3> QED
      BY <2>6, <3>1, <3>2, NothingCarried DEF Carries
  <2>8. kept'[n] = Append(file, e) /\ pc'[n] = "append" /\ Known' = Known
    BY <2>1, TypesOf DEF Known
  <2>9. Hand(n)'
    BY <2>7, <2>8 DEF Hand
  <2> QED
    BY <2>1, <2>9, QuietStep DEF Places
<1> QED
  BY <1>1, <1>2

LEMMA OrderlySend ==
  ASSUME IInv, Orderly, NEW n \in Notifier, SendSucceeds(n)
  PROVE  Orderly'
<1> DEFINE b == alert[n]
<1>1. /\ pc[n] = "send" /\ pc' = [pc EXCEPT ![n] = "idle"] /\ now' = [now EXCEPT ![n] = 0]
      /\ Answers(b)
      /\ UNCHANGED <<clock, file, raised, tries, since>>
  BY DEF SendSucceeds, Finish, Goto
<1>2. Carries(file, <<>>, b, Known)
  BY <1>1 DEF Orderly, InHand, Hand
<1>3. /\ b \in Alert => b \in raised /\ answered[b] = 0
      /\ raised \subseteq Alert /\ NoAlert \notin Alert /\ b \in Alert \cup {NoAlert}
  BY <1>1, TypesOf DEF Orderly, Unsent
<1>4. /\ \A a \in Alert : a # b => answered'[a] = answered[a]
      /\ b \in Alert => answered'[b] = 1
  BY <1>1, <1>3 DEF Answers, Capped
<1>5. /\ Known'.raised = raised /\ Known'.answered = answered' /\ Known'.tries = tries
      /\ Known'.since = since /\ Known'.clock = clock
  BY <1>1 DEF Known
<1>6. Carries(file, <<>>, NoAlert, Known')
  <2>1. AllTrue(file, Known) /\ ~Has(file, b)
    BY <1>2 DEF Carries
  <2>2. AllTrue(file, Known')
    BY <1>3, <1>4, <1>5, <2>1, KnownFields DEF AllTrue, IsTrue, Has
  <2>3. ~Has(file, NoAlert)
    BY <1>3, <2>1, KnownFields DEF AllTrue, IsTrue, Has
  <2>4. \A a \in raised : Done(a, Known') \/ Has(file, a)
    <3>1. \A a \in raised \ {b} : Done(a, Known) \/ Has(file, a)
      BY <1>2, KnownFields, NothingCarried DEF Carries
    <3>2. \A a \in raised \ {b} : Done(a, Known) => Done(a, Known')
      BY <1>3, <1>4, <1>5, KnownFields DEF Done
    <3>3. b \in raised => Done(b, Known')
      BY <1>3, <1>4, <1>5 DEF Done
    <3> QED
      BY <3>1, <3>2, <3>3
  <2> QED
    BY <1>2, <1>5, <2>2, <2>3, <2>4, NothingCarried DEF Carries
<1>7. OneAtATime' /\ InHand'
  <2>1. pc'[n] = "idle" /\ pc' \in [Notifier -> Places] /\ OneAtATime
        /\ \A m \in Notifier : m # n => pc'[m] = pc[m]
    BY <1>1, TypesOf DEF Orderly, Places
  <2> QED
    BY <1>1, <1>6, <2>1, HandOver
<1>8. Unraised' /\ AtMost'
  BY <1>1, <1>3, <1>4 DEF Orderly, Unraised, AtMost
<1>9. Unsent'
  <2>1. \A m \in Notifier : pc'[m] = "idle"
    BY <1>1, TypesOf DEF Orderly, OneAtATime
  <2> QED
    BY <1>1, <2>1, TypesOf DEF Orderly, Unsent
<1> QED
  BY <1>7, <1>8, <1>9 DEF Orderly

LEMMA InOrderStep == ASSUME IInv, InOrder, [Next]_vars PROVE InOrder'
<1> SUFFICES ASSUME Undisturbed' PROVE Orderly'
  BY DEF InOrder
<1>1. alone' /\ mishaps' = 0 /\ mishaps \in Nat
  BY TypesOf DEF Undisturbed
<1>2. ASSUME NEW kind, Mishap(kind) PROVE FALSE
  BY <1>1, <1>2 DEF Mishap
<1>3. ~Reboot /\ \A n \in Notifier : ~WriteFails(n) /\ ~Crash(n)
  BY <1>2 DEF Reboot, WriteFails, Crash
<1>4. CASE UNCHANGED vars
  <2>1. Orderly
    BY <1>1, <1>4 DEF InOrder, Undisturbed, vars, history
  <2>2. UNCHANGED <<clock, file, tmp, pc, alert, now, todo, kept, raised, tries, answered, since>>
    BY <1>4 DEF vars, local, history
  <2> QED
    BY <2>1, <2>2 DEF Orderly, OneAtATime, Unraised, Unsent, InHand, Hand, AtMost, Known
<1>5. CASE Tick
  <2>1. Orderly
    BY <1>1, <1>5 DEF InOrder, Undisturbed, Tick, history
  <2> QED
    BY <1>5, <2>1, OrderlyTick
<1>6. ASSUME NEW n \in Notifier, NEW a \in Alert \cup {NoAlert}, Notify(n, a)
      PROVE  Orderly'
  <2>1. Orderly
    BY <1>1, <1>6 DEF InOrder, Undisturbed, Notify
  <2> QED
    BY <1>1, <1>6, <2>1, OrderlyNotify
<1>7. ASSUME NEW n \in Notifier, Step(n)
      PROVE  Orderly'
  <2>1. UNCHANGED <<alone, mishaps>>
    BY <1>7 DEF Step, Resend, WriteTmp, Swap, SendSucceeds, SendFails, ReadToEnqueue, history
  <2>2. Orderly
    BY <1>1, <2>1 DEF InOrder, Undisturbed
  <2> QED
    BY <1>7, <2>2, OrderlyResend, OrderlyWrite, OrderlySend, OrderlyEnqueue DEF Step
<1> QED
  BY <1>3, <1>4, <1>5, <1>6, <1>7 DEF Next

LEMMA InOrderInvariant == Spec => [](IInv /\ InOrder)
<1>1. IInv /\ InOrder /\ [Next]_vars => InOrder'
  BY InOrderStep
<1> QED
  BY <1>1, OrderlyInitially, Invariant, PTL DEF Spec

(* While notifiers do not overlap and no write fails, every alert about an *)
(* order is confirmed by Slack, waits in the file, was tried often enough  *)
(* or is too old: for any alerts, whatever the network does.               *)
THEOREM NothingForgottenAlways == Spec => []NothingForgotten
<1>1. ASSUME IInv, InOrder PROVE NothingForgotten
  <2> SUFFICES ASSUME Undisturbed, NEW a \in raised, \A n \in Notifier : pc[n] = "idle"
               PROVE  \/ answered[a] > 0 \/ Enqueued(a) \/ tries[a] = MaxAttempts
                      \/ clock > since[a] + Ttl
    BY DEF NothingForgotten
  <2>1. Carries(file, <<>>, NoAlert, Known) /\ a \in Known.raised \ {NoAlert}
    BY <1>1, TypesOf, KnownFields DEF InOrder, Orderly, InHand
  <2>2. Done(a, Known) \/ Has(file, a)
    BY <2>1, NothingCarried DEF Carries
  <2> QED
    BY <2>2, KnownFields DEF Done, Has, Enqueued
<1> QED
  BY <1>1, InOrderInvariant, PTL

-----------------------------------------------------------------------------
(* The copies of an alert in the channel: it arrives with its own send and *)
(* with every resend, at most.                                             *)
Copies ==
  /\ \A a \in Alert :
       /\ arrived[a] <= tries[a] + answered[a] + 1
       /\ tries[a] + answered[a] <= MaxAttempts
  /\ \A a \in Alert \ raised : arrived[a] = 0
  /\ \A n \in Notifier : pc[n] \in {"resend", "swap", "send"} /\ alert[n] \in Alert
       => arrived[alert[n]] = 0

CopiesFit == Undisturbed => Copies

SameCounts(a) == arrived'[a] = arrived[a] /\ answered'[a] = answered[a] /\ tries'[a] = tries[a]

(* A step that sends an alert: one that Slack has not confirmed, and that  *)
(* may be resent; no notifier is before its first send any more.           *)
Sends(a) ==
  /\ a \in raised /\ answered[a] = 0 /\ tries[a] < MaxAttempts
  /\ arrived'[a] <= arrived[a] + 1
  /\ \/ answered'[a] + tries'[a] = tries[a] + 1
     \/ arrived[a] = 0 /\ answered'[a] = 0 /\ tries'[a] = tries[a]
  /\ \A m \in Notifier : pc'[m] \in {"resend", "swap", "send"} => alert'[m] # a

LEMMA CountsAreNumbers ==
  ASSUME IInv, [Next]_vars, NEW a \in Alert
  PROVE  /\ arrived[a] \in Nat /\ tries[a] \in Nat /\ answered[a] \in Nat
         /\ arrived'[a] \in Nat /\ tries'[a] \in Nat /\ answered'[a] \in Nat
<1>1. 0..MaxAttempts + 2 \subseteq Nat /\ 0..MaxAttempts + 1 \subseteq Nat /\ 0..2 \subseteq Nat
  BY Numbers
<1>2. TypeOK /\ TypeOK'
  BY TypeStep DEF IInv
<1>3. /\ arrived[a] \in 0..MaxAttempts + 2 /\ arrived'[a] \in 0..MaxAttempts + 2
      /\ tries[a] \in 0..MaxAttempts + 1 /\ tries'[a] \in 0..MaxAttempts + 1
      /\ answered[a] \in 0..2 /\ answered'[a] \in 0..2
  BY <1>2, Zenon DEF TypeOK
<1> QED
  BY <1>1, <1>3, Zenon

LEMMA ReachesOne ==
  ASSUME IInv, NEW a, NEW b \in Alert
  PROVE  /\ Reaches(a) \/ MayReach(a) =>
              (a # b => arrived'[b] = arrived[b]) /\ arrived'[b] <= arrived[b] + 1
         /\ Answers(a) /\ a = b /\ answered[b] = 0 => answered'[b] = 1
         /\ Answers(a) /\ a # b => answered'[b] = answered[b]
<1>1. arrived[b] \in Nat
  <2>1. arrived[b] \in 0..MaxAttempts + 2
    BY Zenon DEF IInv, TypeOK
  <2> QED
    BY <2>1, Numbers
<1>2. Capped(arrived[b], MaxAttempts + 1) <= arrived[b] + 1 /\ arrived[b] <= arrived[b] + 1
  BY <1>1, Numbers DEF Capped
<1>3. Reaches(a) => arrived'[b] = IF b = a THEN Capped(arrived[b], MaxAttempts + 1) ELSE arrived[b]
  BY DEF Reaches
<1>4. Answers(a) => answered'[b] = IF b = a THEN Capped(answered[b], 1) ELSE answered[b]
  BY DEF Answers
<1>5. answered[b] = 0 => Capped(answered[b], 1) = 1
  BY DEF Capped
<1> QED
  BY <1>2, <1>3, <1>4, <1>5 DEF MayReach

(* Every step sends an alert or leaves its counts alone. *)
LEMMA ResendSends ==
  ASSUME IInv, Orderly, NEW n \in Notifier, Resend(n), NEW a \in Alert
  PROVE  SameCounts(a) \/ Sends(a)
<1> DEFINE e == Head(todo[n])
<1>1. /\ pc[n] = "resend" /\ todo[n] # <<>> /\ UNCHANGED <<pc, alert, raised>>
      /\ \/ IsAlive(e, now[n]) /\ (Arrives(n, e) \/ Fails(n, e))
         \/ UNCHANGED <<arrived, answered, kept, tries>>
  BY Zenon DEF Resend
<1>2. Carries(kept[n], todo[n], alert[n], Known)
  BY <1>1 DEF Orderly, InHand, Hand
<1>3. kept[n] \in Seq(Entry) /\ todo[n] \in Seq(Entry)
  BY TypesOf
<1>4. e \in Entry /\ IsTrue(e, Known) /\ e.alert # alert[n]
  BY <1>1, <1>2, <1>3, TailHas DEF Carries
<1>5. /\ e.alert \in raised /\ e.alert \in Alert /\ answered[e.alert] = 0
      /\ e.attempts = tries[e.alert] /\ tries[e.alert] \in Nat
  BY <1>4, KnownFields, TypesOf DEF IsTrue, Entry
<1> HIDE DEF e
<1>6. \A m \in Notifier : pc'[m] \in {"resend", "swap", "send"} => alert'[m] # e.alert
  BY <1>1, <1>4 DEF Orderly, OneAtATime
<1>7. CASE UNCHANGED <<arrived, answered, kept, tries>>
  BY <1>7 DEF SameCounts
<1>8. CASE IsAlive(e, now[n]) /\ Arrives(n, e)
  <2>1. Reaches(e.alert) /\ Answers(e.alert) /\ tries' = tries /\ tries[e.alert] < MaxAttempts
    BY <1>5, <1>8 DEF Arrives, IsAlive
  <2>2. CASE a = e.alert
    <3>1. answered'[a] = 1 /\ arrived'[a] <= arrived[a] + 1
      BY <1>5, <2>1, <2>2, ReachesOne
    <3> QED
      BY <1>5, <1>6, <2>1, <2>2, <3>1 DEF Sends
  <2>3. CASE a # e.alert
    BY <2>1, <2>3, ReachesOne DEF SameCounts
  <2> QED
    BY <2>2, <2>3
<1>9. CASE IsAlive(e, now[n]) /\ Fails(n, e)
  <2>1. /\ MayReach(e.alert) /\ answered' = answered /\ tries[e.alert] < MaxAttempts
        /\ tries' = [tries EXCEPT ![e.alert] = Capped(tries[e.alert], MaxAttempts)]
    BY <1>5, <1>9 DEF Fails, IsAlive
  <2>2. CASE a = e.alert
    <3>1. tries'[a] = tries[a] + 1
      BY <1>5, <2>1, <2>2, TypesOf, Numbers DEF Capped
    <3>2. arrived'[a] <= arrived[a] + 1
      BY <2>1, <2>2, ReachesOne
    <3> QED
      BY <1>5, <1>6, <2>1, <2>2, <3>1, <3>2 DEF Sends
  <2>3. CASE a # e.alert
    <3>1. arrived'[a] = arrived[a]
      BY <2>1, <2>3, ReachesOne
    <3>2. tries'[a] = tries[a] /\ answered'[a] = answered[a]
      BY <2>1, <2>3, TypesOf
    <3> QED
      BY <3>1, <3>2 DEF SameCounts
  <2> QED
    BY <2>2, <2>3
<1> QED
  BY <1>1, <1>7, <1>8, <1>9

LEMMA SendSends ==
  ASSUME IInv, Orderly, Copies, NEW n \in Notifier, SendSucceeds(n) \/ SendFails(n), NEW a \in Alert
  PROVE  SameCounts(a) \/ Sends(a)
<1>1. /\ pc[n] = "send" /\ UNCHANGED tries
      /\ \/ Reaches(alert[n]) /\ Answers(alert[n])
         \/ MayReach(alert[n]) /\ answered' = answered
  BY DEF SendSucceeds, SendFails
<1>2. CASE a # alert[n]
  BY <1>1, <1>2, ReachesOne DEF SameCounts
<1>3. CASE a = alert[n]
  <2>1. a \in raised /\ answered[a] = 0 /\ tries[a] = 0 /\ arrived[a] = 0
    BY <1>1, <1>3 DEF Orderly, Unsent, Copies
  <2>2. arrived'[a] <= arrived[a] + 1 /\ (answered'[a] = 1 \/ answered'[a] = 0)
    BY <1>1, <1>3, <2>1, ReachesOne
  <2>3. \A m \in Notifier : pc'[m] \notin {"resend", "swap", "send"}
    <3>1. pc' = [pc EXCEPT ![n] = "idle"] \/ pc' = [pc EXCEPT ![n] = "read"]
      BY DEF SendSucceeds, SendFails, Finish, Goto
    <3> QED
      BY <1>1, <3>1, TypesOf DEF Orderly, OneAtATime
  <2> QED
    BY <1>1, <2>1, <2>2, <2>3, Numbers DEF Sends
<1> QED
  BY <1>2, <1>3

(* The steps that are not a mishap, from a state in order. *)
LEMMA CountStep ==
  ASSUME IInv, InOrder, CopiesFit, [Next]_vars, Undisturbed'
  PROVE  /\ Orderly /\ Copies
         /\ \A a \in Alert : SameCounts(a) \/ Sends(a)
         /\ raised \subseteq raised'
         /\ \A m \in Notifier : pc'[m] \in {"resend", "swap", "send"} =>
              \/ pc[m] \in {"resend", "swap", "send"} /\ alert'[m] = alert[m]
              \/ alert'[m] \notin raised
<1>1. alone' /\ mishaps' = 0 /\ mishaps \in Nat
  BY TypesOf DEF Undisturbed
<1>2. ASSUME NEW kind, Mishap(kind) PROVE FALSE
  BY <1>1, <1>2 DEF Mishap
<1>3. ~Reboot /\ \A n \in Notifier : ~WriteFails(n) /\ ~Crash(n)
  BY <1>2 DEF Reboot, WriteFails, Crash
<1>4. Undisturbed
  <2>1. alone /\ mishaps = mishaps'
    BY <1>1, <1>3 DEF Next, Step, Resend, WriteTmp, Swap, SendSucceeds, SendFails, ReadToEnqueue,
       Notify, Tick, vars, history
  <2> QED
    BY <1>1, <2>1 DEF Undisturbed
<1>5. Orderly /\ Copies
  BY <1>4 DEF InOrder, CopiesFit
<1> DEFINE Rest ==
     /\ raised \subseteq raised'
     /\ \A m \in Notifier : pc'[m] \in {"resend", "swap", "send"} =>
          \/ pc[m] \in {"resend", "swap", "send"} /\ alert'[m] = alert[m]
          \/ alert'[m] \notin raised
<1>6. ASSUME NEW n \in Notifier, Step(n)
      PROVE  (\A a \in Alert : SameCounts(a) \/ Sends(a)) /\ Rest
  <2>1. raised' = raised
    BY <1>6 DEF Step, Resend, WriteTmp, Swap, SendSucceeds, SendFails, ReadToEnqueue, history
  <2>2. CASE Resend(n)
    BY <1>5, <2>1, <2>2, ResendSends DEF Resend
  <2>3. CASE SendSucceeds(n) \/ SendFails(n)
    <3>1. pc' = [pc EXCEPT ![n] = "idle"] \/ pc' = [pc EXCEPT ![n] = "read"]
      BY <2>3 DEF SendSucceeds, SendFails, Finish, Goto
    <3>2. alert' = alert \/ alert' = [alert EXCEPT ![n] = NoAlert]
      BY <2>3 DEF SendSucceeds, SendFails, Finish
    <3> QED
      BY <1>5, <2>1, <2>3, <3>1, <3>2, SendSends, TypesOf
  <2>4. CASE WriteTmp(n) \/ Swap(n) \/ ReadToEnqueue(n)
    <3>1. UNCHANGED <<arrived, answered, tries>>
      BY <2>4 DEF WriteTmp, Swap, ReadToEnqueue, history
    <3>2. /\ alert' = alert \/ (alert' = [alert EXCEPT ![n] = NoAlert] /\ pc' = [pc EXCEPT ![n] = "idle"])
          /\ \/ pc' = [pc EXCEPT ![n] = "idle"] \/ pc' = [pc EXCEPT ![n] = "install"]
             \/ pc' = [pc EXCEPT ![n] = "append"]
             \/ (pc[n] \in {"resend", "swap"}
                  /\ (pc' = [pc EXCEPT ![n] = "swap"] \/ pc' = [pc EXCEPT ![n] = "send"]))
      BY <2>4 DEF WriteTmp, Swap, ReadToEnqueue, Proceed, Finish, Goto
    <3> QED
      BY <2>1, <3>1, <3>2, TypesOf DEF SameCounts
  <2> QED
    BY <1>6, <2>2, <2>3, <2>4 DEF Step
<1>7. ASSUME NEW n \in Notifier, NEW a \in Alert \cup {NoAlert}, Notify(n, a)
      PROVE  (\A b \in Alert : SameCounts(b) \/ Sends(b)) /\ Rest
  <2>1. /\ a \notin raised /\ raised' = raised \cup ({a} \cap Alert)
        /\ alert' = [alert EXCEPT ![n] = a] /\ pc' = [pc EXCEPT ![n] = "resend"]
        /\ UNCHANGED <<tries, arrived, answered>>
    BY <1>7 DEF Notify, Goto
  <2> QED
    BY <2>1, TypesOf DEF SameCounts
<1>8. CASE Tick \/ UNCHANGED vars
  <2>1. UNCHANGED <<pc, alert, raised, tries, arrived, answered>>
    BY <1>8 DEF Tick, vars, local, history
  <2> QED
    BY <1>5, <2>1 DEF SameCounts
<1> QED
  BY <1>3, <1>5, <1>6, <1>7, <1>8 DEF Next

LEMMA CopiesStep == ASSUME IInv, InOrder, CopiesFit, [Next]_vars PROVE CopiesFit'
<1> SUFFICES ASSUME Undisturbed' PROVE Copies'
  BY DEF CopiesFit
<1>1. /\ Copies /\ raised \subseteq raised'
      /\ \A a \in Alert : SameCounts(a) \/ Sends(a)
      /\ \A m \in Notifier : pc'[m] \in {"resend", "swap", "send"} =>
           \/ pc[m] \in {"resend", "swap", "send"} /\ alert'[m] = alert[m]
           \/ alert'[m] \notin raised
  BY CountStep
<1>2. ASSUME NEW a \in Alert
      PROVE  arrived'[a] <= tries'[a] + answered'[a] + 1 /\ tries'[a] + answered'[a] <= MaxAttempts
  <2>1. /\ arrived[a] <= tries[a] + answered[a] + 1 /\ tries[a] + answered[a] <= MaxAttempts
        /\ arrived[a] \in Nat /\ tries[a] \in Nat /\ answered[a] \in Nat
        /\ arrived'[a] \in Nat /\ tries'[a] \in Nat /\ answered'[a] \in Nat
    BY <1>1, CountsAreNumbers DEF Copies
  <2>2. CASE SameCounts(a)
    BY <2>1, <2>2 DEF SameCounts
  <2>3. CASE Sends(a)
    BY <2>1, <2>3, Numbers DEF Sends
  <2> QED
    BY <1>1, <2>2, <2>3
<1>3. \A a \in Alert \ raised' : arrived'[a] = 0
  BY <1>1 DEF SameCounts, Sends, Copies
<1>4. ASSUME NEW m \in Notifier, pc'[m] \in {"resend", "swap", "send"}, alert'[m] \in Alert
      PROVE  arrived'[alert'[m]] = 0
  <2>1. arrived[alert'[m]] = 0
    BY <1>1, <1>4 DEF Copies
  <2>2. SameCounts(alert'[m])
    BY <1>1, <1>4 DEF Sends
  <2> QED
    BY <2>1, <2>2 DEF SameCounts
<1> QED
  BY <1>2, <1>3, <1>4 DEF Copies

(* While notifiers do not overlap and no write fails, an alert that Slack  *)
(* confirmed, or that was resent OUTBOX_MAX_ATTEMPTS times, is not sent    *)
(* again; lost answers put it in the channel once more than that, at most. *)
THEOREM NotSentAgainAlways == Spec => NotSentAgain
<1> DEFINE Quiet == Undisturbed' => \A a \in Alert :
       /\ answered[a] > 0 \/ tries[a] = MaxAttempts =>
            arrived'[a] = arrived[a] /\ answered'[a] = answered[a] /\ tries'[a] = tries[a]
       /\ arrived'[a] <= MaxAttempts + 1
<1>1. Init => CopiesFit
  BY Numbers DEF Init, CopiesFit, Copies
<1>2. IInv /\ InOrder /\ CopiesFit /\ [Next]_vars => CopiesFit'
  BY CopiesStep
<1>3. ASSUME IInv, InOrder, CopiesFit, [Next]_vars PROVE Quiet
  <2> SUFFICES ASSUME Undisturbed', NEW a \in Alert
               PROVE  /\ answered[a] > 0 \/ tries[a] = MaxAttempts =>
                           /\ arrived'[a] = arrived[a] /\ answered'[a] = answered[a]
                           /\ tries'[a] = tries[a]
                      /\ arrived'[a] <= MaxAttempts + 1
    OBVIOUS
  <2>1. SameCounts(a) \/ Sends(a)
    BY <1>3, CountStep
  <2>2. Copies'
    BY <1>3, CopiesStep DEF CopiesFit
  <2>3. arrived'[a] <= MaxAttempts + 1
    BY <1>3, <2>2, CountsAreNumbers, Numbers DEF Copies
  <2>4. Sends(a) => ~(answered[a] > 0 \/ tries[a] = MaxAttempts)
    BY <1>3, CountsAreNumbers, Numbers DEF Sends
  <2> QED
    BY <2>1, <2>3, <2>4 DEF SameCounts
<1>4. IInv /\ InOrder /\ CopiesFit /\ [Next]_vars => [Quiet]_vars
  BY <1>3
<1> HIDE DEF Quiet
<1>5. Spec => [][Quiet]_vars
  BY <1>1, <1>2, <1>4, InOrderInvariant, PTL DEF Spec
<1> QED
  BY <1>5 DEF NotSentAgain, Quiet
=============================================================================
