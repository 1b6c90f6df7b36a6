----------------------- MODULE SessionDispatch_proofs -----------------------
(***************************************************************************)
(* Proofs about SessionDispatch, for any number of shots, commands, plans  *)
(* and requests at a time.                                                 *)
(***************************************************************************)
EXTENDS SessionDispatch, SharedLemmas, FiniteSetTheorems, SequenceTheorems, TLAPS

Waits(t) == \E i \in DOMAIN waiting : waiting[i] = t

IsNew(t) == \E i \in DOMAIN inbox : ~inbox[i].done /\ inbox[i].request = t

(* A message says that a running request's thread is over, once, or gives  *)
(* a command nothing was done about yet, later than all that wait.         *)
MessagesOK ==
    /\ \A i \in DOMAIN inbox :
          IF inbox[i].done
          THEN inbox[i].request \in running /\ thread[inbox[i].request] = "over"
          ELSE /\ Given(inbox[i].request) /\ ~Begun(inbox[i].request)
               /\ \A j \in DOMAIN waiting : waiting[j] < inbox[i].request
    /\ \A i, j \in DOMAIN inbox :
          i < j /\ inbox[i].done = inbox[j].done =>
              IF inbox[i].done THEN inbox[i].request # inbox[j].request
              ELSE inbox[i].request < inbox[j].request

(* What waits was given and not begun, and stands in the order given.      *)
QueueOK ==
    /\ \A i \in DOMAIN waiting : Given(waiting[i]) /\ ~Begun(waiting[i])
    /\ \A i, j \in DOMAIN waiting : i < j => waiting[i] < waiting[j]

(* A command given that has not begun is on its way or waits.              *)
NoneIsLost ==
    \A t \in Request : IF Given(t) THEN Begun(t) \/ IsNew(t) \/ Waits(t) ELSE ~Begun(t)

(* The requests under way are those with a thread whose end has not been   *)
(* delivered.  Each works on the shot it took, or on the documents, and    *)
(* keeps its copy until it has recorded; its video is submitted by its     *)
(* thread and followed from its end on.                                    *)
ThreadsOK ==
    \A t \in Request :
        /\ t \in running <=> thread[t] # "none" /\ t \notin told
        /\ thread[t] # "none" =>
              /\ Slow(t)
              /\ IF Ask(t) = "document" THEN on[t] = NoShot /\ scope[t] = "documents"
                 ELSE on[t] \in Shot /\ scope[t] = on[t]
        /\ thread[t] \in {"spawned", "calling", "answered"} =>
              t \notin told /\ (on[t] # NoShot => copy[t] \in Files)
        /\ video[t] # "none" => Ask(t) = "videos" /\ thread[t] \in {"answered", "over"}
        /\ video[t] = "submitted" => t \notin told
        /\ video[t] \notin {"none", "submitted"} => t \in told

(* No two requests under way work on the same thing, and none asks for a   *)
(* video of a shot one of which is followed.                               *)
AllApart ==
    /\ \A t, u \in running : t # u => ~Overlaps(scope[t], scope[u])
    /\ \A v \in Request, w \in running :
          video[v] \in {"followed", "ready", "lost"} /\ Ask(w) = "videos" => on[v] # on[w]

(* Once the queue has been gone through nothing in it can begin, until the *)
(* next message; and the loop ends after the session was closed, with      *)
(* every thread over.                                                      *)
LoopOK ==
    /\ step \in {"idle", "collecting"} =>
          \A i \in DOMAIN waiting : MustWait(waiting[i], i - 1)
    /\ step \in {"joining", "ended"} => closed
    /\ step = "ended" => Joined

SessionIInv ==
    TypeOK /\ MessagesOK /\ QueueOK /\ NoneIsLost /\ ThreadsOK /\ AllApart /\ LoopOK
-----------------------------------------------------------------------------
(* The queue once what waits at a place is taken out.                      *)
LEMMA LeftWaiting ==
    ASSUME NEW R, waiting \in Seq(R)
    PROVE  \A m \in Nat : m = Len(waiting) => \A n \in 1..m : \A rest :
              rest = SubSeq(waiting, 1, n - 1) \o SubSeq(waiting, n + 1, Len(waiting)) =>
                  /\ rest \in Seq(R) /\ DOMAIN rest = 1..(m - 1)
                  /\ \A j \in 1..(m - 1) :
                        rest[j] = IF j < n THEN waiting[j] ELSE waiting[j + 1]
<1>1. \A S : \A s \in Seq(S) : \A m \in Nat : m = Len(s) => \A n \in 1..m : \A rest :
          rest = SubSeq(s, 1, n - 1) \o SubSeq(s, n + 1, Len(s)) =>
              /\ rest \in Seq(S) /\ Len(rest) = m - 1
              /\ \A j \in 1..(m - 1) : rest[j] = IF j < n THEN s[j] ELSE s[j + 1]
    BY TakenOut, Zenon
<1>2. \A m \in Nat : m = Len(waiting) => \A n \in 1..m : \A rest :
          rest = SubSeq(waiting, 1, n - 1) \o SubSeq(waiting, n + 1, Len(waiting)) =>
              /\ rest \in Seq(R) /\ Len(rest) = m - 1
              /\ \A j \in 1..(m - 1) : rest[j] = IF j < n THEN waiting[j] ELSE waiting[j + 1]
    BY <1>1, Zenon
<1>3. \A rest \in Seq(R) : DOMAIN rest = 1..Len(rest)
    BY LenProperties
<1> QED BY <1>2, <1>3, Zenon

USE SessionAssumption
-----------------------------------------------------------------------------
(* Commands.                                                               *)

(* What a command given works on is a shot, a document, all, or nothing.   *)
LEMMA ScopeTypes ==
    ASSUME TypeOK, NEW t \in Request, Given(t)
    PROVE  /\ Ask(t) \in Kind /\ KeyOf(t) \in Shot \cup {NoShot} /\ ScopeOf(t) \in Scope
           /\ Slow(t) /\ Ask(t) # "document" => OfShot(t)
<1>1. t \in 1..Len(work) /\ work \in Seq(Command)
    BY DEF TypeOK, Given, Request
<1>2. work[t] \in Command
    BY <1>1, ElementOfSeq
<1>3. work[t].what \in Kind /\ work[t].at \in Nat \ {0}
    BY <1>2 DEF Kind
<1>4. KeyOf(t) \in Shot \cup {NoShot}
  <2>1. CASE OfShot(t) /\ work[t].at <= Len(keys)
    <3>1. keys \in Seq(Shot) /\ work[t].at \in 1..Len(keys)
        BY <1>3, <2>1, LenProperties DEF TypeOK
    <3>2. keys[work[t].at] \in Shot
        BY <3>1, ElementOfSeq
    <3> QED BY <2>1, <3>2 DEF KeyOf
  <2>2. CASE ~(OfShot(t) /\ work[t].at <= Len(keys))
      BY <2>2 DEF KeyOf
  <2> QED BY <2>1, <2>2
<1> QED BY <1>3, <1>4 DEF Ask, ScopeOf, Scope, Slow, OfShot

(* Who must wait depends on the queue, on what is under way, on the shots  *)
(* in play, and on the commands themselves.                                *)
LEMMA MustWaitFrame ==
    ASSUME NEW t, NEW n \in Nat, UNCHANGED <<running, scope, keys, waiting>>,
           work'[t] = work[t], \A i \in 1..n : work'[waiting[i]] = work[waiting[i]],
           MustWait(t, n)
    PROVE  MustWait(t, n)'
<1>1. /\ ScopeOf(t)' = ScopeOf(t) /\ Slow(t)' = Slow(t)
      /\ \A i \in 1..n : ScopeOf(waiting[i])' = ScopeOf(waiting[i])
    BY DEF ScopeOf, KeyOf, OfShot, Ask, Slow
<1> QED BY <1>1 DEF MustWait, Overlaps

(* So nothing that waits can begin while none of that changes.             *)
LEMMA LoopFrame ==
    ASSUME TypeOK, LoopOK, QueueOK, UNCHANGED <<running, scope, keys, waiting>>,
           closed => closed', \A t \in Request : Given(t) => work'[t] = work[t],
           \/ step' = step
           \/ step = "collecting" /\ step' = "idle"
           \/ step = "idle" /\ step' = "collecting",
           step = "ended" => Joined'
    PROVE  LoopOK'
<1>1. ASSUME step' \in {"idle", "collecting"}, NEW i \in DOMAIN waiting
      PROVE  MustWait(waiting[i], i - 1)'
  <2>1. i \in 1..Len(waiting) /\ Len(waiting) \in Nat
      BY LenProperties DEF TypeOK
  <2>2. MustWait(waiting[i], i - 1)
      BY <1>1 DEF LoopOK
  <2>3. PICK t : t = waiting[i]
      OBVIOUS
  <2>4. PICK n \in Nat : n = i - 1
      BY <2>1
  <2>5. \A j \in 1..Len(waiting) : work'[waiting[j]] = work[waiting[j]]
    <3>1. \A j \in 1..Len(waiting) : waiting[j] \in Request /\ Given(waiting[j])
        BY ElementOfSeq, LenProperties DEF TypeOK, QueueOK
    <3> QED BY <3>1
  <2>6. MustWait(t, n)'
      BY <2>1, <2>2, <2>3, <2>4, <2>5, MustWaitFrame
  <2> QED BY <2>3, <2>4, <2>6
<1> QED BY <1>1 DEF LoopOK

(* A command that is under way was given, and its thread took it slowly.   *)
LEMMA UnderWay ==
    ASSUME NoneIsLost, ThreadsOK, NEW t \in Request, thread[t] # "none"
    PROVE  Given(t) /\ Slow(t)
BY DEF NoneIsLost, ThreadsOK, Begun
-----------------------------------------------------------------------------
(* The director.                                                           *)

LEMMA SubmitKeeps ==
    ASSUME SessionIInv, NEW c \in Command, Submit(c)
    PROVE  SessionIInv'
<1> USE DEF SessionIInv
<1> DEFINE m == [done |-> FALSE, request |-> Len(work) + 1]
<1>0. /\ Len(work) < MaxRequests /\ work' = Append(work, c) /\ inbox' = Append(inbox, m)
      /\ UNCHANGED <<closed, step, waiting, running, scope, thread, answer, copy, on, told,
                     keys, shots, disk, video>>
    BY DEF Submit, Send, dispatch, requests, project
<1>1. work \in Seq(Command) /\ inbox \in Seq(Message) /\ Len(work) \in Nat
    BY LenProperties DEF TypeOK
<1>2. PICK n \in Request : n = Len(work) + 1
    BY <1>0, <1>1 DEF Request
<1>3. m \in Message /\ m.done = FALSE /\ m.request = n
    BY <1>2 DEF Message
<1> HIDE DEF m
<1>4. /\ work' \in Seq(Command) /\ Len(work') = n /\ \A t \in 1..Len(work) : work'[t] = work[t]
    BY <1>0, <1>1, <1>2, OneMore
<1>5. /\ inbox' \in Seq(Message) /\ DOMAIN inbox' = 1..(Len(inbox) + 1)
      /\ DOMAIN inbox = 1..Len(inbox) /\ Len(inbox) \in Nat
      /\ inbox'[Len(inbox) + 1] = m /\ \A i \in 1..Len(inbox) : inbox'[i] = inbox[i]
    BY <1>0, <1>1, <1>3, OneMore
<1>6. TypeOK'
    BY <1>0, <1>2, <1>4, <1>5 DEF TypeOK, Request
<1>7. /\ \A t \in Request : Given(t)' <=> Given(t) \/ t = n
      /\ \A t \in Request : Given(t) => t < n /\ work'[t] = work[t]
      /\ ~Given(n) /\ \A t : Begun(t)' <=> Begun(t)
    BY <1>0, <1>1, <1>2, <1>4 DEF Given, Request, Begun
<1>8. ~Begun(n)
    BY <1>7 DEF NoneIsLost
<1>9. /\ \A j \in DOMAIN waiting : waiting[j] \in Request /\ Given(waiting[j])
      /\ \A i \in DOMAIN inbox : inbox[i] \in Message /\ inbox[i].request \in Request
  <2>1. waiting \in Seq(Request)
      BY DEF TypeOK
  <2>2. \A j \in DOMAIN waiting : waiting[j] \in Request
      BY <2>1, ElementOfSeq, LenProperties
  <2>3. \A i \in DOMAIN inbox : inbox[i] \in Message
      BY <1>1, ElementOfSeq, LenProperties
  <2> QED BY <2>2, <2>3 DEF QueueOK, Message
<1>10. MessagesOK'
  <2>1. ASSUME NEW i \in DOMAIN inbox', NEW x, x = inbox'[i]
        PROVE  IF x.done THEN x.request \in running /\ thread[x.request] = "over"
               ELSE /\ Given(x.request)' /\ ~Begun(x.request)
                    /\ \A j \in DOMAIN waiting : waiting[j] < x.request
    <3>1. CASE i \in DOMAIN inbox
      <4>1. x = inbox[i] /\ x.request \in Request
          BY <1>5, <1>9, <2>1, <3>1
      <4> QED BY <1>7, <3>1, <4>1 DEF MessagesOK
    <3>2. CASE i = Len(inbox) + 1
      <4>1. x = m
          BY <1>5, <2>1, <3>2
      <4> QED BY <1>3, <1>7, <1>8, <1>9, <4>1
    <3> QED BY <1>5, <3>1, <3>2
  <2>2. ASSUME NEW i \in DOMAIN inbox', NEW j \in DOMAIN inbox', i < j,
               inbox'[i].done = inbox'[j].done
        PROVE  IF inbox'[i].done THEN inbox'[i].request # inbox'[j].request
               ELSE inbox'[i].request < inbox'[j].request
    <3>1. CASE j \in DOMAIN inbox
        BY <1>5, <2>2, <3>1 DEF MessagesOK
    <3>2. CASE j = Len(inbox) + 1
      <4>1. i \in DOMAIN inbox /\ ~inbox[i].done
          BY <1>3, <1>5, <2>2, <3>2
      <4> QED BY <1>3, <1>5, <1>7, <1>9, <3>2, <4>1 DEF MessagesOK
    <3> QED BY <1>5, <3>1, <3>2
  <2> QED BY <1>0, <1>7, <2>1, <2>2 DEF MessagesOK
<1>11. QueueOK'
    BY <1>0, <1>7, <1>9 DEF QueueOK
<1>12. NoneIsLost'
  <2>1. \A t : IsNew(t) \/ t = n => IsNew(t)'
      BY <1>3, <1>5 DEF IsNew
  <2> QED BY <1>0, <1>7, <1>8, <2>1 DEF NoneIsLost, Waits
<1>13. \A t \in Request : thread[t] # "none" => Ask(t)' = Ask(t) /\ Slow(t)'
    BY <1>7, UnderWay DEF Ask, Slow
<1>14. ThreadsOK'
    BY <1>0, <1>13 DEF ThreadsOK
<1>15. AllApart'
  <2>1. \A w \in running : w \in Request /\ thread[w] # "none"
      BY DEF ThreadsOK, TypeOK
  <2> QED BY <1>0, <1>13, <2>1 DEF AllApart, Overlaps
<1>16. LoopOK'
  <2>1. step = "ended" => Joined'
      BY <1>0 DEF Joined, LoopOK
  <2>2. /\ closed => closed'
        /\ \A t \in Request : Given(t) => work'[t] = work[t]
        /\ step' = step
      BY <1>0, <1>7
  <2>3. TypeOK /\ LoopOK /\ QueueOK /\ UNCHANGED <<running, scope, keys, waiting>>
      BY <1>0
  <2> QED BY <2>1, <2>2, <2>3, LoopFrame
<1> QED BY <1>6, <1>10, <1>11, <1>12, <1>14, <1>15, <1>16

LEMMA CloseKeeps ==
    ASSUME SessionIInv, Close
    PROVE  SessionIInv'
<1> USE DEF SessionIInv
<1>0. closed' = TRUE /\ UNCHANGED <<work, inbox, step, waiting, running, scope, thread, answer,
                                     copy, on, told, keys, shots, disk, video>>
    BY DEF Close, dispatch, requests, project
<1>1. TypeOK'
    BY <1>0 DEF TypeOK
<1>2. MessagesOK' /\ QueueOK' /\ NoneIsLost'
    BY <1>0 DEF MessagesOK, QueueOK, NoneIsLost, Given, Begun, IsNew, Waits
<1>3. ThreadsOK' /\ AllApart'
    BY <1>0 DEF ThreadsOK, AllApart, Slow, Ask, Overlaps
<1>4. step = "ended" => Joined'
    BY <1>0 DEF LoopOK, Joined
<1>5. LoopOK'
    BY <1>0, <1>4, LoopFrame
<1> QED BY <1>1, <1>2, <1>3, <1>5
-----------------------------------------------------------------------------
(* A request's thread.                                                     *)

(* A thread goes on, and says so once it is over.                          *)
LEMMA ThreadMoves ==
    ASSUME SessionIInv, TypeOK', NEW t \in Request, NEW at,
           UNCHANGED <<closed, work, step, waiting, running, scope, on, told, keys>>,
           thread' = [thread EXCEPT ![t] = at],
           \/ thread[t] = "spawned" /\ at \in {"calling", "over"}
           \/ thread[t] = "calling" /\ at = "answered"
           \/ thread[t] = "answered" /\ at = "over",
           IF at = "over" THEN Send(t, TRUE) ELSE inbox' = inbox,
           \/ video' = video
           \/ /\ at = "answered" /\ Ask(t) = "videos"
              /\ video' = [video EXCEPT ![t] = "submitted"],
           \A u \in Request : (at = "over" /\ u = t) \/ copy'[u] = copy[u]
    PROVE  SessionIInv'
<1> USE DEF SessionIInv
<1>0. /\ thread \in [Request -> {"none", "spawned", "calling", "answered", "over"}]
      /\ video \in [Request -> {"none", "submitted", "followed", "ready",
                                "lost", "attached", "retired", "left"}]
      /\ at \in {"calling", "answered", "over"}
      /\ thread[t] \notin {"none", "over"}
    BY DEF TypeOK
<1>1. /\ thread'[t] = at /\ \A u \in Request : u # t => thread'[u] = thread[u]
      /\ t \in running /\ t \notin told /\ Slow(t)
    BY <1>0 DEF ThreadsOK
<1>2. \A u \in Request : (Begun(u)' <=> Begun(u)) /\ (Given(u)' <=> Given(u))
    BY <1>0, <1>1 DEF Begun, Given
<1>3. \A u : Slow(u)' = Slow(u) /\ Ask(u)' = Ask(u)
    BY DEF Slow, Ask
<1>4. \A i \in DOMAIN inbox : inbox[i] \in Message /\ inbox[i].request \in Request
  <2>1. inbox \in Seq(Message)
      BY DEF TypeOK
  <2>2. \A i \in DOMAIN inbox : inbox[i] \in Message
      BY <2>1, ElementOfSeq, LenProperties
  <2> QED BY <2>2 DEF Message
<1>5. MessagesOK' /\ \A u : IsNew(u) => IsNew(u)'
  <2>1. CASE at # "over"
    <3>1. inbox' = inbox
        BY <2>1
    <3>2. \A i \in DOMAIN inbox : inbox[i].done => thread'[inbox[i].request] = "over"
        BY <1>0, <1>1, <1>4 DEF MessagesOK
    <3> QED BY <1>2, <1>4, <3>1, <3>2 DEF MessagesOK, IsNew
  <2>2. CASE at = "over"
    <3> DEFINE m == [done |-> TRUE, request |-> t]
    <3>1. inbox' = Append(inbox, m) /\ inbox \in Seq(Message)
        BY <2>2 DEF Send, TypeOK
    <3>2. m \in Message /\ m.done = TRUE /\ m.request = t
        BY DEF Message
    <3> HIDE DEF m
    <3>3. /\ DOMAIN inbox' = 1..(Len(inbox) + 1)
          /\ DOMAIN inbox = 1..Len(inbox) /\ Len(inbox) \in Nat
          /\ inbox'[Len(inbox) + 1] = m /\ \A i \in 1..Len(inbox) : inbox'[i] = inbox[i]
        BY <3>1, <3>2, OneMore
    <3>4. \A i \in DOMAIN inbox :
              inbox[i].done => inbox[i].request # t /\ thread'[inbox[i].request] = "over"
        BY <1>0, <1>1, <1>4 DEF MessagesOK
    <3>5. ASSUME NEW i \in DOMAIN inbox', NEW x, x = inbox'[i]
          PROVE  IF x.done THEN x.request \in running /\ thread'[x.request] = "over"
                 ELSE /\ Given(x.request)' /\ ~Begun(x.request)'
                      /\ \A j \in DOMAIN waiting : waiting[j] < x.request
      <4>1. CASE i \in DOMAIN inbox
        <5>1. x = inbox[i] /\ x.request \in Request
            BY <1>4, <3>3, <3>5, <4>1
        <5> QED BY <1>2, <3>4, <4>1, <5>1 DEF MessagesOK
      <4>2. CASE i = Len(inbox) + 1
        <5>1. x.done /\ x.request = t
            BY <3>2, <3>3, <3>5, <4>2
        <5> QED BY <1>1, <2>2, <5>1
      <4> QED BY <3>3, <4>1, <4>2
    <3>6. ASSUME NEW i \in DOMAIN inbox', NEW j \in DOMAIN inbox', i < j,
                 inbox'[i].done = inbox'[j].done
          PROVE  IF inbox'[i].done THEN inbox'[i].request # inbox'[j].request
                 ELSE inbox'[i].request < inbox'[j].request
      <4>1. CASE j \in DOMAIN inbox
          BY <3>3, <3>6, <4>1 DEF MessagesOK
      <4>2. CASE j = Len(inbox) + 1
          BY <3>2, <3>3, <3>4, <3>6, <4>2
      <4> QED BY <3>3, <4>1, <4>2
    <3>7. \A u : IsNew(u) => IsNew(u)'
        BY <3>3 DEF IsNew
    <3> QED BY <3>5, <3>6, <3>7 DEF MessagesOK
  <2> QED BY <2>1, <2>2
<1>6. QueueOK'
  <2>1. \A i \in DOMAIN waiting : waiting[i] \in Request
      BY ElementOfSeq, LenProperties DEF TypeOK
  <2> QED BY <1>2, <2>1 DEF QueueOK
<1>7. NoneIsLost'
    BY <1>2, <1>5 DEF NoneIsLost, Waits
<1>8. ThreadsOK'
  <2>1. \A u \in Request : u # t => video'[u] = video[u] /\ copy'[u] = copy[u]
      BY <1>0
  <2>2. /\ at # "over" => (on[t] # NoShot => copy'[t] \in Files)
        /\ \/ video'[t] = "none"
           \/ video'[t] = video[t] /\ at = "over"
           \/ video'[t] = "submitted" /\ at = "answered" /\ Ask(t) = "videos"
    <3>1. copy'[t] = copy[t] \/ at = "over"
        OBVIOUS
    <3>2. on[t] # NoShot => copy[t] \in Files
        BY <1>0 DEF ThreadsOK
    <3>3. thread[t] # "answered" => video[t] = "none"
        BY <1>0 DEF ThreadsOK
    <3> QED BY <1>0, <3>1, <3>2, <3>3
  <2>3. ASSUME NEW u \in Request, u # t
        PROVE  /\ u \in running <=> thread'[u] # "none" /\ u \notin told
               /\ thread'[u] # "none" =>
                     /\ Slow(u)
                     /\ IF Ask(u) = "document" THEN on[u] = NoShot /\ scope[u] = "documents"
                        ELSE on[u] \in Shot /\ scope[u] = on[u]
               /\ thread'[u] \in {"spawned", "calling", "answered"} =>
                     u \notin told /\ (on[u] # NoShot => copy'[u] \in Files)
               /\ video'[u] # "none" => Ask(u) = "videos" /\ thread'[u] \in {"answered", "over"}
               /\ video'[u] = "submitted" => u \notin told
               /\ video'[u] \notin {"none", "submitted"} => u \in told
      BY <1>1, <2>1, <2>3 DEF ThreadsOK
  <2>4. /\ t \in running <=> at # "none" /\ t \notin told
        /\ at # "none" =>
              /\ Slow(t)
              /\ IF Ask(t) = "document" THEN on[t] = NoShot /\ scope[t] = "documents"
                 ELSE on[t] \in Shot /\ scope[t] = on[t]
        /\ at \in {"spawned", "calling", "answered"} =>
              t \notin told /\ (on[t] # NoShot => copy'[t] \in Files)
        /\ video'[t] # "none" => Ask(t) = "videos" /\ at \in {"answered", "over"}
        /\ video'[t] = "submitted" => t \notin told
        /\ video'[t] \notin {"none", "submitted"} => t \in told
      BY <1>0, <1>1, <2>2 DEF ThreadsOK
  <2> QED BY <1>1, <1>3, <2>3, <2>4 DEF ThreadsOK
<1>9. AllApart'
  <2>1. \A v \in Request : video'[v] \in {"followed", "ready", "lost"} => video'[v] = video[v]
      BY <1>0
  <2> QED BY <1>3, <2>1 DEF AllApart, Overlaps
<1>10. LoopOK'
  <2>1. step # "ended"
      BY <1>0 DEF LoopOK, Joined
  <2> QED BY <2>1, LoopFrame
<1> QED BY <1>5, <1>6, <1>7, <1>8, <1>9, <1>10

LEMMA PrepareKeeps ==
    ASSUME SessionIInv, NEW t \in Request, Prepare(t)
    PROVE  SessionIInv'
<1>0. /\ thread[t] = "spawned"
      /\ UNCHANGED <<closed, work, step, waiting, running, scope, on, told, keys, shots, disk,
                     copy, video>>
    BY DEF Prepare, dispatch, project
<1>1. TypeOK
    BY DEF SessionIInv
<1>2. CASE thread' = [thread EXCEPT ![t] = "calling"] /\ UNCHANGED <<inbox, answer>>
  <2>1. TypeOK'
      BY <1>0, <1>1, <1>2 DEF TypeOK
  <2>2. PICK at : at = "calling"
      OBVIOUS
  <2>3. /\ thread[t] = "spawned" /\ at \in {"calling", "over"}
        /\ thread' = [thread EXCEPT ![t] = at]
        /\ IF at = "over" THEN Send(t, TRUE) ELSE inbox' = inbox
        /\ \A u \in Request : copy'[u] = copy[u]
      BY <1>0, <1>2, <2>2
  <2> QED BY <1>0, <2>1, <2>3, ThreadMoves
<1>3. CASE /\ thread' = [thread EXCEPT ![t] = "over"]
           /\ answer' = [answer EXCEPT ![t] = "failed"]
           /\ Send(t, TRUE)
  <2>1. inbox' \in Seq(Message)
      BY <1>1, <1>3, AppendProperties DEF Send, TypeOK, Message
  <2>2. TypeOK'
      BY <1>0, <1>1, <1>3, <2>1 DEF TypeOK
  <2>3. PICK at : at = "over"
      OBVIOUS
  <2>4. /\ thread[t] = "spawned" /\ at \in {"calling", "over"}
        /\ thread' = [thread EXCEPT ![t] = at]
        /\ IF at = "over" THEN Send(t, TRUE) ELSE inbox' = inbox
        /\ \A u \in Request : copy'[u] = copy[u]
      BY <1>0, <1>3, <2>3
  <2> QED BY <1>0, <2>2, <2>4, ThreadMoves
<1> QED BY <1>2, <1>3 DEF Prepare

LEMMA ProviderAnswersKeeps ==
    ASSUME SessionIInv, NEW t \in Request, ProviderAnswers(t)
    PROVE  SessionIInv'
<1>0. /\ thread[t] = "calling" /\ thread' = [thread EXCEPT ![t] = "answered"]
      /\ UNCHANGED <<closed, work, step, inbox, waiting, running, scope, on, told, keys, shots,
                     disk, copy>>
    BY DEF ProviderAnswers, dispatch, project
<1>1. PICK a \in {"ok", "failed"} :
          /\ answer' = [answer EXCEPT ![t] = a]
          /\ video' = IF Ask(t) = "videos" /\ a = "ok"
                      THEN [video EXCEPT ![t] = "submitted"] ELSE video
    BY DEF ProviderAnswers
<1>2. TypeOK'
    BY <1>0, <1>1 DEF SessionIInv, TypeOK
<1>3. PICK at : at = "answered"
    OBVIOUS
<1>4. /\ thread[t] = "calling" /\ at = "answered"
      /\ thread' = [thread EXCEPT ![t] = at]
      /\ IF at = "over" THEN Send(t, TRUE) ELSE inbox' = inbox
      /\ \A u \in Request : copy'[u] = copy[u]
    BY <1>0, <1>3
<1>5. \/ video' = video
      \/ at = "answered" /\ Ask(t) = "videos" /\ video' = [video EXCEPT ![t] = "submitted"]
    BY <1>1, <1>3
<1> QED BY <1>0, <1>2, <1>4, <1>5, ThreadMoves

LEMMA RecordKeeps ==
    ASSUME SessionIInv, NEW t \in Request, Record(t)
    PROVE  SessionIInv'
<1>0. /\ thread[t] = "answered" /\ thread' = [thread EXCEPT ![t] = "over"] /\ Send(t, TRUE)
      /\ UNCHANGED <<closed, work, step, waiting, running, scope, answer, on, told, keys, shots,
                     video>>
    BY DEF Record, dispatch
<1>1. TypeOK
    BY DEF SessionIInv
<1>2. inbox' \in Seq(Message)
    BY <1>0, <1>1, AppendProperties DEF Send, TypeOK, Message
<1>3. /\ disk' \in [Shot -> Files] /\ copy' \in [Request -> Files \cup {NoShot}]
      /\ \A u \in Request : u # t => copy'[u] = copy[u]
  <2>1. CASE Ask(t) = "keyframes" /\ answer[t] = "ok"
    <3>1. copy[t] \in Files /\ on[t] \in Shot
      <4>1. on[t] \in Shot /\ (on[t] # NoShot => copy[t] \in Files)
          BY <1>0, <2>1 DEF SessionIInv, ThreadsOK
      <4> QED BY <4>1
    <3>2. PICK files : files = WithKeyframes(copy[t], t)
        OBVIOUS
    <3>3. files \in Files
        BY <3>1, <3>2 DEF WithKeyframes, Files
    <3>4. /\ disk' = [disk EXCEPT ![on[t]] = files]
          /\ copy' \in {[copy EXCEPT ![t] = files], [copy EXCEPT ![t] = NoShot]}
        BY <2>1, <3>2, Zenon DEF Record
    <3>5. /\ disk \in [Shot -> Files] /\ copy \in [Request -> Files \cup {NoShot}]
          /\ files \in Files \cup {NoShot} /\ NoShot \in Files \cup {NoShot}
        BY <1>1, <3>3 DEF TypeOK
    <3>6. disk' \in [Shot -> Files]
        BY <3>1, <3>3, <3>4, <3>5
    <3>7. PICK c \in Files \cup {NoShot} : copy' = [copy EXCEPT ![t] = c]
        BY <3>4, <3>5
    <3> QED BY <3>5, <3>6, <3>7
  <2>2. CASE ~(Ask(t) = "keyframes" /\ answer[t] = "ok")
      BY <1>1, <2>2 DEF Record, TypeOK
  <2> QED BY <2>1, <2>2
<1>4. TypeOK'
    BY <1>0, <1>1, <1>2, <1>3 DEF TypeOK
<1>5. PICK at : at = "over"
    OBVIOUS
<1>6. /\ thread[t] = "answered" /\ at = "over"
      /\ thread' = [thread EXCEPT ![t] = at]
      /\ IF at = "over" THEN Send(t, TRUE) ELSE inbox' = inbox
      /\ \A u \in Request :
            (at = "over" /\ u = t) \/ copy'[u] = copy[u]
      /\ video' = video
    BY <1>0, <1>3, <1>5
<1>7. /\ \/ thread[t] = "spawned" /\ at \in {"calling", "over"}
         \/ thread[t] = "calling" /\ at = "answered"
         \/ thread[t] = "answered" /\ at = "over"
      /\ \/ video' = video
         \/ /\ at = "answered" /\ Ask(t) = "videos"
            /\ video' = [video EXCEPT ![t] = "submitted"]
    BY <1>6
<1>8. UNCHANGED <<closed, work, step, waiting, running, scope, on, told, keys>>
    BY <1>0
<1> QED BY <1>4, <1>6, <1>7, <1>8, ThreadMoves, Zenon

(* A watcher: its video settles, of a request whose end was delivered.     *)
LEMMA VideoSettles ==
    ASSUME SessionIInv, TypeOK', NEW v \in Request, NEW s,
           UNCHANGED <<closed, work, inbox, waiting, running, scope, thread, copy, on, told, keys>>,
           step' = step, video' = [video EXCEPT ![v] = s],
           \/ video[v] = "followed" /\ s \in {"ready", "lost", "left"}
           \/ video[v] \in {"ready", "lost"} /\ s \in {"attached", "retired"}
    PROVE  SessionIInv'
<1> USE DEF SessionIInv
<1>0. /\ video \in [Request -> {"none", "submitted", "followed", "ready",
                                "lost", "attached", "retired", "left"}]
      /\ v \in told
    BY DEF TypeOK, ThreadsOK
<1>1. MessagesOK' /\ QueueOK' /\ NoneIsLost'
    BY DEF MessagesOK, QueueOK, NoneIsLost, Given, Begun, IsNew, Waits
<1>2. ThreadsOK'
  <2>1. \A u \in Request :
            /\ video'[u] # "none" => video[u] # "none"
            /\ video'[u] = "submitted" => video[u] = "submitted"
            /\ video'[u] \notin {"none", "submitted"} => video[u] \notin {"none", "submitted"}
      BY <1>0
  <2> QED BY <2>1 DEF ThreadsOK, Slow, Ask
<1>3. AllApart'
  <2>1. \A u \in Request : video'[u] \in {"followed", "ready", "lost"} =>
                                video[u] \in {"followed", "ready", "lost"}
      BY <1>0
  <2> QED BY <2>1 DEF AllApart, Overlaps, Ask
<1>4. step = "ended" => Joined'
    BY <1>0 DEF LoopOK, Joined
<1>5. LoopOK'
    BY <1>4, LoopFrame
<1> QED BY <1>1, <1>2, <1>3, <1>5

LEMMA WatchKeeps ==
    ASSUME SessionIInv, NEW v \in Request, Watch(v)
    PROVE  SessionIInv'
<1>0. /\ video[v] = "followed"
      /\ UNCHANGED <<closed, work, inbox, step, waiting, running, scope, thread, answer, copy, on,
                     told, keys, shots, disk>>
    BY DEF Watch, dispatch, requests, project
<1>1. PICK s \in {"ready", "lost", "left"} : video' = [video EXCEPT ![v] = s]
    BY DEF Watch
<1>2. TypeOK'
    BY <1>0, <1>1 DEF SessionIInv, TypeOK
<1> QED BY <1>0, <1>1, <1>2, VideoSettles
-----------------------------------------------------------------------------
(* What the worker begins.                                                 *)

(* A command that need not wait is carried out now, or gets a thread.      *)
Starting(t) ==
    /\ thread[t] = "none"
    /\ running' = running \cup {t}
    /\ scope' = [scope EXCEPT ![t] = ScopeOf(t)]
    /\ thread' = [thread EXCEPT ![t] = "spawned"]
    /\ on' = [on EXCEPT ![t] = KeyOf(t)]
    /\ \A u \in Request : u # t => copy'[u] = copy[u]
    /\ Slow(t)
    /\ IF Ask(t) = "document" THEN KeyOf(t) = NoShot /\ ScopeOf(t) = "documents"
       ELSE KeyOf(t) \in Shot /\ ScopeOf(t) = KeyOf(t) /\ copy'[t] \in Files
    /\ Ask(t) = "videos" => ~Follows(KeyOf(t))
    /\ told' = told

CarryingOut(t) ==
    /\ told' = told \cup {t}
    /\ UNCHANGED <<running, scope, thread, copy, on>>

(* What the project holds stays what its types say.                        *)
ProjectTypes ==
    /\ keys \in Plans
    /\ shots \in [Shot -> Files \cup {NoShot}]
    /\ disk \in [Shot -> Files]
    /\ copy \in [Request -> Files \cup {NoShot}]
    /\ answer \in [Request -> {"none", "ok", "failed"}]

LEMMA RunOnShotTypes ==
    ASSUME TypeOK, NEW t \in Request, NEW k \in Shot, RunOnShot(t, k)
    PROVE  /\ keys' \in Plans /\ shots' \in [Shot -> Files \cup {NoShot}]
           /\ disk' \in [Shot -> Files]
<1>0. /\ shots \in [Shot -> Files \cup {NoShot}] /\ disk \in [Shot -> Files] /\ keys \in Plans
    BY DEF TypeOK
<1>1. Loaded(k) \in Files
    BY <1>0 DEF Loaded
<1>2. PICK files : files = IF Applies(Ask(t), Loaded(k))
                           THEN Changed(Ask(t), Loaded(k)) ELSE Loaded(k)
    OBVIOUS
<1>3. files \in Files
    BY <1>1, <1>2 DEF Changed, Files
<1>4. /\ disk' = IF Applies(Ask(t), Loaded(k)) THEN [disk EXCEPT ![k] = files] ELSE disk
      /\ shots' = Publishing([shots EXCEPT ![k] = files], disk', InPlay)
      /\ keys' = keys
    BY <1>2, Zenon DEF RunOnShot
<1>5. disk' \in [Shot -> Files]
    BY <1>0, <1>3, <1>4
<1>6. PICK held \in [Shot -> Files \cup {NoShot}] : held = [shots EXCEPT ![k] = files]
    BY <1>0, <1>3
<1>7. shots' \in [Shot -> Files \cup {NoShot}]
    BY <1>4, <1>5, <1>6 DEF Publishing
<1> QED BY <1>0, <1>4, <1>5, <1>7

LEMMA Begins ==
    ASSUME TypeOK, NoneIsLost, ThreadsOK, NEW t \in Request, Given(t), ~Begun(t), Begin(t)
    PROVE  (Starting(t) \/ CarryingOut(t)) /\ ProjectTypes'
<1>0. /\ shots \in [Shot -> Files \cup {NoShot}] /\ disk \in [Shot -> Files] /\ keys \in Plans
      /\ copy \in [Request -> Files \cup {NoShot}]
      /\ answer \in [Request -> {"none", "ok", "failed"}]
      /\ thread[t] = "none" /\ t \notin told
    BY DEF TypeOK, Begun
<1>1. KeyOf(t) \in Shot \cup {NoShot} /\ (Slow(t) /\ Ask(t) # "document" => OfShot(t))
    BY ScopeTypes
<1>2. CASE Slow(t) /\ RefusedAtOnce(t)
  <2>1. told' = told \cup {t} /\ UNCHANGED <<running, scope, requests, project>>
      BY <1>2 DEF Begin, Start
  <2> QED BY <1>0, <2>1 DEF CarryingOut, ProjectTypes, requests, project
<1>3. CASE Slow(t) /\ ~RefusedAtOnce(t)
  <2>1. PICK k : k = KeyOf(t)
      OBVIOUS
  <2>2. /\ running' = running \cup {t}
        /\ scope' = [scope EXCEPT ![t] = ScopeOf(t)]
        /\ thread' = [thread EXCEPT ![t] = "spawned"]
        /\ on' = [on EXCEPT ![t] = k]
        /\ IF k = NoShot THEN UNCHANGED <<copy, shots>>
           ELSE /\ copy' = [copy EXCEPT ![t] = Loaded(k)]
                /\ shots' = [shots EXCEPT ![k] = NoShot]
        /\ UNCHANGED <<answer, told, keys, disk>>
      BY <1>3, <2>1 DEF Begin, Start
  <2>3. /\ k # NoShot => k \in Shot /\ Loaded(k) \in Files
        /\ Ask(t) # "document" => k # NoShot
        /\ Ask(t) = "document" => k = NoShot /\ ScopeOf(t) = "documents"
        /\ k # NoShot => ScopeOf(t) = k
        /\ Ask(t) = "videos" => ~Follows(k)
      BY <1>0, <1>1, <1>3, <2>1 DEF RefusedAtOnce, OfShot, KeyOf, ScopeOf, Loaded
  <2>4. /\ copy' \in [Request -> Files \cup {NoShot}]
        /\ shots' \in [Shot -> Files \cup {NoShot}]
        /\ k # NoShot => copy'[t] \in Files
        /\ \A u \in Request : u # t => copy'[u] = copy[u]
    <3>1. CASE k = NoShot
        BY <1>0, <2>2, <3>1
    <3>2. CASE k # NoShot
      <4>1. PICK f \in Files : f = Loaded(k)
          BY <2>3, <3>2
      <4>2. copy' = [copy EXCEPT ![t] = f] /\ shots' = [shots EXCEPT ![k] = NoShot]
          BY <2>2, <3>2, <4>1
      <4> QED BY <1>0, <2>3, <3>2, <4>1, <4>2
    <3> QED BY <3>1, <3>2
  <2>5. ProjectTypes'
      BY <1>0, <2>2, <2>4 DEF ProjectTypes
  <2>6. Starting(t)
      BY <1>0, <1>3, <2>1, <2>2, <2>3, <2>4 DEF Starting
  <2> QED BY <2>5, <2>6
<1>4. CASE ~Slow(t)
  <2>1. /\ told' = told \cup {t}
        /\ UNCHANGED <<running, scope, thread, answer, copy, on>>
        /\ \/ (Ask(t) = "plan" /\ RunPlan)
           \/ (OfShot(t) /\ KeyOf(t) # NoShot /\ RunOnShot(t, KeyOf(t)))
           \/ (ScopeOf(t) \in {"nothing", "documents"} /\ UNCHANGED project)
      BY <1>4 DEF Begin, RunNow, requests
  <2>2. /\ keys' \in Plans /\ shots' \in [Shot -> Files \cup {NoShot}]
        /\ disk' \in [Shot -> Files]
    <3>1. CASE UNCHANGED project
        BY <1>0, <3>1 DEF project
    <3>2. CASE RunPlan /\ ~UNCHANGED project
        BY <1>0, <3>2 DEF RunPlan
    <3>3. CASE KeyOf(t) # NoShot /\ RunOnShot(t, KeyOf(t))
        BY <1>1, <3>3, RunOnShotTypes
    <3> QED BY <2>1, <3>1, <3>2, <3>3
  <2> QED BY <1>0, <2>1, <2>2 DEF CarryingOut, ProjectTypes
<1> QED BY <1>2, <1>3, <1>4

(* A request begun works apart from the others under way, and its command  *)
(* is the only one that began.                                             *)
LEMMA BegunApart ==
    ASSUME TypeOK, NoneIsLost, ThreadsOK, AllApart, NEW t \in Request, Given(t), ~Begun(t),
           NEW n, ~MustWait(t, n), Starting(t) \/ CarryingOut(t), UNCHANGED <<work, video>>
    PROVE  /\ ThreadsOK' /\ AllApart'
           /\ Begun(t)' /\ \A u \in Request : u # t => (Begun(u)' <=> Begun(u))
           /\ running' \subseteq Request /\ Cardinality(running') <= MaxParallel
           /\ scope' \in [Request -> Scope]
           /\ thread' \in [Request -> {"none", "spawned", "calling", "answered", "over"}]
           /\ on' \in [Request -> Shot \cup {NoShot}] /\ told' \subseteq Request
           /\ \A u \in running : u \in running' /\ thread'[u] = thread[u]
<1>0. /\ running \subseteq Request /\ Cardinality(running) <= MaxParallel
      /\ scope \in [Request -> Scope]
      /\ thread \in [Request -> {"none", "spawned", "calling", "answered", "over"}]
      /\ copy \in [Request -> Files \cup {NoShot}]
      /\ on \in [Request -> Shot \cup {NoShot}] /\ told \subseteq Request
      /\ thread[t] = "none" /\ t \notin told /\ t \notin running
    BY DEF TypeOK, Begun, ThreadsOK
<1>1. \A u : Slow(u)' = Slow(u) /\ Ask(u)' = Ask(u)
    BY DEF Slow, Ask
<1>2. CASE CarryingOut(t)
  <2>1. told' = told \cup {t} /\ UNCHANGED <<running, scope, thread, copy, on>>
      BY <1>2 DEF CarryingOut
  <2>2. ThreadsOK'
      BY <1>0, <1>1, <2>1 DEF ThreadsOK
  <2>3. AllApart'
      BY <1>1, <2>1 DEF AllApart, Overlaps
  <2> QED BY <1>0, <2>1, <2>2, <2>3 DEF Begun
<1>3. CASE Starting(t)
  <2>1. /\ running' = running \cup {t}
        /\ scope' = [scope EXCEPT ![t] = ScopeOf(t)]
        /\ thread' = [thread EXCEPT ![t] = "spawned"]
        /\ on' = [on EXCEPT ![t] = KeyOf(t)]
        /\ \A u \in Request : u # t => copy'[u] = copy[u]
        /\ Slow(t)
        /\ IF Ask(t) = "document" THEN KeyOf(t) = NoShot /\ ScopeOf(t) = "documents"
           ELSE KeyOf(t) \in Shot /\ ScopeOf(t) = KeyOf(t) /\ copy'[t] \in Files
        /\ Ask(t) = "videos" => ~Follows(KeyOf(t))
        /\ told' = told
      BY <1>3 DEF Starting
  <2>2. KeyOf(t) \in Shot \cup {NoShot} /\ ScopeOf(t) \in Scope
      BY ScopeTypes
  <2>3. Cardinality(running') <= MaxParallel
    <3>1. Cardinality(running) < MaxParallel
      <4>1. ~(Cardinality(running) >= MaxParallel)
          BY <2>1 DEF MustWait
      <4>2. IsFiniteSet(Request)
          BY FS_Interval DEF Request
      <4>3. Cardinality(running) \in Nat
          BY <1>0, <4>2, FS_Subset, FS_CardinalityType
      <4> QED BY <4>1, <4>3
    <3>2. IsFiniteSet(running)
      <4>1. IsFiniteSet(Request)
          BY FS_Interval DEF Request
      <4> QED BY <1>0, <4>1, FS_Subset
    <3>3. Cardinality(running \cup {t}) = Cardinality(running) + 1 /\ Cardinality(running) \in Nat
        BY <1>0, <3>2, FS_AddElement, FS_CardinalityType
    <3> QED BY <2>1, <3>1, <3>3
  <2>4. /\ scope'[t] = ScopeOf(t) /\ \A u \in Request : u # t => scope'[u] = scope[u]
        /\ thread'[t] = "spawned" /\ \A u \in Request : u # t => thread'[u] = thread[u]
        /\ on'[t] = KeyOf(t) /\ \A u \in Request : u # t => on'[u] = on[u]
      BY <1>0, <2>1
  <2>5. ThreadsOK'
    <3>1. ASSUME NEW u \in Request, u # t
          PROVE  /\ u \in running' <=> thread'[u] # "none" /\ u \notin told
                 /\ thread'[u] # "none" =>
                       /\ Slow(u)
                       /\ IF Ask(u) = "document" THEN on'[u] = NoShot /\ scope'[u] = "documents"
                          ELSE on'[u] \in Shot /\ scope'[u] = on'[u]
                 /\ thread'[u] \in {"spawned", "calling", "answered"} =>
                       u \notin told /\ (on'[u] # NoShot => copy'[u] \in Files)
                 /\ video[u] # "none" =>
                       Ask(u) = "videos" /\ thread'[u] \in {"answered", "over"}
                 /\ video[u] = "submitted" => u \notin told
                 /\ video[u] \notin {"none", "submitted"} => u \in told
        BY <2>1, <2>4, <3>1 DEF ThreadsOK
    <3>2. /\ t \in running' /\ thread'[t] # "none" /\ t \notin told /\ Slow(t)
          /\ IF Ask(t) = "document" THEN on'[t] = NoShot /\ scope'[t] = "documents"
             ELSE on'[t] \in Shot /\ scope'[t] = on'[t]
          /\ on'[t] # NoShot => copy'[t] \in Files
          /\ video[t] = "none"
        BY <1>0, <2>1, <2>4 DEF ThreadsOK
    <3> QED BY <1>1, <2>1, <3>1, <3>2 DEF ThreadsOK
  <2>6. AllApart'
    <3>1. \A u \in running : ~Overlaps(scope[u], ScopeOf(t)) /\ ~Overlaps(ScopeOf(t), scope[u])
        BY DEF MustWait, Overlaps
    <3>2. ASSUME NEW a \in running', NEW b \in running', a # b
          PROVE  ~Overlaps(scope'[a], scope'[b])
        BY <1>0, <2>1, <2>4, <3>1, <3>2 DEF AllApart
    <3>3. ASSUME NEW v \in Request, NEW w \in running',
                 video[v] \in {"followed", "ready", "lost"}, Ask(w) = "videos"
          PROVE  on'[v] # on'[w]
      <4>1. v # t
          BY <1>0, <3>3 DEF ThreadsOK
      <4> QED BY <1>0, <2>1, <2>4, <3>3, <4>1 DEF AllApart, Follows
    <3> QED BY <1>1, <3>2, <3>3 DEF AllApart, Overlaps
  <2> QED BY <1>0, <2>1, <2>2, <2>3, <2>4, <2>5, <2>6 DEF Begun
<1> QED BY <1>2, <1>3
-----------------------------------------------------------------------------
(* The worker's loop.                                                      *)

(* The message the worker takes, and those it leaves.                      *)
LEMMA MessageTaken ==
    ASSUME TypeOK, MessagesOK, inbox # <<>>, inbox' = Tail(inbox),
           NEW t, t = Head(inbox).request
    PROVE  /\ t \in Request /\ inbox' \in Seq(Message) /\ Head(inbox).done \in BOOLEAN
           /\ IF Head(inbox).done THEN t \in running /\ thread[t] = "over"
              ELSE Given(t) /\ ~Begun(t) /\ \A j \in DOMAIN waiting : waiting[j] < t
           /\ \A i \in DOMAIN inbox' :
                 /\ inbox'[i].request \in Request
                 /\ IF inbox'[i].done
                    THEN /\ inbox'[i].request \in running
                         /\ thread[inbox'[i].request] = "over"
                         /\ Head(inbox).done => inbox'[i].request # t
                    ELSE /\ Given(inbox'[i].request) /\ ~Begun(inbox'[i].request)
                         /\ \A j \in DOMAIN waiting : waiting[j] < inbox'[i].request
                         /\ ~Head(inbox).done => t < inbox'[i].request
           /\ \A i, j \in DOMAIN inbox' :
                 i < j /\ inbox'[i].done = inbox'[j].done =>
                     IF inbox'[i].done THEN inbox'[i].request # inbox'[j].request
                     ELSE inbox'[i].request < inbox'[j].request
           /\ \A u : IsNew(u) => IsNew(u)' \/ (u = t /\ ~Head(inbox).done)
<1>0. inbox \in Seq(Message)
    BY DEF TypeOK
<1>1. /\ Len(inbox) \in Nat \ {0} /\ DOMAIN inbox = 1..Len(inbox)
      /\ Head(inbox) = inbox[1] /\ inbox[1] \in Message
      /\ inbox' \in Seq(Message) /\ DOMAIN inbox' = 1..(Len(inbox) - 1)
      /\ \A i \in 1..(Len(inbox) - 1) : inbox'[i] = inbox[i + 1]
    BY <1>0, TakenFirst
<1>2. \A i \in DOMAIN inbox : inbox[i].request \in Request /\ inbox[i].done \in BOOLEAN
  <2>1. \A i \in DOMAIN inbox : inbox[i] \in Message
      BY <1>0, <1>1, ElementOfSeq
  <2> QED BY <2>1 DEF Message
<1>3. 1 \in DOMAIN inbox /\ t = inbox[1].request /\ Head(inbox).done = inbox[1].done
    BY <1>1
<1>4. IF Head(inbox).done THEN t \in running /\ thread[t] = "over"
      ELSE Given(t) /\ ~Begun(t) /\ \A j \in DOMAIN waiting : waiting[j] < t
    BY <1>3 DEF MessagesOK
<1>5. ASSUME NEW i \in DOMAIN inbox'
      PROVE  /\ inbox'[i].request \in Request
             /\ IF inbox'[i].done
                THEN /\ inbox'[i].request \in running
                     /\ thread[inbox'[i].request] = "over"
                     /\ Head(inbox).done => inbox'[i].request # t
                ELSE /\ Given(inbox'[i].request) /\ ~Begun(inbox'[i].request)
                     /\ \A j \in DOMAIN waiting : waiting[j] < inbox'[i].request
                     /\ ~Head(inbox).done => t < inbox'[i].request
  <2>1. PICK k \in DOMAIN inbox : k = i + 1 /\ inbox'[i] = inbox[k] /\ 1 < k
      BY <1>1
  <2>2. Head(inbox).done \in BOOLEAN /\ inbox[k].done \in BOOLEAN
      BY <1>2, <1>3
  <2>3. inbox[1].done = inbox[k].done =>
            IF inbox[1].done THEN inbox[1].request # inbox[k].request
            ELSE inbox[1].request < inbox[k].request
      BY <1>3, <2>1 DEF MessagesOK
  <2>4. IF inbox[k].done
        THEN inbox[k].request \in running /\ thread[inbox[k].request] = "over"
        ELSE /\ Given(inbox[k].request) /\ ~Begun(inbox[k].request)
             /\ \A j \in DOMAIN waiting : waiting[j] < inbox[k].request
      BY DEF MessagesOK
  <2>5. inbox[k].request \in Request
      BY <1>2
  <2> QED BY <1>3, <2>1, <2>2, <2>3, <2>4, <2>5
<1>6. ASSUME NEW i \in DOMAIN inbox', NEW j \in DOMAIN inbox', i < j,
             inbox'[i].done = inbox'[j].done
      PROVE  IF inbox'[i].done THEN inbox'[i].request # inbox'[j].request
             ELSE inbox'[i].request < inbox'[j].request
  <2>1. PICK k \in DOMAIN inbox, m \in DOMAIN inbox :
            k < m /\ inbox'[i] = inbox[k] /\ inbox'[j] = inbox[m]
    <3>1. /\ i + 1 \in DOMAIN inbox /\ j + 1 \in DOMAIN inbox /\ i + 1 < j + 1
          /\ inbox'[i] = inbox[i + 1] /\ inbox'[j] = inbox[j + 1]
        BY <1>1, <1>6
    <3> QED BY <3>1
  <2> QED BY <1>6, <2>1 DEF MessagesOK
<1>7. ASSUME NEW u, IsNew(u)
      PROVE  IsNew(u)' \/ (u = t /\ ~Head(inbox).done)
  <2>1. PICK i \in DOMAIN inbox : ~inbox[i].done /\ inbox[i].request = u
      BY <1>7 DEF IsNew
  <2>2. CASE i = 1
      BY <1>3, <2>1, <2>2
  <2>3. CASE i # 1
    <3>1. i - 1 \in DOMAIN inbox' /\ inbox'[i - 1] = inbox[i]
        BY <1>1, <2>3
    <3> QED BY <2>1, <3>1 DEF IsNew
  <2> QED BY <2>2, <2>3
<1> QED BY <1>1, <1>2, <1>3, <1>4, <1>5, <1>6, <1>7

LEMMA TakeInKeeps ==
    ASSUME SessionIInv, TakeIn
    PROVE  SessionIInv'
<1> USE DEF SessionIInv
<1>1. PICK t : t = Head(inbox).request
    OBVIOUS
<1>2. /\ step = "idle" /\ inbox # <<>> /\ Head(inbox).done
      /\ running' = running \ {t}
      /\ shots' = IF on[t] = NoShot THEN shots
                  ELSE Publishing([shots EXCEPT ![on[t]] = copy[t]], disk, InPlay \cap {on[t]})
      /\ video' = Followed(t)
      /\ told' = told \cup {t} /\ inbox' = Tail(inbox) /\ step' = "dispatching"
      /\ UNCHANGED <<closed, work, waiting, scope, thread, answer, copy, on, keys, disk>>
    BY <1>1, Zenon DEF TakeIn, requests
<1>3. /\ t \in Request /\ inbox' \in Seq(Message) /\ t \in running /\ thread[t] = "over"
      /\ \A i \in DOMAIN inbox' :
            /\ inbox'[i].request \in Request
            /\ IF inbox'[i].done
               THEN /\ inbox'[i].request \in running
                    /\ thread[inbox'[i].request] = "over"
                    /\ inbox'[i].request # t
               ELSE /\ Given(inbox'[i].request) /\ ~Begun(inbox'[i].request)
                    /\ \A j \in DOMAIN waiting : waiting[j] < inbox'[i].request
      /\ \A i, j \in DOMAIN inbox' :
            i < j /\ inbox'[i].done = inbox'[j].done =>
                IF inbox'[i].done THEN inbox'[i].request # inbox'[j].request
                ELSE inbox'[i].request < inbox'[j].request
      /\ \A u : IsNew(u) => IsNew(u)'
    BY <1>1, <1>2, MessageTaken
<1>4. /\ running \subseteq Request /\ Cardinality(running) <= MaxParallel
      /\ video \in [Request -> {"none", "submitted", "followed", "ready",
                                "lost", "attached", "retired", "left"}]
      /\ shots \in [Shot -> Files \cup {NoShot}] /\ disk \in [Shot -> Files]
      /\ on \in [Request -> Shot \cup {NoShot}] /\ copy \in [Request -> Files \cup {NoShot}]
      /\ told \subseteq Request /\ t \notin told
    BY <1>3 DEF TypeOK, ThreadsOK
<1>5. /\ video'[t] = IF video[t] = "submitted" THEN "followed" ELSE video[t]
      /\ \A u \in Request : u # t => video'[u] = video[u]
      /\ video' \in [Request -> {"none", "submitted", "followed", "ready",
                                 "lost", "attached", "retired", "left"}]
    BY <1>2, <1>3, <1>4 DEF Followed
<1>6. shots' \in [Shot -> Files \cup {NoShot}]
  <2>1. CASE on[t] = NoShot
      BY <1>2, <1>4, <2>1
  <2>2. CASE on[t] # NoShot
    <3>1. PICK held \in [Shot -> Files \cup {NoShot}] :
              held = [shots EXCEPT ![on[t]] = copy[t]]
        BY <1>3, <1>4, <2>2
    <3>2. shots' = Publishing(held, disk, InPlay \cap {on[t]})
        BY <1>2, <2>2, <3>1
    <3> QED BY <1>4, <3>2 DEF Publishing
  <2> QED BY <2>1, <2>2
<1>7. running' \subseteq Request /\ Cardinality(running') <= MaxParallel
  <2>1. IsFiniteSet(running)
    <3>1. IsFiniteSet(Request)
        BY FS_Interval DEF Request
    <3> QED BY <1>4, <3>1, FS_Subset
  <2>2. /\ Cardinality(running') = Cardinality(running) - 1 /\ Cardinality(running) \in Nat
      BY <1>2, <1>3, <2>1, FS_RemoveElement, FS_CardinalityType
  <2> QED BY <1>2, <1>4, <2>2
<1>8. TypeOK'
    BY <1>2, <1>3, <1>4, <1>5, <1>6, <1>7 DEF TypeOK
<1>9. \A u : (Begun(u)' <=> Begun(u)) /\ (Given(u)' <=> Given(u))
    BY <1>2, <1>3 DEF Begun, Given
<1>10. MessagesOK'
    BY <1>2, <1>3, <1>9 DEF MessagesOK
<1>11. QueueOK' /\ NoneIsLost'
    BY <1>2, <1>3, <1>9 DEF QueueOK, NoneIsLost, Waits
<1>12. \A u : Slow(u)' = Slow(u) /\ Ask(u)' = Ask(u)
    BY <1>2 DEF Slow, Ask
<1>13. ThreadsOK'
  <2>1. ASSUME NEW u \in Request, u # t
        PROVE  /\ u \in running' <=> thread[u] # "none" /\ u \notin told'
               /\ thread[u] # "none" =>
                     /\ Slow(u)
                     /\ IF Ask(u) = "document" THEN on[u] = NoShot /\ scope[u] = "documents"
                        ELSE on[u] \in Shot /\ scope[u] = on[u]
               /\ thread[u] \in {"spawned", "calling", "answered"} =>
                     u \notin told' /\ (on[u] # NoShot => copy[u] \in Files)
               /\ video'[u] # "none" => Ask(u) = "videos" /\ thread[u] \in {"answered", "over"}
               /\ video'[u] = "submitted" => u \notin told'
               /\ video'[u] \notin {"none", "submitted"} => u \in told'
      BY <1>2, <1>5, <2>1 DEF ThreadsOK
  <2>2. /\ t \notin running' /\ t \in told' /\ Slow(t)
        /\ IF Ask(t) = "document" THEN on[t] = NoShot /\ scope[t] = "documents"
           ELSE on[t] \in Shot /\ scope[t] = on[t]
        /\ video'[t] # "submitted"
        /\ video'[t] # "none" => Ask(t) = "videos"
      BY <1>2, <1>3, <1>5 DEF ThreadsOK
  <2> QED BY <1>2, <1>3, <1>12, <2>1, <2>2 DEF ThreadsOK
<1>14. AllApart'
  <2>1. \A a \in running', b \in running' : a # b => ~Overlaps(scope[a], scope[b])
      BY <1>2 DEF AllApart
  <2>2. ASSUME NEW v \in Request, NEW w \in running', Ask(w) = "videos",
               video'[v] \in {"followed", "ready", "lost"}
        PROVE  on[v] # on[w]
    <3>1. w \in running /\ w # t /\ w \in Request
        BY <1>2, <1>4
    <3>2. CASE video[v] \in {"followed", "ready", "lost"}
        BY <2>2, <3>1, <3>2 DEF AllApart
    <3>3. CASE v = t /\ video[t] = "submitted"
      <4>1. Ask(t) = "videos" /\ thread[t] # "none" /\ thread[w] # "none"
          BY <1>3, <3>1, <3>3 DEF ThreadsOK
      <4>2. on[t] \in Shot /\ scope[t] = on[t] /\ on[w] \in Shot /\ scope[w] = on[w]
          BY <1>3, <2>2, <3>1, <4>1 DEF ThreadsOK
      <4>3. ~Overlaps(scope[t], scope[w])
          BY <1>3, <3>1 DEF AllApart
      <4> QED BY <3>3, <4>2, <4>3 DEF Overlaps
    <3> QED BY <1>5, <2>2, <3>2, <3>3
  <2> QED BY <1>2, <1>12, <2>1, <2>2 DEF AllApart, Overlaps
<1>15. LoopOK'
    BY <1>2 DEF LoopOK
<1> QED BY <1>8, <1>10, <1>11, <1>13, <1>14, <1>15

LEMMA ArriveKeeps ==
    ASSUME SessionIInv, Arrive
    PROVE  SessionIInv'
<1> USE DEF SessionIInv
<1>1. PICK t : t = Head(inbox).request
    OBVIOUS
<1>2. /\ step = "idle" /\ inbox # <<>> /\ ~Head(inbox).done
      /\ inbox' = Tail(inbox) /\ step' = "dispatching"
      /\ UNCHANGED <<closed, work, video>>
    BY DEF Arrive
<1>3. /\ t \in Request /\ inbox' \in Seq(Message) /\ Given(t) /\ ~Begun(t)
      /\ \A j \in DOMAIN waiting : waiting[j] < t
      /\ \A i \in DOMAIN inbox' :
            /\ inbox'[i].request \in Request
            /\ IF inbox'[i].done
               THEN /\ inbox'[i].request \in running
                    /\ thread[inbox'[i].request] = "over"
               ELSE /\ Given(inbox'[i].request) /\ ~Begun(inbox'[i].request)
                    /\ \A j \in DOMAIN waiting : waiting[j] < inbox'[i].request
                    /\ t < inbox'[i].request
      /\ \A i, j \in DOMAIN inbox' :
            i < j /\ inbox'[i].done = inbox'[j].done =>
                IF inbox'[i].done THEN inbox'[i].request # inbox'[j].request
                ELSE inbox'[i].request < inbox'[j].request
      /\ \A u : IsNew(u) => IsNew(u)' \/ u = t
    BY <1>1, <1>2, MessageTaken
<1>4. LoopOK'
    BY <1>2 DEF LoopOK
<1>5. CASE MustWait(t, Len(waiting))
  <2>1. /\ waiting' = Append(waiting, t)
        /\ UNCHANGED <<running, scope, thread, answer, copy, on, told, keys, shots, disk>>
      BY <1>1, <1>5 DEF Arrive, requests, project
  <2>2. waiting \in Seq(Request)
      BY DEF TypeOK
  <2>3. /\ waiting' \in Seq(Request) /\ waiting'[Len(waiting) + 1] = t
        /\ DOMAIN waiting' = 1..(Len(waiting) + 1) /\ DOMAIN waiting = 1..Len(waiting)
        /\ Len(waiting) \in Nat /\ \A i \in 1..Len(waiting) : waiting'[i] = waiting[i]
      BY <1>3, <2>1, <2>2, OneMore
  <2>4. TypeOK'
      BY <1>2, <1>3, <2>1, <2>3 DEF TypeOK
  <2>5. \A u : (Begun(u)' <=> Begun(u)) /\ (Given(u)' <=> Given(u))
      BY <1>2, <2>1 DEF Begun, Given
  <2>6. MessagesOK'
    <3>1. ASSUME NEW i \in DOMAIN inbox', ~inbox'[i].done, NEW j \in DOMAIN waiting'
          PROVE  waiting'[j] < inbox'[i].request
      <4>1. CASE j \in DOMAIN waiting
          BY <1>3, <2>3, <3>1, <4>1
      <4>2. CASE j = Len(waiting) + 1
          BY <1>3, <2>3, <3>1, <4>2
      <4> QED BY <2>3, <4>1, <4>2
    <3> QED BY <1>3, <2>1, <2>5, <3>1 DEF MessagesOK
  <2>7. QueueOK'
    <3>1. ASSUME NEW i \in DOMAIN waiting'
          PROVE  Given(waiting'[i]) /\ ~Begun(waiting'[i])
        BY <1>3, <2>3 DEF QueueOK
    <3>2. ASSUME NEW i \in DOMAIN waiting', NEW j \in DOMAIN waiting', i < j
          PROVE  waiting'[i] < waiting'[j]
        BY <1>3, <2>3, <3>2 DEF QueueOK
    <3> QED BY <2>5, <3>1, <3>2 DEF QueueOK
  <2>8. NoneIsLost'
    <3>1. \A u : Waits(u) \/ u = t => Waits(u)'
        BY <2>3 DEF Waits
    <3> QED BY <1>3, <2>5, <3>1 DEF NoneIsLost
  <2>9. ThreadsOK' /\ AllApart'
      BY <1>2, <2>1 DEF ThreadsOK, AllApart, Slow, Ask, Overlaps
  <2> QED BY <1>4, <2>4, <2>6, <2>7, <2>8, <2>9
<1>6. CASE ~MustWait(t, Len(waiting))
  <2>1. Begin(t) /\ waiting' = waiting
      BY <1>1, <1>6 DEF Arrive
  <2>2. (Starting(t) \/ CarryingOut(t)) /\ ProjectTypes'
      BY <1>3, <2>1, Begins
  <2>3. UNCHANGED <<work, video>>
      BY <1>2
  <2>4. /\ ThreadsOK' /\ AllApart'
        /\ Begun(t)' /\ \A u \in Request : u # t => (Begun(u)' <=> Begun(u))
        /\ running' \subseteq Request /\ Cardinality(running') <= MaxParallel
        /\ scope' \in [Request -> Scope]
        /\ thread' \in [Request -> {"none", "spawned", "calling", "answered", "over"}]
        /\ on' \in [Request -> Shot \cup {NoShot}] /\ told' \subseteq Request
        /\ \A u \in running : u \in running' /\ thread'[u] = thread[u]
      BY <1>3, <1>6, <2>2, <2>3, BegunApart
  <2>5. TypeOK'
      BY <1>2, <1>3, <2>1, <2>2, <2>4 DEF TypeOK, ProjectTypes
  <2>6. \A u : Given(u)' <=> Given(u)
      BY <1>2 DEF Given
  <2>7. MessagesOK'
    <3>1. \A i \in DOMAIN inbox' : ~inbox'[i].done => inbox'[i].request # t
        BY <1>3 DEF Request
    <3> QED BY <1>3, <2>1, <2>4, <2>6, <3>1 DEF MessagesOK
  <2>8. QueueOK'
    <3>1. \A i \in DOMAIN waiting : waiting[i] \in Request /\ waiting[i] # t
      <4>1. \A i \in DOMAIN waiting : waiting[i] \in Request
          BY ElementOfSeq, LenProperties DEF TypeOK
      <4> QED BY <1>3, <4>1 DEF Request
    <3> QED BY <2>1, <2>4, <2>6, <3>1 DEF QueueOK
  <2>9. NoneIsLost'
      BY <1>3, <2>1, <2>4, <2>6 DEF NoneIsLost, Waits
  <2> QED BY <1>4, <2>4, <2>5, <2>7, <2>8, <2>9
<1> QED BY <1>5, <1>6

LEMMA StartWaitingKeeps ==
    ASSUME SessionIInv, StartWaiting
    PROVE  SessionIInv'
<1> USE DEF SessionIInv
<1>1. PICK n \in Startable :
          /\ Begin(waiting[n])
          /\ waiting' = SubSeq(waiting, 1, n - 1) \o SubSeq(waiting, n + 1, Len(waiting))
    BY DEF StartWaiting
<1>2. step = "dispatching" /\ UNCHANGED <<closed, work, inbox, step, video>>
    BY DEF StartWaiting
<1>3. PICK t : t = waiting[n]
    OBVIOUS
<1>4. /\ waiting \in Seq(Request) /\ n \in 1..Len(waiting) /\ ~MustWait(t, n - 1)
      /\ DOMAIN waiting = 1..Len(waiting) /\ Len(waiting) \in Nat
      /\ \A i \in DOMAIN waiting : waiting[i] \in Request
  <2>1. waiting \in Seq(Request) /\ n \in 1..Len(waiting) /\ ~MustWait(waiting[n], n - 1)
      BY DEF TypeOK, Startable
  <2> QED BY <1>3, <2>1, LenProperties, ElementOfSeq
<1>4a. PICK m \in Nat : m = Len(waiting)
    BY <1>4
<1>4b. DOMAIN waiting = 1..m /\ n \in 1..m
    BY <1>4, <1>4a
<1>5. /\ waiting' \in Seq(Request) /\ DOMAIN waiting' = 1..(m - 1)
      /\ \A j \in 1..(m - 1) : waiting'[j] = IF j < n THEN waiting[j] ELSE waiting[j + 1]
  <2>1. \A k \in Nat : k = Len(waiting) => \A i \in 1..k : \A rest :
            rest = SubSeq(waiting, 1, i - 1) \o SubSeq(waiting, i + 1, Len(waiting)) =>
                /\ rest \in Seq(Request) /\ DOMAIN rest = 1..(k - 1)
                /\ \A j \in 1..(k - 1) :
                      rest[j] = IF j < i THEN waiting[j] ELSE waiting[j + 1]
      BY <1>4, LeftWaiting, Zenon
  <2>2. \A i \in 1..m : \A rest :
            rest = SubSeq(waiting, 1, i - 1) \o SubSeq(waiting, i + 1, Len(waiting)) =>
                /\ rest \in Seq(Request) /\ DOMAIN rest = 1..(m - 1)
                /\ \A j \in 1..(m - 1) :
                      rest[j] = IF j < i THEN waiting[j] ELSE waiting[j + 1]
      BY <1>4a, <2>1
  <2>3. n \in 1..m
      BY <1>4b
  <2> QED BY <1>1, <2>2, <2>3, Zenon
<1>6. t \in Request /\ Given(t) /\ ~Begun(t)
    BY <1>3, <1>4 DEF QueueOK
<1>7. (Starting(t) \/ CarryingOut(t)) /\ ProjectTypes'
    BY <1>1, <1>3, <1>6, Begins
<1>8. /\ ThreadsOK' /\ AllApart'
      /\ Begun(t)' /\ \A u \in Request : u # t => (Begun(u)' <=> Begun(u))
      /\ running' \subseteq Request /\ Cardinality(running') <= MaxParallel
      /\ scope' \in [Request -> Scope]
      /\ thread' \in [Request -> {"none", "spawned", "calling", "answered", "over"}]
      /\ on' \in [Request -> Shot \cup {NoShot}] /\ told' \subseteq Request
      /\ \A u \in running : u \in running' /\ thread'[u] = thread[u]
    BY <1>2, <1>4, <1>6, <1>7, BegunApart
<1>9. TypeOK'
    BY <1>2, <1>5, <1>7, <1>8 DEF TypeOK, ProjectTypes
<1>10. \A u : Given(u)' <=> Given(u)
    BY <1>2 DEF Given
<1>11. \A j \in DOMAIN waiting' : \E i \in DOMAIN waiting :
          waiting'[j] = waiting[i] /\ i # n /\ i = IF j < n THEN j ELSE j + 1
  <2>1. ASSUME NEW j \in 1..(m - 1)
        PROVE  \E i \in 1..m :
                  waiting'[j] = waiting[i] /\ i # n /\ i = IF j < n THEN j ELSE j + 1
      BY <1>4b, <1>5, <2>1
  <2> QED BY <1>5, <1>4b, <2>1
<1>12. ASSUME NEW j \in DOMAIN waiting'
       PROVE  waiting'[j] \in Request /\ waiting'[j] # t /\ Waits(waiting'[j])
  <2>1. PICK i \in DOMAIN waiting : waiting'[j] = waiting[i] /\ i # n
      BY <1>11
  <2>2. waiting[i] # waiting[n]
    <3>1. waiting[i] < waiting[n] \/ waiting[n] < waiting[i]
        BY <1>4, <2>1 DEF QueueOK
    <3> QED BY <1>4, <3>1 DEF Request
  <2> QED BY <1>3, <1>4, <2>1, <2>2 DEF Waits
<1>13. MessagesOK'
  <2>1. ASSUME NEW i \in DOMAIN inbox
        PROVE  IF inbox[i].done
               THEN inbox[i].request \in running' /\ thread'[inbox[i].request] = "over"
               ELSE /\ Given(inbox[i].request) /\ ~Begun(inbox[i].request)'
                    /\ \A j \in DOMAIN waiting' : waiting'[j] < inbox[i].request
    <3>1. inbox[i].request \in Request
      <4>1. inbox \in Seq(Message)
          BY DEF TypeOK
      <4>2. inbox[i] \in Message
          BY <4>1, ElementOfSeq, LenProperties
      <4> QED BY <4>2 DEF Message
    <3>2. CASE inbox[i].done
        BY <1>8, <3>2 DEF MessagesOK
    <3>3. CASE ~inbox[i].done
      <4>1. \A j \in DOMAIN waiting : waiting[j] < inbox[i].request
          BY <3>3 DEF MessagesOK
      <4>2. inbox[i].request # t
        <5>1. t < inbox[i].request
            BY <1>3, <1>4, <4>1
        <5> QED BY <1>6, <3>1, <5>1 DEF Request
      <4>3. \A j \in DOMAIN waiting' : waiting'[j] < inbox[i].request
          BY <1>12, <4>1 DEF Waits
      <4>4. Given(inbox[i].request) /\ ~Begun(inbox[i].request)
          BY <3>3 DEF MessagesOK
      <4>5. PICK u \in Request : u = inbox[i].request
          BY <3>1
      <4>6. ~Begun(u)'
          BY <1>8, <4>2, <4>4, <4>5
      <4> QED BY <1>2, <3>3, <4>3, <4>4, <4>5, <4>6
    <3> QED BY <3>2, <3>3
  <2> QED BY <1>2, <1>10, <2>1 DEF MessagesOK
<1>14. QueueOK'
  <2>1. ASSUME NEW j \in DOMAIN waiting', NEW u, u = waiting'[j]
        PROVE  Given(u)' /\ ~Begun(u)'
    <3>1. u \in Request /\ u # t /\ Waits(u)
        BY <1>12, <2>1
    <3>2. Given(u) /\ ~Begun(u)
        BY <3>1 DEF QueueOK, Waits
    <3> QED BY <1>8, <1>10, <3>1, <3>2
  <2>2. ASSUME NEW j \in DOMAIN waiting', NEW k \in DOMAIN waiting', j < k
        PROVE  waiting'[j] < waiting'[k]
    <3>1. PICK a \in DOMAIN waiting : waiting'[j] = waiting[a] /\ a = IF j < n THEN j ELSE j + 1
        BY <1>11
    <3>2. PICK b \in DOMAIN waiting : waiting'[k] = waiting[b] /\ b = IF k < n THEN k ELSE k + 1
        BY <1>11
    <3>3. a < b
        BY <1>4b, <1>5, <2>2, <3>1, <3>2
    <3> QED BY <3>1, <3>2, <3>3 DEF QueueOK
  <2> QED BY <2>1, <2>2 DEF QueueOK
<1>15. NoneIsLost'
  <2>1. ASSUME NEW u, Waits(u), u # t
        PROVE  Waits(u)'
    <3>1. PICK i \in DOMAIN waiting : waiting[i] = u /\ i # n
        BY <1>3, <2>1 DEF Waits
    <3>2. CASE i < n
      <4>1. i \in 1..(m - 1)
          BY <1>4b, <3>2
      <4> QED BY <1>5, <3>1, <3>2, <4>1 DEF Waits
    <3>3. CASE n < i
      <4>1. i - 1 \in 1..(m - 1) /\ ~(i - 1 < n) /\ i - 1 + 1 = i
          BY <1>4b, <3>3
      <4>2. waiting'[i - 1] = u
          BY <1>5, <3>1, <4>1
      <4> QED BY <1>5, <4>1, <4>2 DEF Waits
    <3> QED BY <1>4b, <3>1, <3>2, <3>3
  <2>2. \A u : IsNew(u)' <=> IsNew(u)
      BY <1>2 DEF IsNew
  <2> QED BY <1>6, <1>8, <1>10, <2>1, <2>2 DEF NoneIsLost
<1>16. LoopOK'
    BY <1>2 DEF LoopOK
<1> QED BY <1>8, <1>9, <1>13, <1>14, <1>15, <1>16

(* The loop goes on to its next place, and nothing else changes.           *)
LEMMA LoopMoves ==
    ASSUME SessionIInv, WakeUp \/ StartedAll \/ Rest \/ StopLoop \/ EndSession
    PROVE  SessionIInv'
<1> USE DEF SessionIInv
<1>1. /\ UNCHANGED <<closed, work, inbox, waiting, running, scope, thread, answer, copy, on, told,
                     keys, shots, disk, video>>
      /\ step' \in {"idle", "dispatching", "collecting", "joining", "ended"}
    BY DEF WakeUp, StartedAll, Rest, StopLoop, EndSession, dispatch, requests, project
<1>2. TypeOK'
    BY <1>1 DEF TypeOK
<1>3. MessagesOK' /\ QueueOK' /\ NoneIsLost'
    BY <1>1 DEF MessagesOK, QueueOK, NoneIsLost, Given, Begun, IsNew, Waits
<1>4. ThreadsOK' /\ AllApart'
    BY <1>1 DEF ThreadsOK, AllApart, Slow, Ask, Overlaps
<1>5. CASE WakeUp \/ Rest
  <2>1. \/ step = "idle" /\ step' = "collecting"
        \/ step = "collecting" /\ step' = "idle"
      BY <1>5 DEF WakeUp, Rest
  <2>2. step # "ended" /\ closed' = closed
      BY <1>1, <2>1
  <2>3. LoopOK'
      BY <1>1, <2>1, <2>2, LoopFrame
  <2> QED BY <1>2, <1>3, <1>4, <2>3
<1>6. CASE StartedAll
  <2>1. \A i \in 1..Len(waiting) : MustWait(waiting[i], i - 1)
      BY <1>6 DEF StartedAll, Startable
  <2>2. DOMAIN waiting = 1..Len(waiting)
      BY LenProperties DEF TypeOK
  <2>3. \A t, n : MustWait(t, n) => MustWait(t, n)'
    <3>1. \A t : ScopeOf(t)' = ScopeOf(t) /\ Slow(t)' = Slow(t)
        BY <1>1 DEF ScopeOf, KeyOf, OfShot, Ask, Slow
    <3>2. \A i : ScopeOf(waiting[i])' = ScopeOf(waiting[i])
        BY <1>1 DEF ScopeOf, KeyOf, OfShot, Ask
    <3>3. ASSUME NEW t, NEW n, MustWait(t, n)
          PROVE  MustWait(t, n)'
      <4>1. CASE \E u \in running : Overlaps(scope[u], ScopeOf(t))
          BY <1>1, <3>1, <4>1 DEF MustWait, Overlaps
      <4>2. CASE \E i \in 1..n : Overlaps(ScopeOf(waiting[i]), ScopeOf(t))
          BY <1>1, <3>1, <3>2, <4>2 DEF MustWait, Overlaps
      <4>3. CASE Slow(t) /\ Cardinality(running) >= MaxParallel
          BY <1>1, <3>1, <4>3 DEF MustWait
      <4> QED BY <3>3, <4>1, <4>2, <4>3 DEF MustWait
    <3> QED BY <3>3
  <2>4. step' = "collecting"
      BY <1>6 DEF StartedAll
  <2>5. \A i \in DOMAIN waiting : MustWait(waiting[i], i - 1)'
      BY <1>1, <2>1, <2>2, <2>3
  <2>6. LoopOK'
      BY <1>1, <2>4, <2>5 DEF LoopOK
  <2> QED BY <1>2, <1>3, <1>4, <2>6
<1>7. CASE StopLoop \/ EndSession
  <2>1. closed' /\ step' \in {"joining", "ended"} /\ (step' = "ended" => Joined)
      BY <1>1, <1>7 DEF StopLoop, EndSession, LoopOK
  <2>2. Joined => Joined'
      BY <1>1 DEF Joined
  <2>3. LoopOK'
      BY <2>1, <2>2 DEF LoopOK
  <2> QED BY <1>2, <1>3, <1>4, <2>3
<1> QED BY <1>5, <1>6, <1>7

LEMMA FinishVideoKeeps ==
    ASSUME SessionIInv, FinishVideo
    PROVE  SessionIInv'
<1>0. /\ TypeOK /\ ThreadsOK
      /\ UNCHANGED <<closed, work, inbox, step, waiting, running, scope, thread, answer, copy, on,
                     told, keys>>
    BY DEF SessionIInv, FinishVideo, dispatch, requests
<1>1. /\ shots \in [Shot -> Files \cup {NoShot}] /\ disk \in [Shot -> Files]
      /\ on \in [Request -> Shot \cup {NoShot}]
    BY <1>0 DEF TypeOK
<1>2. PICK v \in Request :
          LET k == on[v]
              files == [Loaded(k) EXCEPT !.videos = @ \cup {v}]
          IN  \/ /\ video[v] = "ready"
                 /\ disk' = [disk EXCEPT ![k] = files]
                 /\ shots' = [shots EXCEPT ![k] = files]
                 /\ video' = [video EXCEPT ![v] = "attached"]
              \/ /\ video[v] = "lost"
                 /\ disk' = disk
                 /\ shots' = Publishing([shots EXCEPT ![k] = NoShot], disk, InPlay \cap {k})
                 /\ video' = [video EXCEPT ![v] = "retired"]
    BY Zenon DEF FinishVideo
<1>3. PICK k : k = on[v]
    OBVIOUS
<1>4. PICK files : files = [Loaded(k) EXCEPT !.videos = @ \cup {v}]
    OBVIOUS
<1>5. \/ /\ video[v] = "ready"
         /\ disk' = [disk EXCEPT ![k] = files]
         /\ shots' = [shots EXCEPT ![k] = files]
         /\ video' = [video EXCEPT ![v] = "attached"]
      \/ /\ video[v] = "lost"
         /\ disk' = disk
         /\ shots' = Publishing([shots EXCEPT ![k] = NoShot], disk, InPlay \cap {k})
         /\ video' = [video EXCEPT ![v] = "retired"]
    BY <1>2, <1>3, <1>4, Zenon
<1>6. k \in Shot
  <2>1. video[v] # "none"
      BY <1>5
  <2>2. Ask(v) = "videos" /\ thread[v] # "none"
      BY <1>0, <2>1 DEF ThreadsOK
  <2> QED BY <1>0, <1>3, <2>2 DEF ThreadsOK
<1>7. files \in Files
  <2>1. Loaded(k) \in Files
      BY <1>1, <1>6 DEF Loaded
  <2> QED BY <1>4, <2>1 DEF Files
<1>8. shots' \in [Shot -> Files \cup {NoShot}] /\ disk' \in [Shot -> Files]
  <2>1. CASE video[v] = "ready"
      BY <1>1, <1>5, <1>6, <1>7, <2>1
  <2>2. CASE video[v] = "lost"
    <3>1. PICK held \in [Shot -> Files \cup {NoShot}] : held = [shots EXCEPT ![k] = NoShot]
        BY <1>1, <1>6
    <3>2. shots' = Publishing(held, disk, InPlay \cap {k}) /\ disk' = disk
        BY <1>5, <2>2, <3>1
    <3> QED BY <1>1, <3>1, <3>2 DEF Publishing
  <2> QED BY <1>5, <2>1, <2>2
<1>9. PICK s \in {"attached", "retired"} :
          video[v] \in {"ready", "lost"} /\ video' = [video EXCEPT ![v] = s]
    BY <1>5
<1>10. TypeOK'
    BY <1>0, <1>8, <1>9 DEF TypeOK
<1> QED BY <1>0, <1>9, <1>10, VideoSettles
-----------------------------------------------------------------------------
(* The session.                                                            *)

LEMMA InitEstablishes ==
    ASSUME Init
    PROVE  SessionIInv
<1>1. /\ inbox = <<>> /\ waiting = <<>> /\ work = <<>> /\ running = {} /\ told = {}
      /\ step = "idle" /\ closed = FALSE
      /\ thread = [t \in Request |-> "none"] /\ video = [t \in Request |-> "none"]
    BY DEF Init
<1>2. /\ DOMAIN inbox = {} /\ DOMAIN waiting = {} /\ Len(work) = 0
      /\ inbox \in Seq(Message) /\ waiting \in Seq(Request) /\ work \in Seq(Command)
    BY <1>1
<1>3. TypeOK
  <2>1. Cardinality(running) = 0
      BY <1>1, FS_EmptySet
  <2>2. /\ shots \in [Shot -> Files \cup {NoShot}] /\ disk \in [Shot -> Files]
        /\ scope \in [Request -> Scope] /\ answer \in [Request -> {"none", "ok", "failed"}]
        /\ copy \in [Request -> Files \cup {NoShot}] /\ on \in [Request -> Shot \cup {NoShot}]
        /\ keys \in Plans
      BY DEF Init, Scope
  <2>3. /\ thread \in [Request -> {"none", "spawned", "calling", "answered", "over"}]
        /\ video \in [Request -> {"none", "submitted", "followed", "ready",
                                  "lost", "attached", "retired", "left"}]
      BY <1>1
  <2>4. Len(work) <= MaxRequests /\ Cardinality(running) <= MaxParallel
      BY <1>2, <2>1
  <2> QED BY <1>1, <1>2, <2>2, <2>3, <2>4 DEF TypeOK
<1>4. \A t \in Request : thread[t] = "none" /\ video[t] = "none" /\ t \notin told /\ ~Given(t)
    BY <1>1, <1>2 DEF Request, Given
<1>5. MessagesOK /\ QueueOK
    BY <1>2 DEF MessagesOK, QueueOK
<1>6. NoneIsLost
    BY <1>4 DEF NoneIsLost, Begun
<1>7. ThreadsOK
    BY <1>1, <1>4 DEF ThreadsOK
<1>8. AllApart
    BY <1>1 DEF AllApart
<1>9. LoopOK
    BY <1>1, <1>2 DEF LoopOK
<1> QED BY <1>3, <1>5, <1>6, <1>7, <1>8, <1>9 DEF SessionIInv

LEMMA StepKeeps ==
    ASSUME SessionIInv, [Next]_vars
    PROVE  SessionIInv'
<1>1. CASE UNCHANGED vars
  <2>1. UNCHANGED <<closed, work, inbox, step, waiting, running, scope, thread, answer, copy, on,
                    told, keys, shots, disk, video>>
      BY <1>1 DEF vars, dispatch, requests, project
  <2>2. TypeOK' /\ MessagesOK' /\ QueueOK' /\ NoneIsLost'
      BY <2>1 DEF SessionIInv, TypeOK, MessagesOK, QueueOK, NoneIsLost, Given, Begun, IsNew, Waits
  <2>3. ThreadsOK' /\ AllApart'
      BY <2>1 DEF SessionIInv, ThreadsOK, AllApart, Slow, Ask, Overlaps
  <2>4. LoopOK'
    <3>1. step = "ended" => Joined'
        BY <2>1 DEF SessionIInv, LoopOK, Joined
    <3> QED BY <2>1, <3>1, LoopFrame DEF SessionIInv
  <2> QED BY <2>2, <2>3, <2>4 DEF SessionIInv
<1>2. CASE \E c \in Command : Submit(c)
    BY <1>2, SubmitKeeps
<1>3. CASE Close
    BY <1>3, CloseKeeps
<1>4. CASE WorkerStep
    BY <1>4, ArriveKeeps, TakeInKeeps, StartWaitingKeeps, FinishVideoKeeps, LoopMoves
    DEF WorkerStep
<1>5. CASE \E t \in Request : RequestStep(t) \/ Watch(t)
    BY <1>5, PrepareKeeps, ProviderAnswersKeeps, RecordKeeps, WatchKeeps DEF RequestStep
<1> QED BY <1>1, <1>2, <1>3, <1>4, <1>5 DEF Next

(* The inductive invariant of the session.                                 *)
THEOREM SessionInvariance == Spec => []SessionIInv
<1>1. Init => SessionIInv
    BY InitEstablishes
<1>2. SessionIInv /\ [Next]_vars => SessionIInv'
    BY StepKeeps
<1> QED BY <1>1, <1>2, PTL DEF Spec

(* Every variable keeps its type: no more requests run at a time than      *)
(* MAX_PARALLEL_REQUESTS, whatever the director asks (session.rs).         *)
THEOREM SessionTypeCorrect == Spec => []TypeOK
<1>1. SessionIInv => TypeOK
    BY DEF SessionIInv
<1> QED BY <1>1, SessionInvariance, PTL

(* No shot ever has two paid video generations under way, however the      *)
(* requests, their watchers and the worker take their turns.               *)
THEOREM OneVideo == Spec => []OneVideoAtATime
<1>1. ASSUME SessionIInv PROVE OneVideoAtATime
  <2>1. SUFFICES ASSUME NEW v \in Request, NEW w \in Request, v # w,
                        video[v] \in {"submitted", "followed", "ready", "lost"},
                        thread[w] \in {"calling", "answered"}, Ask(w) = "videos"
                 PROVE  on[v] # on[w]
      BY DEF OneVideoAtATime
  <2>2. /\ w \in running /\ on[w] \in Shot /\ scope[w] = on[w]
        /\ Ask(v) = "videos" /\ thread[v] # "none"
      BY <1>1, <2>1 DEF SessionIInv, ThreadsOK
  <2>3. CASE video[v] = "submitted"
    <3>1. v \in running /\ on[v] \in Shot /\ scope[v] = on[v]
        BY <1>1, <2>2, <2>3 DEF SessionIInv, ThreadsOK
    <3>2. ~Overlaps(scope[v], scope[w])
        BY <1>1, <2>1, <2>2, <3>1 DEF SessionIInv, AllApart
    <3> QED BY <2>2, <3>1, <3>2 DEF Overlaps
  <2>4. CASE video[v] \in {"followed", "ready", "lost"}
      BY <1>1, <2>1, <2>2, <2>4 DEF SessionIInv, AllApart
  <2> QED BY <2>1, <2>3, <2>4
<1> QED BY <1>1, SessionInvariance, PTL

(* Between iterations of the worker's loop no command waits that could     *)
(* have begun.                                                             *)
THEOREM NoneWaitsNeedlessly == Spec => []NothingWaitsNeedlessly
<1>1. ASSUME SessionIInv PROVE NothingWaitsNeedlessly
  <2>1. DOMAIN waiting = 1..Len(waiting)
      BY <1>1, LenProperties DEF SessionIInv, TypeOK
  <2> QED BY <1>1, <2>1 DEF SessionIInv, LoopOK, NothingWaitsNeedlessly
<1> QED BY <1>1, SessionInvariance, PTL

(* Once the session has let go of the project nothing of it writes.        *)
THEOREM EndIsFinal == Spec => NothingAfterTheEnd
<1>1. ASSUME SessionIInv, [Next]_vars
      PROVE  [step # "ended"]_<<disk, requests, video, inbox>>
  <2>1. SUFFICES ASSUME step = "ended"
                 PROVE  UNCHANGED <<disk, requests, video, inbox>>
      OBVIOUS
  <2>2. closed /\ Joined
      BY <1>1, <2>1 DEF SessionIInv, LoopOK
  <2>3. CASE UNCHANGED vars
      BY <2>3 DEF vars, project
  <2>4. CASE (\E c \in Command : Submit(c)) \/ Close
      BY <2>2, <2>4 DEF Submit, Close
  <2>5. CASE WorkerStep
      BY <2>1, <2>5 DEF WorkerStep, Arrive, TakeIn, WakeUp, StartWaiting, StartedAll, FinishVideo,
                        Rest, StopLoop, EndSession
  <2>6. CASE \E t \in Request : RequestStep(t) \/ Watch(t)
      BY <2>2, <2>6 DEF RequestStep, Prepare, ProviderAnswers, Record, Watch, Joined
  <2> QED BY <1>1, <2>3, <2>4, <2>5, <2>6 DEF Next
<1> QED BY <1>1, SessionInvariance, PTL DEF Spec, NothingAfterTheEnd

(* A command begins as it arrives, or out of the queue, and then it need   *)
(* not wait for any that stands before it.                                 *)
LEMMA BeginsInTurn ==
    ASSUME SessionIInv, [Next]_vars, NEW b \in Request, ~Begun(b), Begun(b)'
    PROVE  \/ /\ inbox # <<>> /\ ~Head(inbox).done /\ b = Head(inbox).request
              /\ ~MustWait(b, Len(waiting))
           \/ \E i \in 1..Len(waiting) : b = waiting[i] /\ ~MustWait(b, i - 1)
<1>0. /\ thread \in [Request -> {"none", "spawned", "calling", "answered", "over"}]
      /\ thread[b] = "none" /\ b \notin told /\ (thread'[b] # "none" \/ b \in told')
    BY DEF SessionIInv, TypeOK, Begun
<1>1. ASSUME NEW t \in Request, Given(t), ~Begun(t), Begin(t)
      PROVE  b = t
  <2>1. Starting(t) \/ CarryingOut(t)
      BY <1>1, Begins DEF SessionIInv
  <2> QED BY <1>0, <2>1 DEF Starting, CarryingOut
<1>2. CASE Arrive
  <2>1. PICK t : t = Head(inbox).request
      OBVIOUS
  <2>2. /\ inbox # <<>> /\ ~Head(inbox).done
        /\ \/ UNCHANGED <<thread, told>>
           \/ Begin(t) /\ ~MustWait(t, Len(waiting))
      BY <1>2, <2>1 DEF Arrive, requests
  <2>3. t \in Request /\ Given(t) /\ ~Begun(t)
    <3>1. inbox' = Tail(inbox)
        BY <1>2 DEF Arrive
    <3> QED BY <2>1, <2>2, <3>1, MessageTaken DEF SessionIInv
  <2> QED BY <1>0, <1>1, <2>1, <2>2, <2>3
<1>3. CASE StartWaiting
  <2>1. PICK i \in 1..Len(waiting) : Begin(waiting[i]) /\ ~MustWait(waiting[i], i - 1)
      BY <1>3 DEF StartWaiting, Startable
  <2>2. waiting[i] \in Request /\ Given(waiting[i]) /\ ~Begun(waiting[i])
    <3>1. waiting \in Seq(Request) /\ DOMAIN waiting = 1..Len(waiting)
        BY LenProperties DEF SessionIInv, TypeOK
    <3> QED BY <3>1, ElementOfSeq DEF SessionIInv, QueueOK
  <2> QED BY <1>1, <2>1, <2>2
<1>4. CASE TakeIn
  <2>1. inbox # <<>> /\ Head(inbox).done /\ inbox' = Tail(inbox) /\ thread' = thread
        /\ told' = told \cup {Head(inbox).request}
      BY <1>4 DEF TakeIn, requests
  <2>2. thread[Head(inbox).request] = "over"
      BY <2>1, MessageTaken DEF SessionIInv
  <2> QED BY <1>0, <2>1, <2>2
<1>5. CASE \/ \E c \in Command : Submit(c)
           \/ Close \/ WakeUp \/ StartedAll \/ FinishVideo \/ Rest \/ StopLoop \/ EndSession
           \/ \E t \in Request : Watch(t)
           \/ UNCHANGED vars
    BY <1>0, <1>5 DEF Submit, Close, WakeUp, StartedAll, FinishVideo, Rest, StopLoop, EndSession,
                      Watch, requests, vars
<1>6. CASE \E t \in Request : RequestStep(t)
    BY <1>0, <1>6 DEF RequestStep, Prepare, ProviderAnswers, Record
<1> QED BY <1>2, <1>3, <1>4, <1>5, <1>6 DEF Next, WorkerStep

(* Commands about the same thing run one after another in the order they   *)
(* were given, and one about everything runs alone, however many requests  *)
(* run at a time and whatever becomes of the shots in play meanwhile.      *)
THEOREM CommandsRunInOrder == Spec => OneAtATimeInOrder
<1> DEFINE InOrder ==
        \A b \in Request : (Given(b) /\ ~Begun(b) /\ Begun(b)') =>
            \A a \in (1..(b - 1)) \ told : ~Overlaps(WorksOn(a), WorksOn(b))
<1>1. ASSUME SessionIInv, [Next]_vars
      PROVE  InOrder
  <2>1. SUFFICES ASSUME NEW b \in Request, Given(b), ~Begun(b), Begun(b)',
                        NEW a \in (1..(b - 1)) \ told
                 PROVE  ~Overlaps(WorksOn(a), WorksOn(b))
      OBVIOUS
  <2>2. a \in Request /\ a < b /\ b \in Nat /\ a \in Nat /\ Given(a) /\ a \notin told
    <3>1. Len(work) \in Nat
        BY <1>1, LenProperties DEF SessionIInv, TypeOK
    <3> QED BY <2>1, <3>1 DEF Request, Given
  <2>3. WorksOn(b) = ScopeOf(b)
      BY <2>1 DEF WorksOn, Begun
  <2>4. /\ inbox \in Seq(Message) /\ waiting \in Seq(Request)
        /\ DOMAIN inbox = 1..Len(inbox) /\ DOMAIN waiting = 1..Len(waiting)
        /\ \A j \in DOMAIN waiting : waiting[j] \in Request
    <3>1. inbox \in Seq(Message) /\ waiting \in Seq(Request)
        BY <1>1 DEF SessionIInv, TypeOK
    <3> QED BY <3>1, LenProperties, ElementOfSeq
  <2>5. \/ /\ inbox # <<>> /\ ~Head(inbox).done /\ b = Head(inbox).request
           /\ ~MustWait(b, Len(waiting))
        \/ \E i \in 1..Len(waiting) : b = waiting[i] /\ ~MustWait(b, i - 1)
      BY <1>1, <2>1, BeginsInTurn
  <2>6. CASE Begun(a)
    <3>1. thread[a] # "none" /\ a \in running
        BY <1>1, <2>2, <2>6 DEF Begun, SessionIInv, ThreadsOK
    <3>2. IF Ask(a) = "document" THEN on[a] = NoShot /\ scope[a] = "documents"
          ELSE on[a] \in Shot /\ scope[a] = on[a]
        BY <1>1, <2>2, <3>1 DEF SessionIInv, ThreadsOK
    <3>3. WorksOn(a) = scope[a]
        BY <3>1, <3>2 DEF WorksOn, ScopeOf, OfShot
    <3>4. \E n : ~MustWait(b, n)
        BY <2>5
    <3> QED BY <2>3, <3>1, <3>3, <3>4 DEF MustWait
  <2>7. CASE ~Begun(a) /\ Waits(a)
    <3>1. PICK j \in 1..Len(waiting) : waiting[j] = a
        BY <2>4, <2>7 DEF Waits
    <3>2. WorksOn(a) = ScopeOf(waiting[j])
        BY <2>7, <3>1 DEF WorksOn, Begun
    <3>3. CASE ~MustWait(b, Len(waiting))
        BY <2>3, <3>1, <3>2, <3>3 DEF MustWait
    <3>4. CASE \E i \in 1..Len(waiting) : b = waiting[i] /\ ~MustWait(b, i - 1)
      <4>1. PICK i \in 1..Len(waiting) : b = waiting[i] /\ ~MustWait(b, i - 1)
          BY <3>4
      <4>2. ~(i < j) /\ i # j
        <5>1. i < j => waiting[i] < waiting[j]
            BY <1>1, <2>4, <3>1, <4>1 DEF SessionIInv, QueueOK
        <5>2. ~(b < a) /\ a # b
            BY <2>2
        <5> QED BY <3>1, <4>1, <5>1, <5>2
      <4>3. PICK n \in Nat : n = Len(waiting)
          BY <2>4, LenProperties
      <4>4. i \in 1..n /\ j \in 1..n
          BY <3>1, <4>1, <4>3
      <4>5. j \in 1..(i - 1)
          BY <4>2, <4>4
      <4> QED BY <2>3, <3>2, <4>1, <4>5 DEF MustWait
    <3> QED BY <2>5, <3>3, <3>4
  <2>8. CASE IsNew(a)
    <3>1. PICK j \in DOMAIN inbox : ~inbox[j].done /\ inbox[j].request = a
        BY <2>8 DEF IsNew
    <3>2. ASSUME inbox # <<>>, ~Head(inbox).done, b = Head(inbox).request
          PROVE  FALSE
      <4>1. /\ Len(inbox) \in Nat \ {0} /\ Head(inbox) = inbox[1]
          BY <2>4, <3>2, TakenFirst
      <4>2. PICK m \in Nat : m = Len(inbox) /\ 1 \in 1..m /\ j \in 1..m
          BY <2>4, <3>1, <4>1
      <4>3. j = 1 \/ 1 < j
          BY <4>2
      <4>4. inbox[1] \in Message /\ inbox[j] \in Message
          BY <2>4, <4>2, ElementOfSeq
      <4>5. inbox[1].done = inbox[j].done
          BY <3>1, <3>2, <4>1, <4>4 DEF Message
      <4>6. 1 < j => inbox[1].request < inbox[j].request
          BY <1>1, <2>4, <3>1, <3>2, <4>1, <4>2, <4>5 DEF SessionIInv, MessagesOK
      <4> QED BY <2>2, <3>1, <3>2, <4>1, <4>3, <4>6
    <3>3. ASSUME NEW i \in 1..Len(waiting), b = waiting[i]
          PROVE  FALSE
      <4>1. waiting[i] < a
          BY <1>1, <2>4, <3>1 DEF SessionIInv, MessagesOK
      <4> QED BY <2>2, <3>3, <4>1
    <3> QED BY <2>5, <3>2, <3>3
  <2> QED BY <1>1, <2>2, <2>6, <2>7, <2>8 DEF SessionIInv, NoneIsLost
<1>2. SessionIInv /\ [Next]_vars => [InOrder]_vars
    BY <1>1
<1> HIDE DEF InOrder
<1>3. Spec => [][InOrder]_vars
    BY <1>2, SessionInvariance, PTL DEF Spec
<1> QED BY <1>3 DEF OneAtATimeInOrder, InOrder
=============================================================================
