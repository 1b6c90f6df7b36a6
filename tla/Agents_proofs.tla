---------------------------- MODULE Agents_proofs ----------------------------
(***************************************************************************)
(* Proofs about AgentDesk, for any number of tool calls, requests to       *)
(* connect and sessions, and any number of requests remembered; about      *)
(* AgentGrants, for any number of agents, grants and authorizations, and   *)
(* any limits on them; and about ProcessCalls, the calls of plugins,       *)
(* tools' servers and agents' command lines, for pipes of any size.        *)
(***************************************************************************)
EXTENDS AgentDesk, AgentGrants, ProcessCalls, SharedLemmas, FiniteSetTheorems,
        SequenceTheorems, TLAPS

CallRecord == [step: CallStep, session: 0..MaxSessions, to: 0..MaxSessions,
               number: 0..(MaxToolCalls + MaxConnects)]

Asked == {c \in ToolCall : call[c].number # 0}

(* What was counted: the sessions opened so far, and the numbers given, one *)
(* to each request to connect and to each command noted.                   *)
DeskCounts ==
    /\ deskSession <= sessions /\ paying \subseteq 1..sessions
    /\ closing # "no" => sessions # 0
    /\ deskNext = connects + Cardinality(Asked)
    /\ word \cup toldNever \subseteq 1..deskNext

(* The book is in the order of its numbers, which are given once: an entry *)
(* has its call's number, and no other call has it.                        *)
NumbersOK ==
    /\ \A i, j \in DOMAIN book : i < j => book[i].number < book[j].number
    /\ \A i \in DOMAIN book :
          /\ book[i].number <= deskNext
          /\ book[i].call # 0 => call[book[i].call].number = book[i].number
          /\ \A c \in ToolCall : call[c].number = book[i].number => book[i].call = c
    /\ \A c \in ToolCall :
          /\ call[c].number <= deskNext
          /\ call[c].step \in {"none", "looked", "runs", "sent"} => call[c].number = 0

(* A command that waits, was declined or lapsed was not sent; and somebody *)
(* told so of an entry was told of one declined or lapsed.                 *)
EntriesOK ==
    \A i \in DOMAIN book :
        /\ book[i].call # 0 /\ book[i].state \in {"waiting", "declined", "lapsed"} =>
              sentTo[book[i].call] = <<>>
        /\ book[i].number \in toldNever => book[i].state \in {"declined", "lapsed"}

(* A call took its sessions, and was sent, among those opened so far, and  *)
(* not before it took the one it goes to.                                  *)
SendsOK ==
    \A c \in ToolCall :
        /\ call[c].session <= sessions /\ call[c].to <= sessions
        /\ call[c].step = "runs" => call[c].to # 0
        /\ call[c].step \in {"none", "looked", "runs"} => sentTo[c] = <<>>
        /\ \A i \in DOMAIN sentTo[c] : sentTo[c][i] <= sessions

DeskIInv == DeskTypeOK /\ DeskCounts /\ NumbersOK /\ EntriesOK /\ SendsOK /\ SentOnTheWord
-----------------------------------------------------------------------------
(* The variables' parts.                                                   *)

LEMMA BookTypes ==
    ASSUME DeskTypeOK
    PROVE  /\ book \in Seq(Entry) /\ DOMAIN book = 1..Len(book) /\ Len(book) \in Nat
           /\ \A i \in DOMAIN book :
                 /\ book[i] \in Entry
                 /\ book[i].number \in AskNumber /\ book[i].state \in AskState
                 /\ book[i].call \in ToolCall \cup {0}
<1>1. book \in Seq(Entry)
    BY DEF DeskTypeOK
<1>2. DOMAIN book = 1..Len(book) /\ Len(book) \in Nat /\ \A i \in DOMAIN book : book[i] \in Entry
    BY <1>1, LenProperties, ElementOfSeq
<1>3. MaxToolCalls \in Nat
    BY DeskAssumption DEF DeskAssumption
<1>4. \A e \in Entry : /\ e.number \in AskNumber /\ e.state \in AskState
                       /\ e.call \in ToolCall \cup {0}
    BY <1>3 DEF Entry, ToolCall
<1> QED BY <1>1, <1>2, <1>4

(* A call goes on.                                                         *)
LEMMA CallGoesOn ==
    ASSUME DeskTypeOK, NEW c \in ToolCall, NEW s \in CallStep, CallGoes(c, s)
    PROVE  /\ call' \in [ToolCall -> CallRecord]
           /\ call'[c].step = s
           /\ call'[c].session = call[c].session /\ call'[c].to = call[c].to
           /\ call'[c].number = call[c].number
           /\ \A d \in ToolCall : d # c => call'[d] = call[d]
<1>1. call \in [ToolCall -> CallRecord] /\ call[c] \in CallRecord
    BY DEF DeskTypeOK, CallRecord
<1>2. PICK y : y = [call[c] EXCEPT !.step = s]
    OBVIOUS
<1>3. /\ y \in CallRecord /\ y.step = s
      /\ y.session = call[c].session /\ y.to = call[c].to /\ y.number = call[c].number
    BY <1>1, <1>2 DEF CallRecord
<1>4. call' = [call EXCEPT ![c] = y]
    BY <1>2 DEF CallGoes
<1> QED BY <1>1, <1>3, <1>4

(* A call is noted under a number.                                         *)
LEMMA CallIsNumbered ==
    ASSUME DeskTypeOK, NEW c \in ToolCall, NEW s \in CallStep,
           NEW n \in 0..(MaxToolCalls + MaxConnects),
           call' = [call EXCEPT ![c].step = s, ![c].number = n]
    PROVE  /\ call' \in [ToolCall -> CallRecord]
           /\ call'[c].step = s
           /\ call'[c].session = call[c].session /\ call'[c].to = call[c].to
           /\ call'[c].number = n
           /\ \A d \in ToolCall : d # c => call'[d] = call[d]
<1>1. call \in [ToolCall -> CallRecord] /\ call[c] \in CallRecord
    BY DEF DeskTypeOK, CallRecord
<1>2. PICK z : z = [call[c] EXCEPT !.step = s]
    OBVIOUS
<1>3. PICK y : y = [z EXCEPT !.number = n]
    OBVIOUS
<1>4. z \in CallRecord /\ z.step = s /\ z.session = call[c].session /\ z.to = call[c].to
    BY <1>1, <1>2 DEF CallRecord
<1>5. y \in CallRecord
    BY <1>3, <1>4 DEF CallRecord
<1>6. y.step = s /\ y.session = call[c].session /\ y.to = call[c].to /\ y.number = n
    BY <1>3, <1>4 DEF CallRecord
<1>7. call' = [call EXCEPT ![c] = y]
    BY <1>1, <1>2, <1>3
<1> QED BY <1>1, <1>5, <1>6, <1>7

(* A call takes a session.                                                 *)
LEMMA CallTakes ==
    ASSUME DeskTypeOK, NEW c \in ToolCall, NEW s \in CallStep, NEW n \in 0..MaxSessions,
           call' = [call EXCEPT ![c].step = s, ![c].session = n]
    PROVE  /\ call' \in [ToolCall -> CallRecord]
           /\ call'[c].step = s
           /\ call'[c].session = n /\ call'[c].to = call[c].to
           /\ call'[c].number = call[c].number
           /\ \A d \in ToolCall : d # c => call'[d] = call[d]
<1>1. call \in [ToolCall -> CallRecord] /\ call[c] \in CallRecord
    BY DEF DeskTypeOK, CallRecord
<1>2. PICK z : z = [call[c] EXCEPT !.step = s]
    OBVIOUS
<1>3. PICK y : y = [z EXCEPT !.session = n]
    OBVIOUS
<1>4. z \in CallRecord /\ z.step = s /\ z.to = call[c].to /\ z.number = call[c].number
    BY <1>1, <1>2 DEF CallRecord
<1>5. y \in CallRecord
    BY <1>3, <1>4 DEF CallRecord
<1>6. y.step = s /\ y.session = n /\ y.to = call[c].to /\ y.number = call[c].number
    BY <1>3, <1>4 DEF CallRecord
<1>7. call' = [call EXCEPT ![c] = y]
    BY <1>1, <1>2, <1>3
<1> QED BY <1>1, <1>5, <1>6, <1>7

(* A call takes the session it goes to.                                    *)
LEMMA CallGoesTo ==
    ASSUME DeskTypeOK, NEW c \in ToolCall, NEW s \in CallStep, NEW n \in 0..MaxSessions,
           call' = [call EXCEPT ![c].step = s, ![c].to = n]
    PROVE  /\ call' \in [ToolCall -> CallRecord]
           /\ call'[c].step = s
           /\ call'[c].session = call[c].session /\ call'[c].to = n
           /\ call'[c].number = call[c].number
           /\ \A d \in ToolCall : d # c => call'[d] = call[d]
<1>1. call \in [ToolCall -> CallRecord] /\ call[c] \in CallRecord
    BY DEF DeskTypeOK, CallRecord
<1>2. PICK z : z = [call[c] EXCEPT !.step = s]
    OBVIOUS
<1>3. PICK y : y = [z EXCEPT !.to = n]
    OBVIOUS
<1>4. z \in CallRecord /\ z.step = s /\ z.session = call[c].session /\ z.number = call[c].number
    BY <1>1, <1>2 DEF CallRecord
<1>5. y \in CallRecord
    BY <1>3, <1>4 DEF CallRecord
<1>6. y.step = s /\ y.session = call[c].session /\ y.to = n /\ y.number = call[c].number
    BY <1>3, <1>4 DEF CallRecord
<1>7. call' = [call EXCEPT ![c] = y]
    BY <1>1, <1>2, <1>3
<1> QED BY <1>1, <1>5, <1>6, <1>7

(* A command not sent before is sent.                                      *)
LEMMA SentOnce ==
    ASSUME DeskTypeOK, NEW c \in ToolCall, sentTo[c] = <<>>, NEW s \in DeskSession,
           sentTo' = [sentTo EXCEPT ![c] = Append(@, s)]
    PROVE  /\ sentTo' \in [ToolCall -> Seq(DeskSession)]
           /\ Len(sentTo'[c]) = 1 /\ DOMAIN sentTo'[c] = {1} /\ sentTo'[c][1] = s
           /\ \A d \in ToolCall : d # c => sentTo'[d] = sentTo[d]
<1>1. sentTo \in [ToolCall -> Seq(DeskSession)]
    BY DEF DeskTypeOK
<1>2. PICK y : y = <<s>>
    OBVIOUS
<1>3. y \in Seq(DeskSession) /\ Len(y) = 1 /\ DOMAIN y = {1} /\ y[1] = s
    BY <1>2
<1>4. sentTo' = [sentTo EXCEPT ![c] = y]
    BY <1>1, <1>2
<1> QED BY <1>1, <1>3, <1>4
-----------------------------------------------------------------------------
(* The book.                                                               *)

(* An entry's state is settled.                                            *)
LEMMA EntrySettled ==
    ASSUME DeskTypeOK, NEW n, InBook(n), NEW s \in AskState, Settle(n, s)
    PROVE  /\ Place(n) \in DOMAIN book /\ book[Place(n)].number = n
           /\ book' \in Seq(Entry) /\ Len(book') = Len(book) /\ DOMAIN book' = DOMAIN book
           /\ \A i \in DOMAIN book :
                 /\ book'[i].number = book[i].number /\ book'[i].call = book[i].call
                 /\ book'[i].state = IF i = Place(n) THEN s ELSE book[i].state
<1>1. PICK p : p = Place(n)
    OBVIOUS
<1>2. p \in DOMAIN book /\ book[p].number = n
    BY <1>1 DEF InBook, Place
<1>3. book \in Seq(Entry) /\ DOMAIN book = 1..Len(book) /\ book[p] \in Entry
    BY <1>2, BookTypes
<1>4. PICK y : y = [book[p] EXCEPT !.state = s]
    OBVIOUS
<1>5. y \in Entry /\ y.number = n /\ y.call = book[p].call /\ y.state = s
    BY <1>2, <1>3, <1>4 DEF Entry
<1>6. book' = [book EXCEPT ![p] = y]
    BY <1>1, <1>4 DEF Settle
<1>7. /\ book' \in Seq(Entry) /\ Len(book') = Len(book)
      /\ \A i \in 1..Len(book) : book'[i] = IF i = p THEN y ELSE book[i]
  <2>1. p \in 1..Len(book)
      BY <1>2, <1>3
  <2> QED BY <1>3, <1>5, <1>6, <2>1, ExceptSeq
<1>8. DOMAIN book' = DOMAIN book
    BY <1>3, <1>7, LenProperties
<1> QED BY <1>1, <1>2, <1>3, <1>5, <1>7, <1>8

(* An entry is kept under the next number, and at the limit an earlier one *)
(* makes way; the book stays in the order of its numbers.                  *)
LEMMA EntryKept ==
    ASSUME DeskTypeOK, NumbersOK, NEW e \in [number: {0}, call: 0..MaxToolCalls, state: AskState],
           deskNext + 1 \in AskNumber, Keep(e)
    PROVE  /\ deskNext' = deskNext + 1
           /\ book' \in Seq(Entry) /\ Len(book') <= KeptAsks
           /\ \A i \in DOMAIN book' :
                 \/ \E j \in DOMAIN book : book'[i] = book[j]
                 \/ /\ book'[i].number = deskNext + 1
                    /\ book'[i].call = e.call /\ book'[i].state = e.state
           /\ \A i, j \in DOMAIN book' : i < j => book'[i].number < book'[j].number
<1> DEFINE x    == [e EXCEPT !.number = deskNext + 1]
           all  == Append(book, x)
           done == {i \in DOMAIN all : NoLonger(all[i])}
           out  == IF done = {} THEN 1 ELSE CHOOSE i \in done : \A j \in done : i <= j
<1>1. /\ book' = IF Len(all) > KeptAsks THEN RemoveAt(all, out) ELSE all
      /\ deskNext' = deskNext + 1
    BY Zenon DEF Keep
<1>2. x \in Entry /\ x.number = deskNext + 1 /\ x.call = e.call /\ x.state = e.state
    BY DEF Entry
<1> HIDE DEF x
<1>3. all = Append(book, x)
    OBVIOUS
<1> HIDE DEF all
<1>4. /\ book \in Seq(Entry) /\ DOMAIN book = 1..Len(book) /\ Len(book) <= KeptAsks
      /\ \A i \in DOMAIN book : book[i] \in Entry /\ book[i].number \in AskNumber
    BY BookTypes DEF DeskTypeOK
<1>5. PICK m \in Nat : m = Len(book)
  <2>1. Len(book) \in Nat
      BY BookTypes
  <2> QED BY <2>1
<1>6. /\ all \in Seq(Entry) /\ Len(all) = m + 1 /\ all[m + 1] = x /\ DOMAIN all = 1..(m + 1)
      /\ \A i \in 1..m : all[i] = book[i]
    BY <1>2, <1>3, <1>4, <1>5, OneMore
<1>7. done \subseteq 1..(m + 1)
    BY <1>6
<1>8. out = IF done = {} THEN 1 ELSE CHOOSE i \in done : \A j \in done : i <= j
    OBVIOUS
<1> HIDE DEF done, out
<1>9. out \in 1..(m + 1)
  <2>1. CASE done = {}
      BY <1>8, <2>1
  <2>2. CASE done # {}
    <3>1. done \subseteq 1..(m + 1) /\ done \subseteq Nat
        BY <1>7
    <3>2. \E i \in done : \A j \in done : i <= j
        BY <2>2, <3>1, LeastOf
    <3>3. out \in done
        BY <1>8, <2>2, <3>2
    <3> QED BY <3>1, <3>3
  <2> QED BY <2>1, <2>2
<1>10. ASSUME NEW i \in 1..(m + 1)
       PROVE  \/ \E j \in DOMAIN book : all[i] = book[j]
              \/ all[i].number = deskNext + 1 /\ all[i].call = e.call /\ all[i].state = e.state
  <2>1. CASE i \in 1..m
      BY <1>4, <1>5, <1>6, <2>1
  <2>2. CASE i = m + 1
      BY <1>2, <1>6, <2>2
  <2> QED BY <2>1, <2>2
<1>11. ASSUME NEW i \in 1..(m + 1), NEW j \in 1..(m + 1), i < j
       PROVE  all[i].number < all[j].number
  <2>1. i \in 1..m /\ i \in DOMAIN book /\ all[i] = book[i]
      BY <1>4, <1>5, <1>6, <1>11
  <2>2. CASE j \in 1..m
      BY <1>4, <1>5, <1>6, <1>11, <2>1, <2>2 DEF NumbersOK
  <2>3. CASE j = m + 1
    <3>1. book[i].number <= deskNext /\ book[i].number \in Nat /\ deskNext \in Nat
      <4>1. MaxToolCalls + MaxConnects \in Nat
          BY DeskAssumption DEF DeskAssumption
      <4>2. book[i].number \in Nat /\ deskNext \in Nat
          BY <1>4, <2>1, <4>1 DEF DeskTypeOK, AskNumber
      <4> QED BY <2>1, <4>2 DEF NumbersOK
    <3> QED BY <1>2, <1>6, <2>1, <2>3, <3>1
  <2> QED BY <2>2, <2>3
<1>12. CASE Len(all) > KeptAsks
  <2>1. book' = SubSeq(all, 1, out - 1) \o SubSeq(all, out + 1, Len(all))
      BY <1>1, <1>12 DEF RemoveAt
  <2>2. PICK rest : rest = book'
      OBVIOUS
  <2>3. PICK k \in Nat : k = m + 1
      BY <1>5
  <2>4. k = Len(all) /\ out \in 1..k
      BY <1>6, <1>9, <2>3
  <2>5. rest = SubSeq(all, 1, out - 1) \o SubSeq(all, out + 1, Len(all))
      BY <2>1, <2>2
  <2>6. /\ rest \in Seq(Entry) /\ Len(rest) = k - 1
        /\ \A j \in 1..(k - 1) : rest[j] = IF j < out THEN all[j] ELSE all[j + 1]
    <3>1. \A S : \A s \in Seq(S) : \A l \in Nat : l = Len(s) => \A n \in 1..l : \A r :
              r = SubSeq(s, 1, n - 1) \o SubSeq(s, n + 1, Len(s)) =>
                  /\ r \in Seq(S) /\ Len(r) = l - 1
                  /\ \A j \in 1..(l - 1) : r[j] = IF j < n THEN s[j] ELSE s[j + 1]
        BY TakenOut, Zenon
    <3>2. \A l \in Nat : l = Len(all) => \A n \in 1..l : \A r :
              r = SubSeq(all, 1, n - 1) \o SubSeq(all, n + 1, Len(all)) =>
                  /\ r \in Seq(Entry) /\ Len(r) = l - 1
                  /\ \A j \in 1..(l - 1) : r[j] = IF j < n THEN all[j] ELSE all[j + 1]
        BY <1>6, <3>1, Zenon
    <3> QED BY <2>4, <2>5, <3>2
  <2>7. DOMAIN rest = 1..m /\ Len(rest) = m
      BY <2>3, <2>6, LenProperties
  <2>8. ASSUME NEW j \in 1..m
        PROVE  \E i \in 1..(m + 1) : rest[j] = all[i] /\ i = IF j < out THEN j ELSE j + 1
      BY <2>3, <2>6
  <2>9. \A i \in DOMAIN rest :
            \/ \E j \in DOMAIN book : rest[i] = book[j]
            \/ rest[i].number = deskNext + 1 /\ rest[i].call = e.call /\ rest[i].state = e.state
      BY <1>10, <2>7, <2>8
  <2>10. ASSUME NEW i \in DOMAIN rest, NEW j \in DOMAIN rest, i < j
         PROVE  rest[i].number < rest[j].number
    <3>1. PICK a \in 1..(m + 1) : rest[i] = all[a] /\ a = IF i < out THEN i ELSE i + 1
        BY <2>7, <2>8
    <3>2. PICK b \in 1..(m + 1) : rest[j] = all[b] /\ b = IF j < out THEN j ELSE j + 1
        BY <2>7, <2>8
    <3>3. a < b
        BY <1>9, <2>7, <2>10, <3>1, <3>2
    <3> QED BY <1>11, <3>1, <3>2, <3>3
  <2> QED BY <1>1, <1>4, <1>5, <2>2, <2>6, <2>7, <2>9, <2>10
<1>13. CASE ~(Len(all) > KeptAsks)
  <2>1. Len(all) <= KeptAsks
      BY <1>6, <1>13, DeskAssumption DEF DeskAssumption
  <2> QED BY <1>1, <1>6, <1>10, <1>11, <1>13, <2>1
<1> QED BY <1>12, <1>13
-----------------------------------------------------------------------------
(* The application.                                                        *)

(* Opening and closing leave the book and the calls as they are.           *)
LEMMA OwnerMoves ==
    ASSUME DeskIInv, UNCHANGED <<book, deskNext, connects, call, sentTo, word, toldNever>>,
           deskSession' \in 0..sessions', sessions' \in 0..MaxSessions, sessions <= sessions',
           paying' \subseteq 1..sessions', paying' \cap (1..sessions) = paying,
           deskClosed' \subseteq DeskSession, closing' \in {"no", "taken", "lapsed"},
           closing' # "no" => sessions' # 0
    PROVE  DeskIInv'
<1> USE DEF DeskIInv
<1>0. MaxSessions \in Nat
    BY DeskAssumption DEF DeskAssumption
<1>1. /\ sessions \in 0..MaxSessions /\ sentTo \in [ToolCall -> Seq(DeskSession)]
      /\ call \in [ToolCall -> CallRecord]
    BY DEF DeskTypeOK, CallRecord
<1>2. DeskTypeOK'
    BY <1>0, <1>1 DEF DeskTypeOK, DeskSession
<1>3. DeskCounts'
  <2>1. Asked' = Asked
      BY DEF Asked
  <2> QED BY <2>1 DEF DeskCounts
<1>4. NumbersOK' /\ EntriesOK'
    BY DEF NumbersOK, EntriesOK
<1>5. \A c \in ToolCall : \A i \in DOMAIN sentTo[c] :
          /\ sentTo[c][i] \in 1..MaxSessions /\ sentTo[c][i] <= sessions
  <2>1. ASSUME NEW c \in ToolCall, NEW i \in DOMAIN sentTo[c]
        PROVE  sentTo[c][i] \in DeskSession
    <3>1. sentTo[c] \in Seq(DeskSession)
        BY <1>1
    <3> QED BY <3>1, <2>1, ElementOfSeq, LenProperties
  <2> QED BY <2>1 DEF SendsOK, DeskSession
<1>6. SendsOK'
  <2>1. \A c \in ToolCall : call[c].session \in 0..MaxSessions /\ call[c].to \in 0..MaxSessions
      BY <1>1 DEF CallRecord
  <2> QED BY <1>0, <1>1, <1>5, <2>1 DEF SendsOK
<1>7. SentOnTheWord'
  <2>1. \A c \in ToolCall : call[c].session \in 0..MaxSessions /\ call[c].session <= sessions
      BY <1>1 DEF CallRecord, SendsOK
  <2>2. \A c \in ToolCall : call[c].session \in paying' => call[c].session \in paying
      BY <1>0, <1>1, <2>1
  <2> QED BY <2>2 DEF SentOnTheWord, CallOf
<1> QED BY <1>2, <1>3, <1>4, <1>6, <1>7

LEMMA OpenSessionKeeps ==
    ASSUME DeskIInv, NEW pays \in BOOLEAN, OpenSession(pays)
    PROVE  DeskIInv'
<1>0. MaxSessions \in Nat
    BY DeskAssumption DEF DeskAssumption
<1>1. /\ sessions \in 0..MaxSessions /\ paying \subseteq 1..sessions /\ closing = "no"
      /\ sessions < MaxSessions /\ sessions' = sessions + 1 /\ deskSession' = sessions + 1
      /\ paying' = paying \/ paying' = paying \cup {sessions + 1}
      /\ deskClosed' = deskClosed /\ closing' = closing /\ deskClosed \subseteq DeskSession
      /\ UNCHANGED <<book, deskNext, connects, call, sentTo, word, toldNever>>
    BY DEF DeskIInv, DeskTypeOK, DeskCounts, OpenSession, deskBook, deskPast
<1>2. sessions \in Nat
    BY <1>0, <1>1
<1>3. deskSession' \in 0..sessions' /\ sessions' \in 0..MaxSessions /\ sessions <= sessions'
    BY <1>0, <1>1, <1>2
<1>4. paying' \subseteq 1..sessions' /\ paying' \cap (1..sessions) = paying
  <2>1. sessions + 1 \notin 1..sessions /\ 1..sessions' = (1..sessions) \cup {sessions + 1}
      BY <1>1, <1>2
  <2> QED BY <1>1, <2>1
<1>5. closing' \in {"no", "taken", "lapsed"} /\ (closing' # "no" => sessions' # 0)
    BY <1>1
<1>6. deskClosed' \subseteq DeskSession
    BY <1>1
<1> QED BY <1>1, <1>3, <1>4, <1>5, <1>6, OwnerMoves

LEMMA ClosingKeeps ==
    ASSUME DeskIInv, TakeSession \/ DropSession
    PROVE  DeskIInv'
<1>0. MaxSessions \in Nat
    BY DeskAssumption DEF DeskAssumption
<1>1. /\ sessions \in 0..MaxSessions /\ paying \subseteq 1..sessions
      /\ deskSession \in 0..MaxSessions /\ deskSession <= sessions
      /\ deskClosed \subseteq DeskSession /\ (closing # "no" => sessions # 0)
    BY DEF DeskIInv, DeskTypeOK, DeskCounts
<1>2. UNCHANGED <<book, deskNext, connects, call, sentTo, word, toldNever, sessions, paying>>
    BY DEF TakeSession, DropSession, deskBook, deskPast
<1>3. /\ sessions \in Nat /\ sessions \in 0..MaxSessions /\ 0 \in 0..sessions
      /\ deskSession \in 0..sessions /\ sessions <= sessions
      /\ sessions # 0 => sessions \in 1..MaxSessions
    BY <1>0, <1>1
<1>4. /\ deskSession' \in 0..sessions' /\ closing' \in {"no", "taken", "lapsed"}
      /\ deskClosed' \subseteq DeskSession
  <2>1. CASE TakeSession
      BY <1>1, <1>2, <1>3, <2>1 DEF TakeSession
  <2>2. CASE DropSession
      BY <1>1, <1>2, <1>3, <2>2 DEF DropSession, DeskSession
  <2> QED BY <2>1, <2>2
<1>5. closing' # "no" => sessions' # 0
  <2>1. CASE TakeSession
      BY <1>0, <1>1, <1>2, <2>1 DEF TakeSession
  <2>2. CASE DropSession
      BY <2>2 DEF DropSession
  <2> QED BY <2>1, <2>2
<1>6. sessions' \in 0..MaxSessions /\ sessions <= sessions' /\ paying' \subseteq 1..sessions'
    BY <1>1, <1>2, <1>3
<1>7. paying' \cap (1..sessions) = paying
    BY <1>1, <1>2
<1> QED BY <1>2, <1>4, <1>5, <1>6, <1>7, OwnerMoves

(* Closing a project lapses the commands that wait, none of which was sent. *)
LEMMA LapseWaitingKeeps ==
    ASSUME DeskIInv, LapseWaiting
    PROVE  DeskIInv'
<1> USE DEF DeskIInv
<1>1. /\ closing = "taken" /\ closing' = "lapsed"
      /\ UNCHANGED <<deskSession, sessions, paying, deskClosed, deskNext, connects, call, sentTo,
                     word, toldNever>>
    BY DEF LapseWaiting, deskPast
<1>2. /\ book \in Seq(Entry) /\ DOMAIN book = 1..Len(book) /\ Len(book) \in Nat
      /\ \A i \in DOMAIN book : book[i] \in Entry
    BY BookTypes
<1>3. PICK lapsed : lapsed = [i \in DOMAIN book |-> [book[i] EXCEPT !.state = "lapsed"]]
    OBVIOUS
<1>4. \A i \in DOMAIN book : /\ lapsed[i] \in Entry /\ lapsed[i].state = "lapsed"
                             /\ lapsed[i].number = book[i].number /\ lapsed[i].call = book[i].call
    BY <1>2, <1>3 DEF Entry, AskState
<1>5. book' = [i \in DOMAIN book |->
                  IF book[i].call # 0 /\ book[i].state = "waiting"
                  THEN [book[i] EXCEPT !.state = "lapsed"] ELSE book[i]]
    BY DEF LapseWaiting
<1>6. /\ DOMAIN book' = DOMAIN book
      /\ \A i \in DOMAIN book :
            book'[i] = IF book[i].call # 0 /\ book[i].state = "waiting"
                       THEN lapsed[i] ELSE book[i]
    BY <1>3, <1>5
<1>7. book' \in Seq(Entry) /\ Len(book') = Len(book)
  <2>1. \A i \in DOMAIN book : book'[i] \in Entry
      BY <1>2, <1>4, <1>6
  <2>2. PICK b : b = book'
      OBVIOUS
  <2>3. DOMAIN b = 1..Len(book) /\ \A i \in 1..Len(book) : b[i] \in Entry
      BY <1>2, <1>6, <2>1, <2>2
  <2>4. b = [i \in 1..Len(book) |-> b[i]]
      BY <1>2, <1>5, <2>2, <2>3
  <2>5. b \in Seq(Entry) /\ Len(b) = Len(book)
      BY <1>2, <2>3, <2>4
  <2> QED BY <2>2, <2>5
<1>8. \A i \in DOMAIN book :
          /\ book'[i].number = book[i].number /\ book'[i].call = book[i].call
          /\ book'[i].state = book[i].state
             \/ (book[i].state = "waiting" /\ book'[i].state = "lapsed")
    BY <1>4, <1>6
<1>9. DeskTypeOK'
    BY <1>1, <1>7 DEF DeskTypeOK
<1>10. DeskCounts'
  <2>1. Asked' = Asked
      BY <1>1 DEF Asked
  <2> QED BY <1>1, <2>1 DEF DeskCounts
<1>11. NumbersOK'
    BY <1>1, <1>6, <1>8 DEF NumbersOK
<1>12. EntriesOK'
    BY <1>1, <1>6, <1>8 DEF EntriesOK
<1>13. SendsOK' /\ SentOnTheWord'
    BY <1>1 DEF SendsOK, SentOnTheWord, CallOf
<1> QED BY <1>9, <1>10, <1>11, <1>12, <1>13
-----------------------------------------------------------------------------
(* Tool calls, and the director's word.                                    *)

(* An entry is found as it is or lapsed, or gets a word, and is not sent.  *)
LEMMA EntryTurns ==
    ASSUME DeskIInv, NEW n, InBook(n), NEW s \in AskState, Settle(n, s),
           UNCHANGED <<deskSession, sessions, paying, deskClosed, closing, deskNext, connects,
                       sentTo>>,
           s = book[Place(n)].state \/ book[Place(n)].state = "waiting",
           word' = word \/ word' = word \cup {n},
           \/ toldNever' = toldNever
           \/ s \in {"declined", "lapsed"} /\ toldNever' = toldNever \cup {n},
           call' \in [ToolCall -> CallRecord],
           \A c \in ToolCall :
              /\ call'[c].number = call[c].number /\ call'[c].session = call[c].session
              /\ call'[c].to = call[c].to
              /\ call'[c].step = call[c].step \/ call'[c].step = "ends"
    PROVE  DeskIInv'
<1> USE DEF DeskIInv
<1>1. PICK p \in DOMAIN book : p = Place(n) /\ book[p].number = n
    BY EntrySettled
<1>2. /\ book' \in Seq(Entry) /\ Len(book') = Len(book) /\ DOMAIN book' = DOMAIN book
      /\ \A i \in DOMAIN book :
            /\ book'[i].number = book[i].number /\ book'[i].call = book[i].call
            /\ book'[i].state = IF i = p THEN s ELSE book[i].state
    BY <1>1, EntrySettled
<1>3. /\ book[p].number \in AskNumber
      /\ \A i \in DOMAIN book : book[i].number \in Int /\ i \in Int
  <2>1. MaxToolCalls + MaxConnects \in Nat
      BY DeskAssumption DEF DeskAssumption
  <2> QED BY <2>1, BookTypes DEF AskNumber
<1>4. \A i \in DOMAIN book : book[i].number = n => i = p
    BY <1>1, <1>3 DEF NumbersOK
<1>5. n \in AskNumber /\ n <= deskNext /\ n \in 1..deskNext
  <2>1. n \in AskNumber /\ n <= deskNext
      BY <1>1, <1>3 DEF NumbersOK
  <2>2. MaxToolCalls + MaxConnects \in Nat /\ deskNext \in Nat
      BY DeskAssumption DEF DeskAssumption, DeskTypeOK
  <2> QED BY <2>1, <2>2 DEF AskNumber
<1>6. DeskTypeOK'
    BY <1>2, <1>5 DEF DeskTypeOK, CallRecord
<1>7. DeskCounts'
  <2>1. Asked' = Asked
      BY DEF Asked
  <2> QED BY <1>5, <2>1 DEF DeskCounts
<1>8. NumbersOK'
  <2>1. ASSUME NEW i \in DOMAIN book, NEW j \in DOMAIN book, i < j
        PROVE  book'[i].number < book'[j].number
      BY <1>2, <2>1 DEF NumbersOK
  <2>2. ASSUME NEW i \in DOMAIN book
        PROVE  /\ book'[i].number <= deskNext
               /\ book'[i].call # 0 => call'[book'[i].call].number = book'[i].number
               /\ \A c \in ToolCall : call'[c].number = book'[i].number => book'[i].call = c
    <3>1. book[i].call # 0 => book[i].call \in ToolCall
        BY BookTypes
    <3> QED BY <1>2, <3>1 DEF NumbersOK
  <2>3. ASSUME NEW c \in ToolCall
        PROVE  /\ call'[c].number <= deskNext
               /\ call'[c].step \in {"none", "looked", "runs", "sent"} => call'[c].number = 0
      BY DEF NumbersOK
  <2>4. deskNext' = deskNext
      OBVIOUS
  <2> QED BY <1>2, <2>1, <2>2, <2>3, <2>4 DEF NumbersOK
<1>9. EntriesOK'
  <2>1. ASSUME NEW i \in DOMAIN book
        PROVE  /\ book'[i].call # 0 /\ book'[i].state \in {"waiting", "declined", "lapsed"} =>
                      sentTo[book'[i].call] = <<>>
               /\ book'[i].number \in toldNever' => book'[i].state \in {"declined", "lapsed"}
    <3>1. CASE i = p
        BY <1>1, <1>2, <3>1 DEF EntriesOK
    <3>2. CASE i # p
        BY <1>2, <1>4, <3>2 DEF EntriesOK
    <3> QED BY <3>1, <3>2
  <2> QED BY <1>2, <2>1 DEF EntriesOK
<1>10. SendsOK'
    BY DEF SendsOK
<1>11. SentOnTheWord'
  <2>1. ASSUME NEW c \in ToolCall, sentTo[c] # <<>>
        PROVE  call[c].number \notin toldNever'
    <3>1. CASE call[c].number = n /\ s \in {"declined", "lapsed"}
      <4>1. book[p].call = c /\ c # 0
          BY <1>1, <3>1, DeskAssumption DEF NumbersOK, ToolCall
      <4>2. sentTo[c] = <<>>
          BY <1>1, <3>1, <4>1 DEF EntriesOK
      <4> QED BY <2>1, <4>2
    <3>2. CASE ~(call[c].number = n /\ s \in {"declined", "lapsed"})
        BY <2>1, <3>2 DEF SentOnTheWord, CallOf
    <3> QED BY <3>1, <3>2
  <2> QED BY <2>1 DEF SentOnTheWord, CallOf
<1> QED BY <1>6, <1>7, <1>8, <1>9, <1>10, <1>11

(* A number is left for a command not numbered yet, and for a request to   *)
(* connect within its bound.                                               *)
LEMMA NextIsLeft ==
    ASSUME DeskTypeOK, DeskCounts, NEW c \in ToolCall, call[c].number = 0
    PROVE  /\ deskNext + 1 \in 0..(MaxToolCalls + MaxConnects)
           /\ deskNext + 1 = connects + Cardinality(Asked \cup {c})
<1>1. /\ MaxToolCalls \in Nat /\ MaxConnects \in Nat
      /\ connects \in Nat /\ connects <= MaxConnects
    BY DeskAssumption DEF DeskAssumption, DeskTypeOK
<1>2. IsFiniteSet(ToolCall) /\ Cardinality(ToolCall) = MaxToolCalls
  <2>1. 1 \in Int /\ MaxToolCalls \in Int
      BY <1>1
  <2>2. IsFiniteSet(1..MaxToolCalls)
      BY <2>1, FS_Interval
  <2>3. Cardinality(1..MaxToolCalls) = IF 1 > MaxToolCalls THEN 0 ELSE MaxToolCalls - 1 + 1
      BY <2>1, FS_Interval
  <2> QED BY <1>1, <2>2, <2>3 DEF ToolCall
<1>3. Asked \subseteq ToolCall /\ c \notin Asked /\ Asked \cup {c} \subseteq ToolCall
    BY DEF Asked
<1>4. IsFiniteSet(Asked)
    BY <1>2, <1>3, FS_Subset
<1>5. Cardinality(Asked \cup {c}) = Cardinality(Asked) + 1
    BY <1>3, <1>4, FS_AddElement
<1>6. Cardinality(Asked \cup {c}) <= MaxToolCalls
    BY <1>2, <1>3, FS_Subset
<1>7. PICK k \in Nat : k = Cardinality(Asked)
    BY <1>4, FS_CardinalityType
<1> QED BY <1>1, <1>5, <1>6, <1>7 DEF DeskCounts

(* A new entry takes the next number, and its call with it; neither was    *)
(* given before, so nobody had a word, or was told anything, of it.        *)
LEMMA NewEntryKeeps ==
    ASSUME DeskIInv, NEW e \in [number: {0}, call: 0..MaxToolCalls, state: AskState], Keep(e),
           UNCHANGED <<deskSession, sessions, paying, deskClosed, closing, sentTo, word, toldNever>>,
           call' \in [ToolCall -> CallRecord],
           \A c \in ToolCall :
              /\ call'[c].session = call[c].session /\ call'[c].to = call[c].to
              /\ c = e.call => call'[c].number = deskNext + 1 /\ call'[c].step \in {"waits", "ends"}
              /\ c # e.call => call'[c] = call[c],
           e.call # 0 => call[e.call].step \in {"runs", "sent"},
           e.call # 0 /\ e.state \in {"waiting", "declined", "lapsed"} => sentTo[e.call] = <<>>,
           connects' \in 0..MaxConnects,
           connects' = IF e.call = 0 THEN connects + 1 ELSE connects
    PROVE  DeskIInv'
<1> USE DEF DeskIInv
<1>1. /\ MaxToolCalls \in Nat /\ MaxConnects \in Nat /\ MaxToolCalls + MaxConnects \in Nat
      /\ connects \in Nat /\ connects' \in Nat /\ connects' <= MaxConnects /\ connects <= MaxConnects
      /\ deskNext \in Nat
    BY DeskAssumption DEF DeskAssumption, DeskTypeOK
<1>2. e.call \in 0..MaxToolCalls /\ (e.call # 0 => e.call \in ToolCall)
    BY <1>1 DEF ToolCall
<1>3. call \in [ToolCall -> CallRecord]
    BY DEF DeskTypeOK, CallRecord
<1>4. \A c \in ToolCall : call[c].number \in Nat /\ call[c].number <= deskNext
    BY <1>1, <1>3 DEF CallRecord, NumbersOK
<1>5. IsFiniteSet(ToolCall) /\ Cardinality(ToolCall) = MaxToolCalls
  <2>1. 1 \in Int /\ MaxToolCalls \in Int
      BY <1>1
  <2>2. IsFiniteSet(1..MaxToolCalls)
      BY <2>1, FS_Interval
  <2>3. Cardinality(1..MaxToolCalls) = IF 1 > MaxToolCalls THEN 0 ELSE MaxToolCalls - 1 + 1
      BY <2>1, FS_Interval
  <2> QED BY <1>1, <2>2, <2>3 DEF ToolCall
<1>6. Asked' = IF e.call = 0 THEN Asked ELSE Asked \cup {e.call}
  <2>1. CASE e.call = 0
      BY <1>1, <2>1 DEF Asked, ToolCall
  <2>2. CASE e.call # 0
    <3>1. \A c \in ToolCall : call'[c].number # 0 <=> (call[c].number # 0 \/ c = e.call)
        BY <1>1, <1>4
    <3> QED BY <1>2, <2>2, <3>1 DEF Asked
  <2> QED BY <2>1, <2>2
<1>7. e.call # 0 => call[e.call].number = 0 /\ e.call \notin Asked
    BY <1>2 DEF NumbersOK, Asked
<1>8. /\ IsFiniteSet(Asked) /\ Cardinality(Asked) \in Nat
      /\ Cardinality(Asked') = IF e.call = 0 THEN Cardinality(Asked) ELSE Cardinality(Asked) + 1
  <2>1. Asked \subseteq ToolCall
      BY DEF Asked
  <2>2. IsFiniteSet(Asked)
      BY <1>5, <2>1, FS_Subset
  <2>3. e.call # 0 => Cardinality(Asked \cup {e.call}) = Cardinality(Asked) + 1
      BY <1>7, <2>2, FS_AddElement
  <2>4. Cardinality(Asked) \in Nat
      BY <2>2, FS_CardinalityType
  <2> QED BY <1>6, <2>2, <2>3, <2>4
<1>9. Cardinality(Asked') <= MaxToolCalls
  <2>1. Asked' \subseteq ToolCall
      BY <1>2, <1>6 DEF Asked
  <2> QED BY <1>5, <2>1, FS_Subset
<1>10. deskNext + 1 = connects' + Cardinality(Asked')
    BY <1>1, <1>8 DEF DeskCounts
<1>11. deskNext + 1 \in AskNumber /\ deskNext + 1 \in 0..(MaxToolCalls + MaxConnects)
  <2>1. PICK k \in Nat : k = Cardinality(Asked')
      BY <1>8
  <2> QED BY <1>1, <1>9, <1>10, <2>1 DEF AskNumber
<1>12. /\ deskNext' = deskNext + 1 /\ book' \in Seq(Entry) /\ Len(book') <= KeptAsks
       /\ \A i \in DOMAIN book' :
             \/ \E j \in DOMAIN book : book'[i] = book[j]
             \/ /\ book'[i].number = deskNext + 1
                /\ book'[i].call = e.call /\ book'[i].state = e.state
       /\ \A i, j \in DOMAIN book' : i < j => book'[i].number < book'[j].number
    BY <1>11, EntryKept
<1>13. \A j \in DOMAIN book : /\ book[j].number \in Nat \ {0} /\ book[j].number <= deskNext
                              /\ book[j].call \in ToolCall \cup {0}
    BY <1>1, BookTypes DEF NumbersOK, AskNumber
<1>14. DeskTypeOK'
    BY <1>11, <1>12 DEF DeskTypeOK, CallRecord
<1>15. DeskCounts'
    BY <1>1, <1>10, <1>12 DEF DeskCounts
<1>16. NumbersOK'
  <2>1. ASSUME NEW j \in DOMAIN book
        PROVE  /\ book[j].number <= deskNext + 1
               /\ book[j].call # 0 => call'[book[j].call].number = book[j].number
               /\ \A c \in ToolCall : call'[c].number = book[j].number => book[j].call = c
    <3>1. book[j].call # 0 => book[j].call \in ToolCall /\ book[j].call # e.call
        BY <1>7, <1>13 DEF NumbersOK
    <3>2. book[j].call # 0 => call'[book[j].call].number = book[j].number
        BY <3>1 DEF NumbersOK
    <3>3. book[j].number <= deskNext + 1 /\ book[j].number # deskNext + 1
        BY <1>1, <1>13
    <3>4. \A c \in ToolCall : call'[c].number = book[j].number => book[j].call = c
        BY <3>3 DEF NumbersOK
    <3> QED BY <3>2, <3>3, <3>4
  <2>2. \A c \in ToolCall : call'[c].number = deskNext + 1 => e.call = c
      BY <1>1, <1>4
  <2>3. ASSUME NEW i \in DOMAIN book'
        PROVE  /\ book'[i].number <= deskNext + 1
               /\ book'[i].call # 0 => call'[book'[i].call].number = book'[i].number
               /\ \A c \in ToolCall : call'[c].number = book'[i].number => book'[i].call = c
    <3>1. CASE \E j \in DOMAIN book : book'[i] = book[j]
        BY <2>1, <3>1
    <3>2. CASE book'[i].number = deskNext + 1 /\ book'[i].call = e.call
        BY <1>1, <1>2, <2>2, <3>2
    <3> QED BY <1>12, <3>1, <3>2
  <2>4. ASSUME NEW c \in ToolCall
        PROVE  /\ call'[c].number <= deskNext + 1
               /\ call'[c].step \in {"none", "looked", "runs", "sent"} => call'[c].number = 0
    <3>1. CASE c = e.call
        BY <1>1, <3>1
    <3>2. CASE c # e.call
        BY <1>1, <1>4, <3>2 DEF NumbersOK
    <3> QED BY <3>1, <3>2
  <2> QED BY <1>12, <2>3, <2>4 DEF NumbersOK
<1>17. deskNext + 1 \notin toldNever /\ 0 \notin word /\ 0 \notin toldNever
    BY <1>1 DEF DeskCounts
<1>18. EntriesOK'
  <2>1. ASSUME NEW i \in DOMAIN book'
        PROVE  /\ book'[i].call # 0 /\ book'[i].state \in {"waiting", "declined", "lapsed"} =>
                      sentTo[book'[i].call] = <<>>
               /\ book'[i].number \in toldNever => book'[i].state \in {"declined", "lapsed"}
    <3>1. CASE \E j \in DOMAIN book : book'[i] = book[j]
        BY <3>1 DEF EntriesOK
    <3>2. CASE /\ book'[i].number = deskNext + 1
               /\ book'[i].call = e.call /\ book'[i].state = e.state
        BY <1>17, <3>2
    <3> QED BY <1>12, <3>1, <3>2
  <2> QED BY <2>1 DEF EntriesOK
<1>19. SendsOK'
    BY DEF SendsOK
<1>20. SentOnTheWord'
  <2>1. ASSUME NEW c \in ToolCall
        PROVE  /\ sentTo[c] # <<>> /\ call[c].session \in paying => call'[c].number \in word
               /\ sentTo[c] # <<>> => call'[c].number \notin toldNever
    <3>1. CASE c = e.call
      <4>1. c # 0 /\ call[c].number = 0
          BY <1>1, <1>7, <3>1 DEF ToolCall
      <4>2. ~(sentTo[c] # <<>> /\ call[c].session \in paying)
          BY <1>17, <4>1 DEF SentOnTheWord, CallOf
      <4> QED BY <1>17, <3>1, <4>2
    <3>2. CASE c # e.call
        BY <3>2 DEF SentOnTheWord, CallOf
    <3> QED BY <3>1, <3>2
  <2> QED BY <2>1 DEF SentOnTheWord, CallOf
<1> QED BY <1>14, <1>15, <1>16, <1>18, <1>19, <1>20

(* A command is sent, and its entry, if there is one, says so.             *)
LEMMA CommandSent ==
    ASSUME DeskIInv, NEW c \in ToolCall, sentTo[c] = <<>>, NEW s \in DeskSession, s <= sessions,
           sentTo' = [sentTo EXCEPT ![c] = Append(@, s)],
           call[c].session \in paying => call[c].number \in word',
           call[c].number \notin toldNever,
           word \subseteq word', word' \subseteq 1..deskNext, word' \subseteq AskNumber,
           UNCHANGED <<deskSession, sessions, paying, deskClosed, closing, deskNext, connects,
                       toldNever>>,
           book' \in Seq(Entry), Len(book') = Len(book), DOMAIN book' = DOMAIN book,
           \A i \in DOMAIN book :
              /\ book'[i].number = book[i].number /\ book'[i].call = book[i].call
              /\ \/ book'[i].state = book[i].state
                 \/ book'[i].state = "sent" /\ book[i].number \notin toldNever
              /\ book[i].call = c => book'[i].state \notin {"waiting", "declined", "lapsed"},
           call' \in [ToolCall -> CallRecord],
           \A d \in ToolCall :
              /\ call'[d].number = call[d].number /\ call'[d].session = call[d].session
              /\ call'[d].to = call[d].to
              /\ d # c => call'[d].step = call[d].step,
           call'[c].step \notin {"none", "looked", "runs"},
           call'[c].step = "sent" => call[c].number = 0
    PROVE  DeskIInv'
<1> USE DEF DeskIInv
<1>1. /\ sentTo' \in [ToolCall -> Seq(DeskSession)]
      /\ Len(sentTo'[c]) = 1 /\ DOMAIN sentTo'[c] = {1} /\ sentTo'[c][1] = s
      /\ \A d \in ToolCall : d # c => sentTo'[d] = sentTo[d]
    BY SentOnce
<1>2. DeskTypeOK'
    BY <1>1 DEF DeskTypeOK, CallRecord
<1>3. DeskCounts'
  <2>1. Asked' = Asked
      BY DEF Asked
  <2> QED BY <2>1 DEF DeskCounts
<1>4. NumbersOK'
  <2>1. ASSUME NEW i \in DOMAIN book, NEW j \in DOMAIN book, i < j
        PROVE  book'[i].number < book'[j].number
      BY <2>1 DEF NumbersOK
  <2>2. ASSUME NEW i \in DOMAIN book
        PROVE  /\ book'[i].number <= deskNext
               /\ book'[i].call # 0 => call'[book'[i].call].number = book'[i].number
               /\ \A d \in ToolCall : call'[d].number = book'[i].number => book'[i].call = d
    <3>1. book[i].call # 0 => book[i].call \in ToolCall
        BY BookTypes
    <3> QED BY <3>1 DEF NumbersOK
  <2>3. ASSUME NEW d \in ToolCall
        PROVE  /\ call'[d].number <= deskNext
               /\ call'[d].step \in {"none", "looked", "runs", "sent"} => call'[d].number = 0
      BY DEF NumbersOK
  <2>4. deskNext' = deskNext
      OBVIOUS
  <2> QED BY <2>1, <2>2, <2>3, <2>4 DEF NumbersOK
<1>5. EntriesOK'
  <2>1. ASSUME NEW i \in DOMAIN book
        PROVE  /\ book'[i].call # 0 /\ book'[i].state \in {"waiting", "declined", "lapsed"} =>
                      sentTo'[book'[i].call] = <<>>
               /\ book'[i].number \in toldNever => book'[i].state \in {"declined", "lapsed"}
    <3>1. book[i].call # 0 => book[i].call \in ToolCall
        BY BookTypes
    <3> QED BY <1>1, <3>1 DEF EntriesOK
  <2> QED BY <2>1 DEF EntriesOK
<1>6. SendsOK'
  <2>1. ASSUME NEW d \in ToolCall
        PROVE  /\ call'[d].session <= sessions /\ call'[d].to <= sessions
               /\ call'[d].step = "runs" => call'[d].to # 0
               /\ call'[d].step \in {"none", "looked", "runs"} => sentTo'[d] = <<>>
               /\ \A i \in DOMAIN sentTo'[d] : sentTo'[d][i] <= sessions
    <3>1. CASE d = c
        BY <1>1, <3>1 DEF SendsOK
    <3>2. CASE d # c
        BY <1>1, <3>2 DEF SendsOK
    <3> QED BY <3>1, <3>2
  <2>2. sessions' = sessions
      OBVIOUS
  <2> QED BY <2>1, <2>2 DEF SendsOK
<1>7. SentOnTheWord'
  <2>1. ASSUME NEW d \in ToolCall
        PROVE  /\ Len(sentTo'[d]) <= 1
               /\ sentTo'[d] # <<>> /\ call'[d].session \in paying => call'[d].number \in word'
               /\ sentTo'[d] # <<>> => call'[d].number \notin toldNever
    <3>1. CASE d = c
        BY <1>1, <3>1
    <3>2. CASE d # c
        BY <1>1, <3>2 DEF SentOnTheWord, CallOf
    <3> QED BY <3>1, <3>2
  <2>2. toldNever' = toldNever /\ paying' = paying
      OBVIOUS
  <2> QED BY <2>1, <2>2 DEF SentOnTheWord, CallOf
<1> QED BY <1>2, <1>3, <1>4, <1>5, <1>6, <1>7

(* Calls that end leave the rest as it is.                                 *)
LEMMA CallEnds ==
    ASSUME DeskIInv,
           UNCHANGED <<deskSession, sessions, paying, deskClosed, closing, book, deskNext, connects,
                       sentTo, word, toldNever>>,
           call' \in [ToolCall -> CallRecord],
           \A c \in ToolCall :
              /\ call'[c].number = call[c].number /\ call'[c].session = call[c].session
              /\ call'[c].to = call[c].to
              /\ call'[c].step = call[c].step \/ call'[c].step = "ends"
    PROVE  DeskIInv'
<1> USE DEF DeskIInv
<1>1. DeskTypeOK'
    BY DEF DeskTypeOK, CallRecord
<1>2. DeskCounts'
  <2>1. Asked' = Asked
      BY DEF Asked
  <2> QED BY <2>1 DEF DeskCounts
<1>3. NumbersOK'
  <2>1. ASSUME NEW i \in DOMAIN book
        PROVE  /\ book[i].call # 0 => call'[book[i].call].number = book[i].number
               /\ \A d \in ToolCall : call'[d].number = book[i].number => book[i].call = d
    <3>1. book[i].call # 0 => book[i].call \in ToolCall
        BY BookTypes
    <3> QED BY <3>1 DEF NumbersOK
  <2>2. ASSUME NEW d \in ToolCall
        PROVE  /\ call'[d].number <= deskNext
               /\ call'[d].step \in {"none", "looked", "runs", "sent"} => call'[d].number = 0
      BY DEF NumbersOK
  <2> QED BY <2>1, <2>2 DEF NumbersOK
<1>4. EntriesOK' /\ SendsOK'
    BY DEF EntriesOK, SendsOK
<1>5. SentOnTheWord'
    BY DEF SentOnTheWord, CallOf
<1> QED BY <1>1, <1>2, <1>3, <1>4, <1>5
-----------------------------------------------------------------------------
(* The steps of a tool call.                                               *)

LEMMA TakeCallKeeps ==
    ASSUME DeskIInv, NEW c \in ToolCall, TakeCall(c)
    PROVE  DeskIInv'
<1> USE DEF DeskIInv
<1>1. /\ call[c].step = "none" /\ deskSession # 0
      /\ call' = [call EXCEPT ![c].step = "looked", ![c].session = deskSession]
      /\ UNCHANGED <<deskSession, sessions, paying, deskClosed, closing, book, deskNext, connects,
                     sentTo, word, toldNever>>
    BY DEF TakeCall, CallAt, deskOwner, deskBook, deskPast
<1>2. "looked" \in CallStep /\ deskSession \in 0..MaxSessions
    BY DEF CallStep, DeskTypeOK
<1>3. /\ call' \in [ToolCall -> CallRecord]
      /\ call'[c].step = "looked"
      /\ call'[c].session = deskSession /\ call'[c].to = call[c].to
      /\ call'[c].number = call[c].number
      /\ \A d \in ToolCall : d # c => call'[d] = call[d]
    BY <1>1, <1>2, CallTakes
<1>4. DeskTypeOK'
    BY <1>1, <1>3 DEF DeskTypeOK, CallRecord
<1>5. \A d \in ToolCall : call'[d].number = call[d].number
    BY <1>3
<1>6. DeskCounts'
  <2>1. Asked' = Asked
      BY <1>5 DEF Asked
  <2> QED BY <1>1, <2>1 DEF DeskCounts
<1>7. NumbersOK'
  <2>1. ASSUME NEW i \in DOMAIN book
        PROVE  /\ book[i].call # 0 => call'[book[i].call].number = book[i].number
               /\ \A d \in ToolCall : call'[d].number = book[i].number => book[i].call = d
    <3>1. book[i].call # 0 => book[i].call \in ToolCall
        BY BookTypes
    <3> QED BY <1>5, <3>1 DEF NumbersOK
  <2>2. ASSUME NEW d \in ToolCall
        PROVE  /\ call'[d].number <= deskNext
               /\ call'[d].step \in {"none", "looked", "runs", "sent"} => call'[d].number = 0
      BY <1>1, <1>3 DEF NumbersOK
  <2>3. book' = book /\ deskNext' = deskNext
      BY <1>1
  <2> QED BY <2>1, <2>2, <2>3 DEF NumbersOK
<1>8. EntriesOK'
    BY <1>1 DEF EntriesOK
<1>9. SendsOK'
  <2>1. ASSUME NEW d \in ToolCall
        PROVE  /\ call'[d].session <= sessions /\ call'[d].to <= sessions
               /\ call'[d].step = "runs" => call'[d].to # 0
               /\ call'[d].step \in {"none", "looked", "runs"} => sentTo[d] = <<>>
      BY <1>1, <1>3 DEF SendsOK, DeskCounts
  <2> QED BY <1>1, <2>1 DEF SendsOK
<1>10. SentOnTheWord'
  <2>1. sentTo' = sentTo /\ paying' = paying /\ word' = word /\ toldNever' = toldNever
      BY <1>1
  <2>2. sentTo[c] = <<>> /\ \A d \in ToolCall : d # c => call'[d].session = call[d].session
      BY <1>1, <1>3 DEF SendsOK
  <2> QED BY <1>5, <2>1, <2>2 DEF SentOnTheWord, CallOf
<1> QED BY <1>4, <1>6, <1>7, <1>8, <1>9, <1>10

(* The open session is taken again, or the call ends where there is none.  *)
LEMMA TakeAgainKeeps ==
    ASSUME DeskIInv, NEW c \in ToolCall, TakeAgain(c)
    PROVE  DeskIInv'
<1> USE DEF DeskIInv
<1>1. /\ call[c].step = "looked"
      /\ UNCHANGED <<deskSession, sessions, paying, deskClosed, closing, book, deskNext, connects,
                     sentTo, word, toldNever>>
      /\ \/ deskSession # 0 /\ call' = [call EXCEPT ![c].step = "runs", ![c].to = deskSession]
         \/ CallGoes(c, "ends")
    BY DEF TakeAgain, CallAt, deskOwner, deskBook, deskPast
<1>2. {"runs", "ends"} \subseteq CallStep /\ deskSession \in 0..MaxSessions
    BY DEF CallStep, DeskTypeOK
<1>3. CASE CallGoes(c, "ends")
  <2>1. /\ call' \in [ToolCall -> CallRecord]
        /\ call'[c].step = "ends"
        /\ call'[c].session = call[c].session /\ call'[c].to = call[c].to
        /\ call'[c].number = call[c].number
        /\ \A d \in ToolCall : d # c => call'[d] = call[d]
      BY <1>2, <1>3, CallGoesOn
  <2>2. \A d \in ToolCall :
            /\ call'[d].number = call[d].number /\ call'[d].session = call[d].session
            /\ call'[d].to = call[d].to
            /\ call'[d].step = call[d].step \/ call'[d].step = "ends"
      BY <2>1
  <2> QED BY <1>1, <2>1, <2>2, CallEnds
<1>4. CASE deskSession # 0 /\ call' = [call EXCEPT ![c].step = "runs", ![c].to = deskSession]
  <2>1. /\ call' \in [ToolCall -> CallRecord]
        /\ call'[c].step = "runs"
        /\ call'[c].session = call[c].session /\ call'[c].to = deskSession
        /\ call'[c].number = call[c].number
        /\ \A d \in ToolCall : d # c => call'[d] = call[d]
      BY <1>2, <1>4, CallGoesTo
  <2>2. DeskTypeOK'
      BY <1>1, <2>1 DEF DeskTypeOK, CallRecord
  <2>3. \A d \in ToolCall :
            call'[d].number = call[d].number /\ call'[d].session = call[d].session
      BY <2>1
  <2>4. DeskCounts'
    <3>1. Asked' = Asked
        BY <2>3 DEF Asked
    <3> QED BY <1>1, <3>1 DEF DeskCounts
  <2>5. NumbersOK'
    <3>1. ASSUME NEW i \in DOMAIN book
          PROVE  /\ book[i].call # 0 => call'[book[i].call].number = book[i].number
                 /\ \A d \in ToolCall : call'[d].number = book[i].number => book[i].call = d
      <4>1. book[i].call # 0 => book[i].call \in ToolCall
          BY BookTypes
      <4> QED BY <2>3, <4>1 DEF NumbersOK
    <3>2. ASSUME NEW d \in ToolCall
          PROVE  /\ call'[d].number <= deskNext
                 /\ call'[d].step \in {"none", "looked", "runs", "sent"} => call'[d].number = 0
        BY <1>1, <2>1 DEF NumbersOK
    <3>3. book' = book /\ deskNext' = deskNext
        BY <1>1
    <3> QED BY <3>1, <3>2, <3>3 DEF NumbersOK
  <2>6. EntriesOK'
      BY <1>1 DEF EntriesOK
  <2>7. SendsOK'
    <3>1. ASSUME NEW d \in ToolCall
          PROVE  /\ call'[d].session <= sessions /\ call'[d].to <= sessions
                 /\ call'[d].step = "runs" => call'[d].to # 0
                 /\ call'[d].step \in {"none", "looked", "runs"} => sentTo[d] = <<>>
        BY <1>1, <1>4, <2>1 DEF SendsOK, DeskCounts
    <3> QED BY <1>1, <3>1 DEF SendsOK
  <2>8. SentOnTheWord'
    <3>1. sentTo' = sentTo /\ paying' = paying /\ word' = word /\ toldNever' = toldNever
        BY <1>1
    <3> QED BY <2>3, <3>1 DEF SentOnTheWord, CallOf
  <2> QED BY <2>2, <2>4, <2>5, <2>6, <2>7, <2>8
<1> QED BY <1>1, <1>3, <1>4

(* A command found to cost nothing is sent to the session taken again,     *)
(* whatever that one charges, or is refused.                               *)
LEMMA RunFreeKeeps ==
    ASSUME DeskIInv, NEW c \in ToolCall, RunFree(c)
    PROVE  DeskIInv'
<1> USE DEF DeskIInv
<1>1. /\ call[c].step = "runs" /\ call[c].session \notin paying
      /\ UNCHANGED <<deskSession, sessions, paying, deskClosed, closing, book, deskNext, connects,
                     word, toldNever>>
      /\ Submit(c, call[c].to, CallGoes(c, "sent"), CallGoes(c, "ends"))
    BY DEF RunFree, CallAt, Free, deskOwner, deskBook, deskPast
<1>2. call[c].number = 0 /\ sentTo[c] = <<>>
    BY <1>1 DEF NumbersOK, SendsOK
<1>3. /\ MaxSessions \in Nat
      /\ book \in Seq(Entry) /\ \A i \in DOMAIN book : book[i].number \in Nat \ {0}
    BY BookTypes, DeskAssumption DEF DeskAssumption, AskNumber
<1>4. call[c].to \in DeskSession /\ call[c].to <= sessions
  <2>1. call[c] \in CallRecord
      BY DEF DeskTypeOK, CallRecord
  <2>2. call[c].to \in 0..MaxSessions /\ call[c].to # 0
      BY <1>1, <2>1 DEF CallRecord, SendsOK
  <2> QED BY <1>3, <2>2 DEF SendsOK, DeskSession
<1>5. \A i \in DOMAIN book : c # book[i].call
    BY <1>1, <1>2, <1>3, DeskAssumption DEF NumbersOK, ToolCall, DeskAssumption
<1>6. "sent" \in CallStep /\ "ends" \in CallStep
    BY DEF CallStep
<1>7. word \subseteq 1..deskNext /\ word \subseteq AskNumber /\ 0 \notin toldNever
    BY DEF DeskCounts, DeskTypeOK
<1>8. CASE /\ sentTo' = [sentTo EXCEPT ![c] = Append(@, call[c].to)]
           /\ CallGoes(c, "sent")
  <2>1. /\ call' \in [ToolCall -> CallRecord]
        /\ call'[c].step = "sent"
        /\ call'[c].session = call[c].session /\ call'[c].to = call[c].to
        /\ call'[c].number = call[c].number
        /\ \A d \in ToolCall : d # c => call'[d] = call[d]
      BY <1>6, <1>8, CallGoesOn
  <2>2. \A d \in ToolCall :
            /\ call'[d].number = call[d].number /\ call'[d].session = call[d].session
            /\ call'[d].to = call[d].to
            /\ d # c => call'[d].step = call[d].step
      BY <2>1
  <2>3. PICK s \in DeskSession : s = call[c].to
      BY <1>4
  <2>4. /\ s <= sessions /\ sentTo' = [sentTo EXCEPT ![c] = Append(@, s)]
        /\ call[c].session \in paying => call[c].number \in word'
      BY <1>1, <1>4, <1>8, <2>3
  <2>5. /\ call[c].number \notin toldNever /\ word \subseteq word' /\ word' \subseteq 1..deskNext
        /\ word' \subseteq AskNumber
      BY <1>1, <1>2, <1>7
  <2>6. /\ book' \in Seq(Entry) /\ Len(book') = Len(book) /\ DOMAIN book' = DOMAIN book
        /\ \A i \in DOMAIN book :
              /\ book'[i].number = book[i].number /\ book'[i].call = book[i].call
              /\ \/ book'[i].state = book[i].state
                 \/ book'[i].state = "sent" /\ book[i].number \notin toldNever
              /\ book[i].call = c => book'[i].state \notin {"waiting", "declined", "lapsed"}
      BY <1>1, <1>3, <1>5
  <2>7. /\ call'[c].step \notin {"none", "looked", "runs"}
        /\ call'[c].step = "sent" => call[c].number = 0
      BY <1>2, <2>1
  <2> QED BY <1>1, <1>2, <2>1, <2>2, <2>4, <2>5, <2>6, <2>7, CommandSent
<1>9. CASE CallGoes(c, "ends") /\ UNCHANGED sentTo
  <2>1. /\ call' \in [ToolCall -> CallRecord]
        /\ call'[c].step = "ends"
        /\ call'[c].session = call[c].session /\ call'[c].to = call[c].to
        /\ call'[c].number = call[c].number
        /\ \A d \in ToolCall : d # c => call'[d] = call[d]
      BY <1>6, <1>9, CallGoesOn
  <2>2. \A d \in ToolCall :
            /\ call'[d].number = call[d].number /\ call'[d].session = call[d].session
            /\ call'[d].to = call[d].to
            /\ call'[d].step = call[d].step \/ call'[d].step = "ends"
      BY <2>1
  <2> QED BY <1>1, <1>9, <2>1, <2>2, CallEnds
<1> QED BY <1>1, <1>8, <1>9 DEF Submit

(* A command is noted as sent, or waits for the director's word: not sent, *)
(* as its sessions were only looked at.                                    *)
LEMMA NotingKeeps ==
    ASSUME DeskIInv, NEW c \in ToolCall, NEW s \in {"waits", "ends"}, NEW a \in {"waiting", "sent"},
           call[c].step \in {"runs", "sent"}, a = "waiting" => call[c].step = "runs",
           Keep([number |-> 0, call |-> c, state |-> a]),
           call' = [call EXCEPT ![c].step = s, ![c].number = deskNext + 1],
           UNCHANGED <<deskOwner, connects, sentTo, deskPast>>
    PROVE  DeskIInv'
<1>1. PICK e : e = [number |-> 0, call |-> c, state |-> a]
    OBVIOUS
<1>2. /\ MaxToolCalls \in Nat /\ MaxConnects \in Nat /\ connects \in 0..MaxConnects
      /\ DeskTypeOK /\ c # 0 /\ c \in 0..MaxToolCalls
    BY DeskAssumption DEF DeskAssumption, DeskIInv, DeskTypeOK, ToolCall
<1>3. e \in [number: {0}, call: 0..MaxToolCalls, state: AskState] /\ e.call = c /\ e.state = a
    BY <1>1, <1>2 DEF AskState
<1>4. /\ Keep(e) /\ s \in CallStep
      /\ UNCHANGED <<deskSession, sessions, paying, deskClosed, closing, connects, sentTo, word,
                     toldNever>>
    BY <1>1 DEF deskOwner, deskPast, CallStep
<1>5. /\ connects' \in 0..MaxConnects
      /\ connects' = IF e.call = 0 THEN connects + 1 ELSE connects
    BY <1>2, <1>3, <1>4
<1>6. (a = "waiting" => sentTo[c] = <<>>) /\ call[c].number = 0
    BY DEF DeskIInv, SendsOK, NumbersOK
<1>7. deskNext + 1 \in 0..(MaxToolCalls + MaxConnects)
    BY <1>6, NextIsLeft DEF DeskIInv
<1>8. /\ call' \in [ToolCall -> CallRecord]
       /\ call'[c].step = s
       /\ call'[c].session = call[c].session /\ call'[c].to = call[c].to
       /\ call'[c].number = deskNext + 1
       /\ \A d \in ToolCall : d # c => call'[d] = call[d]
    BY <1>2, <1>4, <1>7, CallIsNumbered
<1>9. \A d \in ToolCall :
          /\ call'[d].session = call[d].session /\ call'[d].to = call[d].to
          /\ d = e.call => call'[d].number = deskNext + 1 /\ call'[d].step \in {"waits", "ends"}
          /\ d # e.call => call'[d] = call[d]
    BY <1>3, <1>8
<1>10. /\ e.call # 0 => call[e.call].step \in {"runs", "sent"}
       /\ e.call # 0 /\ e.state \in {"waiting", "declined", "lapsed"} => sentTo[e.call] = <<>>
    BY <1>3, <1>6
<1> QED BY <1>3, <1>4, <1>5, <1>8, <1>9, <1>10, NewEntryKeeps

LEMMA AskToConnectKeeps ==
    ASSUME DeskIInv, AskToConnect
    PROVE  DeskIInv'
<1>1. PICK e : e = [number |-> 0, call |-> 0, state |-> "waiting"]
    OBVIOUS
<1>2. /\ MaxToolCalls \in Nat /\ MaxConnects \in Nat /\ connects \in 0..MaxConnects
    BY DeskAssumption DEF DeskAssumption, DeskIInv, DeskTypeOK
<1>3. e \in [number: {0}, call: 0..MaxToolCalls, state: AskState] /\ e.call = 0
    BY <1>1, <1>2 DEF AskState
<1>4. /\ Keep(e) /\ connects < MaxConnects /\ connects' = connects + 1
      /\ UNCHANGED <<deskSession, sessions, paying, deskClosed, closing, call, sentTo, word,
                     toldNever>>
    BY <1>1 DEF AskToConnect, deskOwner, deskPast
<1>5. /\ connects' \in 0..MaxConnects
      /\ connects' = IF e.call = 0 THEN connects + 1 ELSE connects
    BY <1>2, <1>3, <1>4
<1>6. /\ call' \in [ToolCall -> CallRecord]
      /\ \A c \in ToolCall :
            /\ call'[c].session = call[c].session /\ call'[c].to = call[c].to
            /\ c = e.call => call'[c].number = deskNext + 1 /\ call'[c].step \in {"waits", "ends"}
            /\ c # e.call => call'[c] = call[c]
    BY <1>2, <1>3, <1>4 DEF DeskIInv, DeskTypeOK, CallRecord, ToolCall
<1> QED BY <1>3, <1>4, <1>5, <1>6, NewEntryKeeps
-----------------------------------------------------------------------------
(* What looks at an entry, and the director's word.                        *)

LEMMA TendedEntry ==
    ASSUME DeskTypeOK, NEW n, InBook(n), NEW entry \in Tended(book[Place(n)])
    PROVE  /\ Place(n) \in DOMAIN book /\ book[Place(n)].number = n
           /\ entry.number = n /\ entry.call = book[Place(n)].call /\ entry.state \in AskState
           /\ \/ entry.state = book[Place(n)].state
              \/ book[Place(n)].state = "waiting" /\ entry.state = "lapsed"
<1>1. PICK p : p = Place(n)
    OBVIOUS
<1>2. p \in DOMAIN book /\ book[p].number = n
    BY <1>1 DEF InBook, Place
<1>3. book[p] \in Entry
    BY <1>2, BookTypes
<1>4. PICK y : y = [book[p] EXCEPT !.state = "lapsed"]
    OBVIOUS
<1>5. y.number = n /\ y.call = book[p].call /\ y.state = "lapsed"
    BY <1>2, <1>3, <1>4 DEF Entry
<1>6. entry = book[p] \/ (entry = y /\ book[p].state = "waiting")
    BY <1>1, <1>4 DEF Tended
<1>7. book[p].state \in AskState /\ "lapsed" \in AskState
    BY <1>3 DEF Entry, AskState
<1> QED BY <1>1, <1>2, <1>5, <1>6, <1>7

(* The answer to a call, and any look at a request.                        *)
LEMMA AnswerCallKeeps ==
    ASSUME DeskIInv, NEW c \in ToolCall, AnswerCall(c)
    PROVE  DeskIInv'
<1>1. /\ CallGoes(c, "ends")
      /\ UNCHANGED <<deskSession, sessions, paying, deskClosed, closing, deskNext, connects, sentTo,
                     word>>
    BY DEF AnswerCall, deskOwner
<1>2. DeskTypeOK /\ "ends" \in CallStep
    BY DEF DeskIInv, CallStep
<1>3. /\ call' \in [ToolCall -> CallRecord]
      /\ call'[c].step = "ends"
      /\ call'[c].session = call[c].session /\ call'[c].to = call[c].to
      /\ call'[c].number = call[c].number
      /\ \A d \in ToolCall : d # c => call'[d] = call[d]
    BY <1>1, <1>2, CallGoesOn
<1>4. \A d \in ToolCall :
          /\ call'[d].number = call[d].number /\ call'[d].session = call[d].session
          /\ call'[d].to = call[d].to
          /\ call'[d].step = call[d].step \/ call'[d].step = "ends"
    BY <1>3
<1>5. CASE InBook(call[c].number)
  <2>1. PICK n : n = call[c].number
      OBVIOUS
  <2>2. PICK entry \in Tended(book[Place(n)]) : Settle(entry.number, entry.state) /\ Tell(entry)
      BY <1>5, <2>1 DEF AnswerCall
  <2>3. InBook(n)
      BY <1>5, <2>1
  <2>4. /\ entry.number = n /\ entry.state \in AskState
        /\ entry.state = book[Place(n)].state \/ book[Place(n)].state = "waiting"
      BY <1>2, <2>3, TendedEntry
  <2>5. Settle(n, entry.state)
      BY <2>2, <2>4
  <2>6. \/ toldNever' = toldNever
        \/ entry.state \in {"declined", "lapsed"} /\ toldNever' = toldNever \cup {n}
      BY <2>2, <2>4 DEF Tell
  <2>7. PICK s \in AskState : s = entry.state
      BY <2>4
  <2>8. /\ Settle(n, s) /\ (s = book[Place(n)].state \/ book[Place(n)].state = "waiting")
        /\ \/ toldNever' = toldNever
           \/ s \in {"declined", "lapsed"} /\ toldNever' = toldNever \cup {n}
      BY <2>4, <2>5, <2>6, <2>7
  <2> QED BY <1>1, <1>3, <1>4, <2>3, <2>8, EntryTurns
<1>6. CASE ~InBook(call[c].number)
  <2>1. UNCHANGED <<book, toldNever>>
      BY <1>6 DEF AnswerCall
  <2> QED BY <1>1, <1>3, <1>4, <2>1, CallEnds
<1> QED BY <1>5, <1>6

LEMMA LookAtRequestKeeps ==
    ASSUME DeskIInv, NEW n, LookAtRequest(n)
    PROVE  DeskIInv'
<1>1. /\ InBook(n)
      /\ UNCHANGED <<deskSession, sessions, paying, deskClosed, closing, deskNext, connects, call,
                     sentTo, word>>
    BY DEF LookAtRequest, deskOwner
<1>2. PICK entry \in Tended(book[Place(n)]) : Settle(n, entry.state) /\ Tell(entry)
    BY DEF LookAtRequest
<1>3. /\ entry.number = n /\ entry.state \in AskState
      /\ entry.state = book[Place(n)].state \/ book[Place(n)].state = "waiting"
    BY <1>1, TendedEntry DEF DeskIInv
<1>4. \/ toldNever' = toldNever
      \/ entry.state \in {"declined", "lapsed"} /\ toldNever' = toldNever \cup {n}
    BY <1>2, <1>3 DEF Tell
<1>5. PICK s \in AskState : s = entry.state
    BY <1>3
<1>6. /\ Settle(n, s) /\ (s = book[Place(n)].state \/ book[Place(n)].state = "waiting")
      /\ \/ toldNever' = toldNever
         \/ s \in {"declined", "lapsed"} /\ toldNever' = toldNever \cup {n}
    BY <1>2, <1>3, <1>4, <1>5
<1>7. /\ call' \in [ToolCall -> CallRecord]
      /\ \A d \in ToolCall :
            /\ call'[d].number = call[d].number /\ call'[d].session = call[d].session
            /\ call'[d].to = call[d].to
            /\ call'[d].step = call[d].step \/ call'[d].step = "ends"
    BY <1>1 DEF DeskIInv, DeskTypeOK, CallRecord
<1> QED BY <1>1, <1>6, <1>7, EntryTurns

LEMMA WithdrawKeeps ==
    ASSUME DeskIInv, NEW n, Withdraw(n)
    PROVE  DeskIInv'
<1>1. /\ InBook(n) /\ book[Place(n)].state = "waiting" /\ Settle(n, "lapsed")
      /\ "lapsed" \in AskState
      /\ UNCHANGED <<deskSession, sessions, paying, deskClosed, closing, deskNext, connects, call,
                     sentTo, word, toldNever>>
    BY DEF Withdraw, deskOwner, deskPast, AskState
<1>2. /\ call' \in [ToolCall -> CallRecord]
      /\ \A d \in ToolCall :
            /\ call'[d].number = call[d].number /\ call'[d].session = call[d].session
            /\ call'[d].to = call[d].to
            /\ call'[d].step = call[d].step \/ call'[d].step = "ends"
    BY <1>1 DEF DeskIInv, DeskTypeOK, CallRecord
<1> QED BY <1>1, <1>2, EntryTurns

(* The director's word reaches a command that waits, of which nobody was   *)
(* told that it was not sent; it is sent once, or refused.                 *)
LEMMA DecideKeeps ==
    ASSUME DeskIInv, NEW n, NEW allow \in BOOLEAN, Decide(n, allow)
    PROVE  DeskIInv'
<1>1. /\ InBook(n)
      /\ UNCHANGED <<deskSession, sessions, paying, deskClosed, closing, deskNext, connects, call,
                     toldNever>>
    BY DEF Decide, deskOwner
<1>2. PICK entry \in Tended(book[Place(n)]) :
          \/ /\ ~MayDecide(entry)
             /\ Settle(n, entry.state)
             /\ UNCHANGED <<sentTo, word>>
          \/ /\ MayDecide(entry) /\ ~allow
             /\ Settle(n, "declined")
             /\ UNCHANGED <<sentTo, word>>
          \/ /\ MayDecide(entry) /\ allow
             /\ word' = word \cup {n}
             /\ IF entry.call = 0
                THEN Settle(n, "allowed") /\ UNCHANGED sentTo
                ELSE IF deskSession = 0
                THEN Settle(n, "refused") /\ UNCHANGED sentTo
                ELSE Submit(entry.call, deskSession, Settle(n, "sent"), Settle(n, "refused"))
    BY DEF Decide
<1>3. PICK p : p = Place(n)
    OBVIOUS
<1>4. /\ p \in DOMAIN book /\ book[p].number = n
      /\ entry.call = book[p].call /\ entry.state \in AskState
      /\ \/ entry.state = book[p].state
         \/ book[p].state = "waiting" /\ entry.state = "lapsed"
    BY <1>1, <1>3, TendedEntry DEF DeskIInv
<1>5. MayDecide(entry) => book[p].state = "waiting"
    BY <1>4 DEF MayDecide
<1>6. /\ call' \in [ToolCall -> CallRecord]
      /\ \A d \in ToolCall :
            /\ call'[d].number = call[d].number /\ call'[d].session = call[d].session
            /\ call'[d].to = call[d].to
            /\ call'[d].step = call[d].step \/ call'[d].step = "ends"
    BY <1>1 DEF DeskIInv, DeskTypeOK, CallRecord
<1>7. CASE /\ UNCHANGED sentTo
           /\ \E s \in AskState : /\ Settle(n, s)
                                  /\ s = book[p].state \/ book[p].state = "waiting"
           /\ word' = word \/ word' = word \cup {n}
  <2>1. PICK s \in AskState : /\ Settle(n, s)
                              /\ s = book[p].state \/ book[p].state = "waiting"
      BY <1>7
  <2>2. s = book[Place(n)].state \/ book[Place(n)].state = "waiting"
      BY <1>3, <2>1
  <2> QED BY <1>1, <1>6, <1>7, <2>1, <2>2, EntryTurns
<1>8. CASE /\ MayDecide(entry) /\ entry.call # 0 /\ deskSession # 0
           /\ deskSession \notin deskClosed
           /\ sentTo' = [sentTo EXCEPT ![entry.call] = Append(@, deskSession)]
           /\ Settle(n, "sent") /\ word' = word \cup {n}
  <2>1. PICK c \in ToolCall : c = entry.call /\ c = book[p].call
      BY <1>4, <1>8, BookTypes DEF DeskIInv
  <2>2. /\ sentTo[c] = <<>> /\ call[c].number = n /\ n \notin toldNever /\ n <= deskNext
        /\ \A i \in DOMAIN book : book[i].call = c => i = p
    <3>1. DeskTypeOK /\ NumbersOK /\ EntriesOK
        BY DEF DeskIInv
    <3>2. c # 0
        BY <1>8, <2>1
    <3>3. sentTo[c] = <<>> /\ n \notin toldNever
        BY <1>4, <1>5, <1>8, <2>1, <3>1, <3>2 DEF EntriesOK
    <3>4. call[c].number = n /\ n <= deskNext
        BY <1>4, <2>1, <3>1, <3>2 DEF NumbersOK
    <3>5. ASSUME NEW i \in DOMAIN book, book[i].call = c
          PROVE  i = p
      <4>1. book[i].number = n
          BY <3>1, <3>2, <3>4, <3>5 DEF NumbersOK
      <4>2. i \in Int /\ p \in Int /\ n \in Int
        <5>1. MaxToolCalls + MaxConnects \in Nat
            BY DeskAssumption DEF DeskAssumption
        <5> QED BY <1>4, <3>1, <5>1, BookTypes DEF AskNumber
      <4>3. ~(i < p) /\ ~(p < i)
          BY <1>4, <3>1, <4>1, <4>2 DEF NumbersOK
      <4> QED BY <4>2, <4>3
    <3> QED BY <3>3, <3>4, <3>5
  <2>3. n \in AskNumber /\ n \in 1..deskNext
    <3>1. n \in AskNumber
        BY <1>4, BookTypes DEF DeskIInv
    <3>2. MaxToolCalls + MaxConnects \in Nat /\ deskNext \in Nat
        BY DeskAssumption DEF DeskAssumption, DeskIInv, DeskTypeOK
    <3> QED BY <2>2, <3>1, <3>2 DEF AskNumber
  <2>4. call'[c].step \notin {"none", "looked", "runs", "sent"}
    <3>1. n # 0
        BY <2>3
    <3> QED BY <1>1, <2>2, <3>1 DEF DeskIInv, NumbersOK
  <2>5. PICK s \in DeskSession : s = deskSession
    <3>1. MaxSessions \in Nat
        BY DeskAssumption DEF DeskAssumption
    <3>2. deskSession \in 0..MaxSessions
        BY DEF DeskIInv, DeskTypeOK
    <3> QED BY <1>8, <3>1, <3>2 DEF DeskSession
  <2>6. s <= sessions /\ sentTo' = [sentTo EXCEPT ![c] = Append(@, s)]
      BY <1>8, <2>1, <2>5 DEF DeskIInv, DeskCounts
  <2>7. /\ call[c].number \in word' /\ call[c].number \notin toldNever
        /\ word \subseteq word' /\ word' \subseteq 1..deskNext /\ word' \subseteq AskNumber
      BY <1>8, <2>2, <2>3 DEF DeskIInv, DeskCounts, DeskTypeOK
  <2>8. /\ book' \in Seq(Entry) /\ Len(book') = Len(book) /\ DOMAIN book' = DOMAIN book
        /\ \A i \in DOMAIN book :
              /\ book'[i].number = book[i].number /\ book'[i].call = book[i].call
              /\ book'[i].state = IF i = p THEN "sent" ELSE book[i].state
    <3>1. "sent" \in AskState /\ DeskTypeOK
        BY DEF AskState, DeskIInv
    <3> QED BY <1>1, <1>3, <1>8, <3>1, EntrySettled
  <2>9. \A i \in DOMAIN book :
            /\ book'[i].number = book[i].number /\ book'[i].call = book[i].call
            /\ \/ book'[i].state = book[i].state
               \/ book'[i].state = "sent" /\ book[i].number \notin toldNever
            /\ book[i].call = c => book'[i].state \notin {"waiting", "declined", "lapsed"}
      BY <1>4, <2>2, <2>8
  <2>10. \A d \in ToolCall :
            /\ call'[d].number = call[d].number /\ call'[d].session = call[d].session
            /\ call'[d].to = call[d].to
            /\ d # c => call'[d].step = call[d].step
      BY <1>1
  <2>11. sentTo[c] = <<>>
      BY <2>2
  <2>12. /\ call[c].session \in paying => call[c].number \in word'
         /\ call'[c].step = "sent" => call[c].number = 0
         /\ call'[c].step \notin {"none", "looked", "runs"}
      BY <2>4, <2>7
  <2>13. book' \in Seq(Entry) /\ Len(book') = Len(book) /\ DOMAIN book' = DOMAIN book
      BY <2>8
  <2> QED BY <1>1, <1>6, <2>4, <2>6, <2>7, <2>9, <2>10, <2>11, <2>12, <2>13, CommandSent
<1>9. {"declined", "allowed", "refused"} \subseteq AskState
    BY DEF AskState
<1>10. CASE /\ ~MayDecide(entry)
            /\ Settle(n, entry.state)
            /\ UNCHANGED <<sentTo, word>>
    BY <1>4, <1>7, <1>10
<1>11. CASE /\ MayDecide(entry) /\ ~allow
            /\ Settle(n, "declined")
            /\ UNCHANGED <<sentTo, word>>
    BY <1>5, <1>7, <1>9, <1>11
<1>12. CASE /\ MayDecide(entry) /\ allow
            /\ word' = word \cup {n}
            /\ IF entry.call = 0
               THEN Settle(n, "allowed") /\ UNCHANGED sentTo
               ELSE IF deskSession = 0
               THEN Settle(n, "refused") /\ UNCHANGED sentTo
               ELSE Submit(entry.call, deskSession, Settle(n, "sent"), Settle(n, "refused"))
  <2>1. \/ UNCHANGED sentTo /\ (Settle(n, "allowed") \/ Settle(n, "refused"))
        \/ /\ entry.call # 0 /\ deskSession # 0 /\ deskSession \notin deskClosed
           /\ sentTo' = [sentTo EXCEPT ![entry.call] = Append(@, deskSession)]
           /\ Settle(n, "sent")
      BY <1>12 DEF Submit
  <2> QED BY <1>5, <1>7, <1>8, <1>9, <1>12, <2>1
<1> QED BY <1>2, <1>10, <1>11, <1>12
-----------------------------------------------------------------------------
(* The specification.                                                      *)

LEMMA DeskStarts ==
    DeskInit => DeskIInv
<1> SUFFICES ASSUME DeskInit PROVE DeskIInv
    OBVIOUS
<1>1. /\ MaxToolCalls \in Nat /\ MaxConnects \in Nat /\ MaxSessions \in Nat
      /\ MaxToolCalls + MaxConnects \in Nat /\ KeptAsks \in Nat
    BY DeskAssumption DEF DeskAssumption
<1>2. /\ \A c \in ToolCall : /\ call[c].step = "none" /\ call[c].number = 0
                               /\ call[c].session = 0 /\ call[c].to = 0
      /\ \A c \in ToolCall : sentTo[c] = <<>>
    BY DEF DeskInit
<1>3. DeskTypeOK
  <2>1. call \in [ToolCall -> [step: CallStep, session: 0..MaxSessions, to: 0..MaxSessions,
                               number: 0..(MaxToolCalls + MaxConnects)]]
      BY <1>1 DEF DeskInit, CallStep
  <2>2. book \in Seq(Entry) /\ Len(book) = 0 /\ 0 <= KeptAsks
      BY <1>1 DEF DeskInit
  <2>3. sentTo \in [ToolCall -> Seq(DeskSession)]
      BY DEF DeskInit
  <2> QED BY <1>1, <2>1, <2>2, <2>3 DEF DeskInit, DeskTypeOK
<1>4. DeskCounts
  <2>1. Asked = {}
      BY <1>2 DEF Asked
  <2>2. Cardinality(Asked) = 0
      BY <2>1, FS_EmptySet
  <2> QED BY <2>2 DEF DeskInit, DeskCounts
<1>5. NumbersOK /\ EntriesOK
    BY <1>2 DEF DeskInit, NumbersOK, EntriesOK
<1>6. SendsOK /\ SentOnTheWord
    BY <1>2 DEF DeskInit, SendsOK, SentOnTheWord
<1> QED BY <1>3, <1>4, <1>5, <1>6 DEF DeskIInv

LEMMA DeskStays ==
    ASSUME DeskIInv, UNCHANGED deskVars
    PROVE  DeskIInv'
<1>1. UNCHANGED <<deskSession, sessions, paying, deskClosed, closing, book, deskNext, connects, call,
                  sentTo, word, toldNever>>
    BY DEF deskVars, deskOwner, deskBook, deskPast
<1>2. /\ call' \in [ToolCall -> CallRecord]
      /\ \A d \in ToolCall :
            /\ call'[d].number = call[d].number /\ call'[d].session = call[d].session
            /\ call'[d].to = call[d].to
            /\ call'[d].step = call[d].step \/ call'[d].step = "ends"
    BY <1>1 DEF DeskIInv, DeskTypeOK, CallRecord
<1> QED BY <1>1, <1>2, CallEnds

(* The inductive invariant: every step of the application, of the calls    *)
(* and of the director keeps it.                                           *)
THEOREM DeskInvariance ==
    DeskSpec => []DeskIInv
<1>1. ASSUME DeskIInv, [DeskNextStep]_deskVars
      PROVE  DeskIInv'
  <2>1. CASE \E pays \in BOOLEAN : OpenSession(pays)
      BY <1>1, <2>1, OpenSessionKeeps
  <2>2. CASE TakeSession \/ DropSession
      BY <1>1, <2>2, ClosingKeeps
  <2>3. CASE LapseWaiting
      BY <1>1, <2>3, LapseWaitingKeeps
  <2>4. ASSUME NEW c \in ToolCall,
               \/ TakeCall(c) \/ TakeAgain(c) \/ RunFree(c) \/ NoteFree(c) \/ NotePaid(c)
               \/ AnswerCall(c)
        PROVE  DeskIInv'
    <3>1. CASE TakeCall(c)
        BY <1>1, <3>1, TakeCallKeeps
    <3>2. CASE RunFree(c)
        BY <1>1, <3>2, RunFreeKeeps
    <3>3. CASE NoteFree(c)
        BY <1>1, <3>3, NotingKeeps DEF NoteFree, CallAt
    <3>4. CASE NotePaid(c)
        BY <1>1, <3>4, NotingKeeps DEF NotePaid, CallAt
    <3>5. CASE AnswerCall(c)
        BY <1>1, <3>5, AnswerCallKeeps
    <3>6. CASE TakeAgain(c)
        BY <1>1, <3>6, TakeAgainKeeps
    <3> QED BY <2>4, <3>1, <3>2, <3>3, <3>4, <3>5, <3>6
  <2>5. CASE AskToConnect
      BY <1>1, <2>5, AskToConnectKeeps
  <2>6. ASSUME NEW number \in AskNumber,
               \/ LookAtRequest(number) \/ Withdraw(number)
               \/ \E allow \in BOOLEAN : Decide(number, allow)
        PROVE  DeskIInv'
    <3>1. CASE LookAtRequest(number)
        BY <1>1, <3>1, LookAtRequestKeeps
    <3>2. CASE Withdraw(number)
        BY <1>1, <3>2, WithdrawKeeps
    <3>3. ASSUME NEW allow \in BOOLEAN, Decide(number, allow)
          PROVE  DeskIInv'
        BY <1>1, <3>3, DecideKeeps
    <3> QED BY <2>6, <3>1, <3>2, <3>3
  <2>7. CASE UNCHANGED deskVars
      BY <1>1, <2>7, DeskStays
  <2> QED BY <1>1, <2>1, <2>2, <2>3, <2>4, <2>5, <2>6, <2>7 DEF DeskNextStep
<1> QED BY <1>1, DeskStarts, PTL DEF DeskSpec

(* The variables keep their types, whatever the agents, the application    *)
(* and the director do.                                                    *)
THEOREM DeskTypeCorrect ==
    DeskSpec => []DeskTypeOK
<1>1. DeskIInv => DeskTypeOK
    BY DEF DeskIInv
<1> QED BY <1>1, DeskInvariance, PTL

(* A command found to cost with the session first taken is sent only on    *)
(* the director's word; none is sent twice, and none of which anybody was  *)
(* told that it was not sent is sent at all (ADR 0011, desk.rs's decide).  *)
THEOREM PaidOnTheWord ==
    DeskSpec => []SentOnTheWord
<1>1. DeskIInv => SentOnTheWord
    BY DEF DeskIInv
<1> QED BY <1>1, DeskInvariance, PTL
-----------------------------------------------------------------------------
(* The agents' grants.                                                     *)

(* No agent holds a token of the authorization, and no grant comes of it.  *)
Ungranted(a) ==
    /\ holds[a] = NotHeld
    /\ \A clients \in {stored, agentsFile} : \A i \in DOMAIN clients :
          \A j \in DOMAIN clients[i].grants : clients[i].grants[j].auth # a

(* An authorization not granted is in one place at most: with its request, *)
(* among those that wait, or with its code.                                *)
OneWayEach ==
    /\ \A w, x \in atWork : w.auth = x.auth => w = x
    /\ \A t, u \in pendingAuths : t.auth = u.auth => t = u
    /\ \A t, u \in codes : t.auth = u.auth => t = u
    /\ \A w \in atWork : \A t \in pendingAuths \cup codes : w.auth # t.auth
    /\ \A t \in pendingAuths, u \in codes : t.auth # u.auth

(* What is on its way was asked for, and nothing was granted of it; once it *)
(* is past the director it is allowed.                                     *)
WaysOK ==
    /\ \A w \in atWork :
          /\ askedBy[w.auth] # 0 /\ Ungranted(w.auth)
          /\ verdict[w.auth] = IF w.step = "asked" THEN "none" ELSE "allowed"
    /\ \A t \in pendingAuths :
          askedBy[t.auth] # 0 /\ Ungranted(t.auth) /\ verdict[t.auth] # "none"
    /\ \A t \in codes : askedBy[t.auth] # 0 /\ Ungranted(t.auth) /\ verdict[t.auth] = "allowed"
    /\ \A a \in Auth : askedBy[a] = 0 => holds[a] = NotHeld /\ verdict[a] = "none"

(* An agent known was registered and was not disconnected; each of its     *)
(* grants comes from an authorization of its own that was allowed, and no  *)
(* other of its grants does; none is older than what the agent holds.      *)
ClientOK(client) ==
    /\ Len(client.grants) <= MaxGrants
    /\ client.agent <= registrations /\ client.agent \notin disconnected
    /\ \A j \in DOMAIN client.grants :
          /\ askedBy[client.grants[j].auth] = client.agent
          /\ verdict[client.grants[j].auth] = "allowed"
          /\ holds[client.grants[j].auth] # NotHeld =>
                client.grants[j].turn >= holds[client.grants[j].auth]
          /\ \A k \in DOMAIN client.grants :
                client.grants[j].auth = client.grants[k].auth => j = k

(* What an agent holds is in the list, unless it is excused.               *)
TokensKept(clients) ==
    \A a \in Auth \ excused : holds[a] # NotHeld =>
        \E i \in DOMAIN clients : \E j \in DOMAIN clients[i].grants :
            clients[i].grants[j] = [auth |-> a, turn |-> holds[a]]

(* The agents in memory, or in the file: each is there once.               *)
ClientsOK(clients) ==
    /\ clients \in Seq(Client) /\ Len(clients) <= MaxClients
    /\ \A i \in DOMAIN clients : ClientOK(clients[i])
    /\ \A i, j \in DOMAIN clients : clients[i].agent = clients[j].agent => i = j
    /\ TokensKept(clients)

GrantsIInv ==
    /\ GrantsTypeOK /\ OneWayEach /\ WaysOK /\ disconnected \subseteq 1..registrations
    /\ \A clients \in {stored, agentsFile} : ClientsOK(clients)
-----------------------------------------------------------------------------
(* A client's parts.                                                       *)
LEMMA ClientTypes ==
    ASSUME NEW clients \in Seq(Client)
    PROVE  /\ DOMAIN clients = 1..Len(clients) /\ Len(clients) \in Nat
           /\ \A i \in DOMAIN clients :
                 /\ clients[i] \in Client /\ clients[i].agent \in Agent
                 /\ clients[i].grants \in Seq(Grant)
                 /\ DOMAIN clients[i].grants = 1..Len(clients[i].grants)
                 /\ Len(clients[i].grants) \in Nat
                 /\ \A j \in DOMAIN clients[i].grants :
                       /\ clients[i].grants[j] \in Grant /\ clients[i].grants[j].auth \in Auth
                       /\ clients[i].grants[j].turn \in 0..MaxTurns
<1>1. /\ DOMAIN clients = 1..Len(clients) /\ Len(clients) \in Nat
      /\ \A i \in DOMAIN clients : clients[i] \in Client
    BY LenProperties, ElementOfSeq
<1>2. ASSUME NEW x \in Client
      PROVE  /\ x.agent \in Agent /\ x.grants \in Seq(Grant)
             /\ DOMAIN x.grants = 1..Len(x.grants) /\ Len(x.grants) \in Nat
             /\ \A j \in DOMAIN x.grants : /\ x.grants[j] \in Grant /\ x.grants[j].auth \in Auth
                                           /\ x.grants[j].turn \in 0..MaxTurns
  <2>1. x.agent \in Agent /\ x.grants \in Seq(Grant)
      BY DEF Client
  <2>2. /\ DOMAIN x.grants = 1..Len(x.grants) /\ Len(x.grants) \in Nat
        /\ \A j \in DOMAIN x.grants : x.grants[j] \in Grant
      BY <2>1, LenProperties, ElementOfSeq
  <2>3. \A g \in Grant : g.auth \in Auth /\ g.turn \in 0..MaxTurns
      BY DEF Grant
  <2> QED BY <2>1, <2>2, <2>3
<1> QED BY <1>1, <1>2

(* A client stays as it must be while what it depends on stays.            *)
LEMMA ClientFrame ==
    ASSUME NEW x, ClientOK(x), x.agent \in Nat, registrations \in Nat, registrations' \in Nat,
           registrations <= registrations', x.agent \notin disconnected',
           \A j \in DOMAIN x.grants :
              /\ askedBy'[x.grants[j].auth] = askedBy[x.grants[j].auth]
              /\ verdict'[x.grants[j].auth] = "allowed"
              /\ holds'[x.grants[j].auth] = holds[x.grants[j].auth]
    PROVE  ClientOK(x)'
<1>1. /\ Len(x.grants) <= MaxGrants /\ x.agent <= registrations'
    BY DEF ClientOK
<1> QED BY <1>1 DEF ClientOK

(* So does a list nothing of whose grants changes.                         *)
LEMMA ClientsFrame ==
    ASSUME NEW clients, ClientsOK(clients), registrations \in Nat, registrations' \in Nat,
           registrations <= registrations', disconnected' = disconnected,
           excused \subseteq excused', holds' = holds,
           \A a \in Auth : /\ askedBy[a] # 0 => askedBy'[a] = askedBy[a]
                           /\ verdict[a] = "allowed" => verdict'[a] = "allowed"
    PROVE  ClientsOK(clients)'
<1>1. clients \in Seq(Client)
    BY DEF ClientsOK
<1>2. Agent \subseteq Nat \ {0}
    BY GrantsAssumption DEF GrantsAssumption, Agent
<1>3. ASSUME NEW i \in DOMAIN clients
      PROVE  ClientOK(clients[i])'
  <2>1. PICK x : x = clients[i]
      OBVIOUS
  <2>2. /\ ClientOK(x) /\ x.agent \in Nat \ {0}
        /\ \A j \in DOMAIN x.grants : x.grants[j].auth \in Auth
      BY <1>1, <1>2, <2>1, ClientTypes DEF ClientsOK
  <2>3. x.agent \notin disconnected'
      BY <2>2 DEF ClientOK
  <2>4. \A j \in DOMAIN x.grants :
            /\ askedBy'[x.grants[j].auth] = askedBy[x.grants[j].auth]
            /\ verdict'[x.grants[j].auth] = "allowed"
            /\ holds'[x.grants[j].auth] = holds[x.grants[j].auth]
      BY <2>2 DEF ClientOK
  <2>5. ClientOK(x)'
      BY <2>2, <2>3, <2>4, ClientFrame
  <2> QED BY <2>1, <2>5
<1>4. TokensKept(clients)'
    BY DEF ClientsOK, TokensKept
<1> QED BY <1>3, <1>4 DEF ClientsOK

(* An authorization goes on its way: what is on the lists of it is made    *)
(* way for, and one thing of it at most put on one of them.                *)
LEMMA WaysMove ==
    ASSUME GrantsIInv,
           UNCHANGED <<stored, agentsFile, registrations, known, holds, excused, disconnected,
                       grantStops>>,
           NEW b,
           \A w \in atWork' : w.auth # b => w \in atWork,
           \A t \in pendingAuths' : t.auth # b => t \in pendingAuths,
           \A t \in codes' : t.auth # b => t \in codes,
           \A w \in atWork' : w.auth = b =>
              /\ w \in [auth: Auth, step: GrantStep] /\ askedBy'[b] # 0 /\ Ungranted(b)
              /\ verdict'[b] = IF w.step = "asked" THEN "none" ELSE "allowed"
              /\ \A x \in atWork' : x.auth = b => x = w
              /\ \A t \in pendingAuths' \cup codes' : t.auth # b,
           \A t \in pendingAuths' : t.auth = b =>
              /\ t \in Timed /\ askedBy'[b] # 0 /\ Ungranted(b) /\ verdict'[b] # "none"
              /\ \A u \in pendingAuths' : u.auth = b => u = t
              /\ \A u \in codes' : u.auth # b,
           \A t \in codes' : t.auth = b =>
              /\ t \in Timed /\ askedBy'[b] # 0 /\ Ungranted(b) /\ verdict'[b] = "allowed"
              /\ \A u \in codes' : u.auth = b => u = t,
           Cardinality(pendingAuths') <= MaxPending,
           askedBy' \in [Auth -> Agent \cup {0}],
           verdict' \in [Auth -> {"none", "waiting", "allowed", "declined", "lapsed"}],
           \A a \in Auth :
              /\ askedBy[a] # 0 => askedBy'[a] = askedBy[a]
              /\ verdict[a] = "allowed" => verdict'[a] = "allowed"
              /\ a # b => verdict'[a] = verdict[a] \/ (verdict[a] = "waiting" /\ verdict'[a] # "none")
              /\ askedBy'[a] = 0 => verdict'[a] = "none"
    PROVE  GrantsIInv'
<1>1. GrantsTypeOK /\ OneWayEach /\ WaysOK /\ registrations \in Nat
    BY GrantsAssumption DEF GrantsAssumption, GrantsIInv, GrantsTypeOK
<1>2. GrantsTypeOK'
  <2>1. atWork' \subseteq [auth: Auth, step: GrantStep]
      BY <1>1 DEF GrantsTypeOK
  <2>2. pendingAuths' \subseteq Timed /\ codes' \subseteq Timed
      BY <1>1 DEF GrantsTypeOK
  <2> QED BY <1>1, <2>1, <2>2 DEF GrantsTypeOK
<1>3. OneWayEach'
  <2>1. \A w, x \in atWork' : w.auth = x.auth => w = x
      BY <1>1 DEF OneWayEach
  <2>2. \A t, u \in pendingAuths' : t.auth = u.auth => t = u
      BY <1>1 DEF OneWayEach
  <2>3. \A t, u \in codes' : t.auth = u.auth => t = u
      BY <1>1 DEF OneWayEach
  <2>4. \A w \in atWork' : \A t \in pendingAuths' \cup codes' : w.auth # t.auth
      BY <1>1 DEF OneWayEach
  <2>5. \A t \in pendingAuths', u \in codes' : t.auth # u.auth
      BY <1>1 DEF OneWayEach
  <2> QED BY <2>1, <2>2, <2>3, <2>4, <2>5 DEF OneWayEach
<1>4. \A a : Ungranted(a) => Ungranted(a)'
    BY DEF Ungranted, NotHeld
<1>5. WaysOK'
  <2>1. ASSUME NEW w \in atWork'
        PROVE  /\ askedBy'[w.auth] # 0 /\ Ungranted(w.auth)'
               /\ verdict'[w.auth] = IF w.step = "asked" THEN "none" ELSE "allowed"
    <3>1. CASE w.auth # b
      <4>1. w.auth \in Auth
          BY <1>1, <3>1 DEF GrantsTypeOK
      <4> QED BY <1>1, <1>4, <3>1, <4>1 DEF WaysOK
    <3>2. CASE w.auth = b
        BY <1>4, <3>2
    <3> QED BY <3>1, <3>2
  <2>2. ASSUME NEW t \in pendingAuths'
        PROVE  askedBy'[t.auth] # 0 /\ Ungranted(t.auth)' /\ verdict'[t.auth] # "none"
    <3>1. CASE t.auth # b
      <4>1. t.auth \in Auth
          BY <1>1, <3>1 DEF GrantsTypeOK, Timed
      <4> QED BY <1>1, <1>4, <3>1, <4>1 DEF WaysOK
    <3>2. CASE t.auth = b
        BY <1>4, <3>2
    <3> QED BY <3>1, <3>2
  <2>3. ASSUME NEW t \in codes'
        PROVE  askedBy'[t.auth] # 0 /\ Ungranted(t.auth)' /\ verdict'[t.auth] = "allowed"
    <3>1. CASE t.auth # b
      <4>1. t.auth \in Auth
          BY <1>1, <3>1 DEF GrantsTypeOK, Timed
      <4> QED BY <1>1, <1>4, <3>1, <4>1 DEF WaysOK
    <3>2. CASE t.auth = b
        BY <1>4, <3>2
    <3> QED BY <3>1, <3>2
  <2>4. \A a \in Auth : askedBy'[a] = 0 => holds'[a] = NotHeld /\ verdict'[a] = "none"
      BY <1>1 DEF WaysOK
  <2>5. NotHeld' = NotHeld
      BY DEF NotHeld
  <2> QED BY <2>1, <2>2, <2>3, <2>4, <2>5 DEF WaysOK
<1>6. \A clients \in {stored', agentsFile'} : ClientsOK(clients)'
  <2>1. ASSUME NEW clients \in {stored, agentsFile}
        PROVE  ClientsOK(clients)'
    <3>1. ClientsOK(clients)
        BY DEF GrantsIInv
    <3> QED BY <1>1, <3>1, ClientsFrame
  <2> QED BY <2>1
<1>7. (disconnected \subseteq 1..registrations)'
    BY DEF GrantsIInv
<1> QED BY <1>2, <1>3, <1>5, <1>6, <1>7 DEF GrantsIInv

(* What waits, and what has a code, is finitely many.                      *)
LEMMA TimedIsFinite ==
    \A T \in SUBSET Timed : IsFiniteSet(T)
<1>1. IsFiniteSet(Auth)
  <2>1. 1 \in Int /\ MaxAuthorizations \in Int
      BY GrantsAssumption DEF GrantsAssumption
  <2> QED BY <2>1, FS_Interval DEF Auth
<1>2. ASSUME NEW o \in BOOLEAN
      PROVE  IsFiniteSet({t \in Timed : t.old = o})
  <2>1. PICK f : f = [a \in Auth |-> [auth |-> a, old |-> o]]
      OBVIOUS
  <2>2. \A t \in {t \in Timed : t.old = o} : t.auth \in Auth /\ f[t.auth] = t
      BY <2>1 DEF Timed
  <2>3. f \in [Auth -> {t \in Timed : t.old = o}]
      BY <2>1 DEF Timed
  <2>4. f \in Surjection(Auth, {t \in Timed : t.old = o})
      BY <2>2, <2>3 DEF Surjection
  <2> QED BY <1>1, <2>4, FS_Surjection
<1>3. PICK A : A = {t \in Timed : t.old = TRUE}
    OBVIOUS
<1>4. PICK B : B = {t \in Timed : t.old = FALSE}
    OBVIOUS
<1>5. IsFiniteSet(A) /\ IsFiniteSet(B)
    BY <1>2, <1>3, <1>4
<1>6. Timed = A \cup B
    BY <1>3, <1>4 DEF Timed
<1>7. IsFiniteSet(Timed)
    BY <1>5, <1>6, FS_Union
<1> QED BY <1>7, FS_Subset

(* The variables' types, and how many may wait.                            *)
LEMMA GrantTypes ==
    ASSUME GrantsIInv
    PROVE  /\ GrantsTypeOK /\ OneWayEach /\ WaysOK
           /\ MaxPending \in Nat \ {0} /\ Agent \subseteq Nat \ {0} /\ Auth \subseteq Nat \ {0}
           /\ registrations \in Nat
           /\ askedBy \in [Auth -> Agent \cup {0}]
           /\ verdict \in [Auth -> {"none", "waiting", "allowed", "declined", "lapsed"}]
           /\ \A w \in atWork : /\ w \in [auth: Auth, step: GrantStep]
                                /\ w.auth \in Auth /\ w.step \in GrantStep
           /\ \A t \in pendingAuths \cup codes : t \in Timed /\ t.auth \in Auth /\ t.old \in BOOLEAN
           /\ IsFiniteSet(pendingAuths) /\ Cardinality(pendingAuths) \in Nat
           /\ Cardinality(pendingAuths) <= MaxPending
           /\ \A T \in SUBSET pendingAuths : IsFiniteSet(T) /\ Cardinality(T) <= MaxPending
<1>1. GrantsTypeOK /\ OneWayEach /\ WaysOK
    BY DEF GrantsIInv
<1>2. MaxPending \in Nat \ {0} /\ Agent \subseteq Nat \ {0} /\ Auth \subseteq Nat \ {0}
    BY GrantsAssumption DEF GrantsAssumption, Agent, Auth
<1>3. registrations \in Nat
    BY <1>1, GrantsAssumption DEF GrantsAssumption, GrantsTypeOK
<1>4. IsFiniteSet(pendingAuths) /\ Cardinality(pendingAuths) \in Nat
    BY <1>1, TimedIsFinite, FS_CardinalityType DEF GrantsTypeOK
<1>5. ASSUME NEW T \in SUBSET pendingAuths
      PROVE  IsFiniteSet(T) /\ Cardinality(T) <= MaxPending
  <2>1. IsFiniteSet(T) /\ Cardinality(T) <= Cardinality(pendingAuths)
      BY <1>4, FS_Subset
  <2>2. Cardinality(T) \in Nat /\ Cardinality(pendingAuths) <= MaxPending
      BY <1>1, <2>1, FS_CardinalityType DEF GrantsTypeOK
  <2> QED BY <1>2, <1>4, <2>1, <2>2
<1>6. \A w \in atWork : /\ w \in [auth: Auth, step: GrantStep]
                        /\ w.auth \in Auth /\ w.step \in GrantStep
    BY <1>1 DEF GrantsTypeOK
<1>7. \A t \in pendingAuths \cup codes : t \in Timed /\ t.auth \in Auth /\ t.old \in BOOLEAN
    BY <1>1 DEF GrantsTypeOK, Timed
<1> QED BY <1>1, <1>2, <1>3, <1>4, <1>5, <1>6, <1>7 DEF GrantsTypeOK

(* Nothing is granted of what nobody asked for.                            *)
LEMMA NotAskedUngranted ==
    ASSUME GrantsIInv, NEW a \in Auth, askedBy[a] = 0
    PROVE  /\ Ungranted(a) /\ verdict[a] = "none"
           /\ \A w \in atWork : w.auth # a
           /\ \A t \in pendingAuths \cup codes : t.auth # a
<1>1. holds[a] = NotHeld /\ verdict[a] = "none"
    BY DEF GrantsIInv, WaysOK
<1>2. ASSUME NEW clients \in {stored, agentsFile}, NEW i \in DOMAIN clients,
             NEW j \in DOMAIN clients[i].grants
      PROVE  clients[i].grants[j].auth # a
  <2>1. ClientsOK(clients)
      BY DEF GrantsIInv
  <2>2. clients[i].agent \in Agent /\ askedBy[clients[i].grants[j].auth] = clients[i].agent
      BY <2>1, ClientTypes DEF ClientsOK, ClientOK
  <2> QED BY <2>2, GrantTypes
<1> QED BY <1>1, <1>2 DEF Ungranted, GrantsIInv, WaysOK

(* Asking.                                                                 *)
LEMMA AuthorizeKeeps ==
    ASSUME GrantsIInv, NEW agent \in Agent, Authorize(agent)
    PROVE  GrantsIInv'
<1>1. PICK a \in Auth :
          /\ askedBy[a] = 0
          /\ askedBy' = [askedBy EXCEPT ![a] = agent]
          /\ atWork' = atWork \cup {[auth |-> a, step |-> "asked"]}
    BY DEF Authorize
<1>2. UNCHANGED <<stored, agentsFile, registrations, known, pendingAuths, codes, verdict, holds,
                  excused, disconnected, grantStops>>
    BY DEF Authorize
<1>3. PICK w : w = [auth |-> a, step |-> "asked"]
    OBVIOUS
<1>4. w \in [auth: Auth, step: GrantStep] /\ w.auth = a /\ w.step = "asked"
    BY <1>3 DEF GrantStep
<1>5. /\ Ungranted(a) /\ verdict[a] = "none"
      /\ \A x \in atWork : x.auth # a
      /\ \A t \in pendingAuths \cup codes : t.auth # a
    BY <1>1, NotAskedUngranted DEF GrantsIInv, WaysOK
<1>6. /\ \A x \in atWork' : x.auth # a => x \in atWork
      /\ \A x \in atWork' : x.auth = a => x = w
    BY <1>1, <1>3, <1>4, <1>5
<1>7. /\ \A t \in pendingAuths' : t.auth # a /\ t \in pendingAuths
      /\ \A t \in codes' : t.auth # a /\ t \in codes
      /\ Cardinality(pendingAuths') <= MaxPending
    BY <1>2, <1>5, GrantTypes
<1>10. /\ askedBy' \in [Auth -> Agent \cup {0}] /\ agent # 0 /\ askedBy'[a] = agent
       /\ \A b \in Auth : b # a => askedBy'[b] = askedBy[b]
    BY <1>1, GrantTypes
<1>11. /\ verdict' \in [Auth -> {"none", "waiting", "allowed", "declined", "lapsed"}]
       /\ \A c \in Auth : verdict'[c] = verdict[c] /\ (askedBy[c] = 0 => verdict[c] = "none")
    BY <1>2, GrantTypes DEF WaysOK
<1>12. \A c \in Auth :
          /\ askedBy[c] # 0 => askedBy'[c] = askedBy[c]
          /\ verdict[c] = "allowed" => verdict'[c] = "allowed"
          /\ c # a => verdict'[c] = verdict[c] \/ (verdict[c] = "waiting" /\ verdict'[c] # "none")
          /\ askedBy'[c] = 0 => verdict'[c] = "none"
    BY <1>1, <1>10, <1>11
<1>13. \A x \in atWork' : x.auth = a =>
          /\ x \in [auth: Auth, step: GrantStep] /\ askedBy'[a] # 0 /\ Ungranted(a)
          /\ verdict'[a] = IF x.step = "asked" THEN "none" ELSE "allowed"
          /\ \A y \in atWork' : y.auth = a => y = x
          /\ \A t \in pendingAuths' \cup codes' : t.auth # a
    BY <1>4, <1>5, <1>6, <1>7, <1>10, <1>11
<1> QED BY <1>2, <1>6, <1>7, <1>10, <1>11, <1>12, <1>13, WaysMove

(* Ways may end anywhere, and what waits get its answer.                   *)
LEMMA WaysEnd ==
    ASSUME GrantsIInv,
           UNCHANGED <<stored, agentsFile, registrations, known, askedBy, holds, excused,
                       disconnected, grantStops>>,
           atWork' \subseteq atWork, pendingAuths' \subseteq pendingAuths, codes' \subseteq codes,
           verdict' \in [Auth -> {"none", "waiting", "allowed", "declined", "lapsed"}],
           \A a \in Auth :
              verdict'[a] = verdict[a] \/ (verdict[a] = "waiting" /\ verdict'[a] # "none")
    PROVE  GrantsIInv'
<1>1. PICK b : b = 0
    OBVIOUS
<1>2. b \notin Auth
    BY <1>1, GrantTypes
<1>3. /\ \A w \in atWork' : w.auth # b /\ w \in atWork
      /\ \A t \in pendingAuths' : t.auth # b /\ t \in pendingAuths
      /\ \A t \in codes' : t.auth # b /\ t \in codes
    BY <1>2, GrantTypes
<1>4. Cardinality(pendingAuths') <= MaxPending /\ askedBy' \in [Auth -> Agent \cup {0}]
    BY GrantTypes
<1>5. \A a \in Auth :
          /\ askedBy[a] # 0 => askedBy'[a] = askedBy[a]
          /\ verdict[a] = "allowed" => verdict'[a] = "allowed"
          /\ a # b => verdict'[a] = verdict[a] \/ (verdict[a] = "waiting" /\ verdict'[a] # "none")
          /\ askedBy'[a] = 0 => verdict'[a] = "none"
    BY GrantTypes DEF WaysOK
<1> QED BY <1>3, <1>4, <1>5, WaysMove

(* What lapses waited.                                                     *)
LEMMA WithdrawnTypes ==
    ASSUME GrantsIInv
    PROVE  /\ Withdrawn \in [Auth -> {"none", "waiting", "allowed", "declined", "lapsed"}]
           /\ \A a \in Auth : \/ Withdrawn[a] = verdict[a]
                              \/ verdict[a] = "waiting" /\ Withdrawn[a] = "lapsed"
BY GrantTypes DEF Withdrawn

(* An authorization joins those that wait, if there is room.               *)
LEMMA QueueKeeps ==
    ASSUME GrantsIInv, NEW a \in Auth, Queue(a)
    PROVE  GrantsIInv'
<1>1. PICK w : w = [auth |-> a, step |-> "asked"]
    OBVIOUS
<1>2. w \in atWork /\ w.auth = a /\ w.step = "asked" /\ atWork' = atWork \ {w}
    BY <1>1 DEF Queue
<1>3. PICK t : t = [auth |-> a, old |-> FALSE]
    OBVIOUS
<1>4. t \in Timed /\ t.auth = a
    BY <1>3 DEF Timed
<1>5. PICK Y : Y = Young(pendingAuths)
    OBVIOUS
<1>6. Y \subseteq pendingAuths
    BY <1>5 DEF Young
<1>7. UNCHANGED <<registrations, stored, agentsFile, known, askedBy, codes, holds, excused,
                  disconnected, grantStops>>
    BY DEF Queue
<1>8. /\ verdict[a] = "none" /\ askedBy[a] # 0 /\ Ungranted(a)
      /\ \A x \in atWork : x.auth = a => x = w
      /\ \A u \in pendingAuths \cup codes : u.auth # a
    BY <1>2, GrantTypes DEF WaysOK, OneWayEach
<1>9. CASE Cardinality(Y) >= MaxPending
  <2>1. pendingAuths' = Y \cup {} /\ verdict' = Withdrawn
      BY <1>5, <1>9 DEF Queue
  <2>2. /\ verdict' \in [Auth -> {"none", "waiting", "allowed", "declined", "lapsed"}]
        /\ \A b \in Auth :
              verdict'[b] = verdict[b] \/ (verdict[b] = "waiting" /\ verdict'[b] # "none")
      BY <2>1, WithdrawnTypes
  <2> QED BY <1>2, <1>6, <1>7, <2>1, <2>2, WaysEnd
<1>10. CASE ~(Cardinality(Y) >= MaxPending)
  <2>1. pendingAuths' = Y \cup {t} /\ verdict' = [Withdrawn EXCEPT ![a] = "waiting"]
      BY <1>3, <1>5, <1>10 DEF Queue
  <2>2. /\ verdict' \in [Auth -> {"none", "waiting", "allowed", "declined", "lapsed"}]
        /\ verdict'[a] = "waiting"
        /\ \A b \in Auth : b # a =>
              verdict'[b] = verdict[b] \/ (verdict[b] = "waiting" /\ verdict'[b] # "none")
      BY <2>1, WithdrawnTypes
  <2>3. Cardinality(pendingAuths') <= MaxPending
    <3>1. IsFiniteSet(Y) /\ Cardinality(Y) \in Nat
        BY <1>6, GrantTypes, FS_CardinalityType
    <3>2. Cardinality(Y \cup {t}) = IF t \in Y THEN Cardinality(Y) ELSE Cardinality(Y) + 1
        BY <3>1, FS_AddElement
    <3>3. IsFiniteSet(Y \cup {t}) /\ Cardinality(Y \cup {t}) \in Nat
        BY <3>1, FS_AddElement, FS_CardinalityType
    <3> QED BY <1>10, <2>1, <3>1, <3>2, <3>3, GrantTypes
  <2>4. \A x \in atWork' : x.auth # a /\ x \in atWork
      BY <1>2, <1>8
  <2>5. \A u \in codes' : u.auth # a /\ u \in codes
      BY <1>7, <1>8
  <2>6. /\ \A u \in pendingAuths' : u.auth # a => u \in pendingAuths
        /\ \A u \in pendingAuths' : u.auth = a => u = t
      BY <1>4, <1>6, <1>8, <2>1
  <2>7. \A u \in pendingAuths' : u.auth = a =>
            /\ u \in Timed /\ askedBy'[a] # 0 /\ Ungranted(a) /\ verdict'[a] # "none"
            /\ \A v \in pendingAuths' : v.auth = a => v = u
            /\ \A v \in codes' : v.auth # a
      BY <1>4, <1>7, <1>8, <2>2, <2>5, <2>6
  <2>8. /\ askedBy' \in [Auth -> Agent \cup {0}]
        /\ \A b \in Auth :
              /\ askedBy[b] # 0 => askedBy'[b] = askedBy[b]
              /\ verdict[b] = "allowed" => verdict'[b] = "allowed"
              /\ b # a => verdict'[b] = verdict[b] \/ (verdict[b] = "waiting" /\ verdict'[b] # "none")
              /\ askedBy'[b] = 0 => verdict'[b] = "none"
    <3>1. \A b \in Auth : askedBy[b] = 0 => verdict[b] = "none"
        BY GrantTypes DEF WaysOK
    <3>2. askedBy' = askedBy /\ askedBy \in [Auth -> Agent \cup {0}]
        BY <1>7, GrantTypes
    <3>3. ASSUME NEW b \in Auth
          PROVE  /\ verdict[b] = "allowed" => verdict'[b] = "allowed"
                 /\ askedBy[b] = 0 => verdict'[b] = "none"
      <4>1. CASE b = a
          BY <1>8, <4>1
      <4>2. CASE b # a
          BY <2>2, <3>1, <4>2
      <4> QED BY <4>1, <4>2
    <3> QED BY <2>2, <3>2, <3>3
  <2> QED BY <1>7, <2>2, <2>3, <2>4, <2>5, <2>6, <2>7, <2>8, WaysMove
<1> QED BY <1>9, <1>10

LEMMA AnsweredKeeps ==
    ASSUME GrantsIInv, NEW a \in Auth, NEW answer \in {"allowed", "declined", "lapsed"},
           AnswerAuth(a, answer)
    PROVE  GrantsIInv'
<1>1. /\ verdict[a] = "waiting" /\ verdict' = [verdict EXCEPT ![a] = answer]
      /\ UNCHANGED <<registrations, stored, agentsFile, known, askedBy, pendingAuths, codes, atWork,
                     holds, excused, disconnected, grantStops>>
    BY DEF AnswerAuth
<1>2. /\ verdict' \in [Auth -> {"none", "waiting", "allowed", "declined", "lapsed"}]
      /\ \A b \in Auth :
            verdict'[b] = verdict[b] \/ (verdict[b] = "waiting" /\ verdict'[b] # "none")
    BY <1>1, GrantTypes
<1> QED BY <1>1, <1>2, WaysEnd

LEMMA LapseAuthsKeeps ==
    ASSUME GrantsIInv, LapseAuths
    PROVE  GrantsIInv'
<1>1. /\ verdict' = Withdrawn /\ pendingAuths' \subseteq pendingAuths
      /\ UNCHANGED <<registrations, stored, agentsFile, known, askedBy, codes, atWork, holds,
                     excused, disconnected, grantStops>>
    BY DEF LapseAuths, Young
<1>2. /\ verdict' \in [Auth -> {"none", "waiting", "allowed", "declined", "lapsed"}]
      /\ \A b \in Auth :
            verdict'[b] = verdict[b] \/ (verdict[b] = "waiting" /\ verdict'[b] # "none")
    BY <1>1, WithdrawnTypes
<1> QED BY <1>1, <1>2, WaysEnd

LEMMA RefusedKeeps ==
    ASSUME GrantsIInv, NEW a \in Auth, GrantRefused(a)
    PROVE  GrantsIInv'
BY WaysEnd, GrantTypes DEF GrantRefused

LEMMA GrantsStay ==
    ASSUME GrantsIInv, UNCHANGED grantVars
    PROVE  GrantsIInv'
BY WaysEnd, GrantTypes DEF grantVars

(* A way goes on with its request, which holds no mutex: nothing else is   *)
(* left of it on the lists.                                                *)
LEMMA WayGoesOn ==
    ASSUME GrantsIInv, NEW a \in Auth, NEW s \in GrantStep, s # "asked", verdict[a] = "allowed",
           askedBy[a] # 0, Ungranted(a),
           UNCHANGED <<stored, agentsFile, registrations, known, askedBy, verdict, holds, excused,
                       disconnected, grantStops>>,
           \A x \in atWork : x.auth # a,
           atWork' = atWork \cup {[auth |-> a, step |-> s]},
           pendingAuths' \subseteq pendingAuths, codes' \subseteq codes,
           \A t \in pendingAuths' \cup codes' : t.auth # a
    PROVE  GrantsIInv'
<1>1. PICK w : w = [auth |-> a, step |-> s]
    OBVIOUS
<1>2. w \in [auth: Auth, step: GrantStep] /\ w.auth = a /\ w.step = s
    BY <1>1
<1>3. /\ \A x \in atWork' : x.auth # a => x \in atWork
      /\ \A x \in atWork' : x.auth = a => x = w
    BY <1>1, <1>2
<1>4. /\ \A t \in pendingAuths' : t.auth # a /\ t \in pendingAuths
      /\ \A t \in codes' : t.auth # a /\ t \in codes
      /\ Cardinality(pendingAuths') <= MaxPending
    BY GrantTypes
<1>5. \A x \in atWork' : x.auth = a =>
          /\ x \in [auth: Auth, step: GrantStep] /\ askedBy'[a] # 0 /\ Ungranted(a)
          /\ verdict'[a] = IF x.step = "asked" THEN "none" ELSE "allowed"
          /\ \A y \in atWork' : y.auth = a => y = x
          /\ \A t \in pendingAuths' \cup codes' : t.auth # a
    BY <1>2, <1>3, <1>4
<1>6. /\ askedBy' \in [Auth -> Agent \cup {0}]
      /\ verdict' \in [Auth -> {"none", "waiting", "allowed", "declined", "lapsed"}]
      /\ \A b \in Auth :
            /\ askedBy[b] # 0 => askedBy'[b] = askedBy[b]
            /\ verdict[b] = "allowed" => verdict'[b] = "allowed"
            /\ b # a => verdict'[b] = verdict[b] \/ (verdict[b] = "waiting" /\ verdict'[b] # "none")
            /\ askedBy'[b] = 0 => verdict'[b] = "none"
    BY GrantTypes DEF WaysOK
<1> QED BY <1>3, <1>4, <1>5, <1>6, WaysMove

LEMMA FollowKeeps ==
    ASSUME GrantsIInv, NEW t \in Timed, Follow(t)
    PROVE  GrantsIInv'
<1>1. /\ t \in pendingAuths /\ t.auth \in Auth /\ verdict[t.auth] # "waiting"
      /\ pendingAuths' = pendingAuths \ {t}
      /\ atWork' = IF verdict[t.auth] = "allowed"
                   THEN atWork \cup {[auth |-> t.auth, step |-> "allowed"]} ELSE atWork
      /\ UNCHANGED <<registrations, stored, agentsFile, known, askedBy, codes, verdict, holds,
                     excused, disconnected, grantStops>>
    BY DEF Follow, Timed
<1>2. /\ askedBy[t.auth] # 0 /\ Ungranted(t.auth)
      /\ \A x \in atWork : x.auth # t.auth
      /\ \A u \in pendingAuths' \cup codes' : u.auth # t.auth
    BY <1>1, GrantTypes DEF WaysOK, OneWayEach
<1>3. CASE verdict[t.auth] = "allowed"
  <2>1. "allowed" \in GrantStep /\ "allowed" # "asked"
      BY DEF GrantStep
  <2>2. PICK a \in Auth : a = t.auth
      BY <1>1
  <2>3. /\ atWork' = atWork \cup {[auth |-> a, step |-> "allowed"]}
        /\ verdict[a] = "allowed" /\ askedBy[a] # 0 /\ Ungranted(a)
        /\ \A x \in atWork : x.auth # a
        /\ \A u \in pendingAuths' \cup codes' : u.auth # a
      BY <1>1, <1>2, <1>3, <2>2
  <2> QED BY <1>1, <2>1, <2>3, WayGoesOn
<1>4. CASE verdict[t.auth] # "allowed"
    BY <1>1, <1>4, GrantTypes, WaysEnd
<1> QED BY <1>3, <1>4

LEMMA ExchangeKeeps ==
    ASSUME GrantsIInv, NEW t \in Timed, NEW valid \in BOOLEAN, Exchange(t, valid)
    PROVE  GrantsIInv'
<1>1. /\ t \in codes /\ t.auth \in Auth /\ codes' = Young(codes) \ {t}
      /\ codes' \subseteq codes \ {t}
      /\ \/ atWork' = atWork \cup {[auth |-> t.auth, step |-> "exchanged"]}
         \/ atWork' = atWork
      /\ UNCHANGED <<registrations, stored, agentsFile, known, askedBy, pendingAuths, verdict,
                     holds, excused, disconnected, grantStops>>
    BY DEF Exchange, Timed, Young
<1>2. /\ askedBy[t.auth] # 0 /\ Ungranted(t.auth) /\ verdict[t.auth] = "allowed"
      /\ \A x \in atWork : x.auth # t.auth
      /\ \A u \in pendingAuths' \cup codes' : u.auth # t.auth
    BY <1>1, GrantTypes DEF WaysOK, OneWayEach
<1>3. CASE atWork' = atWork \cup {[auth |-> t.auth, step |-> "exchanged"]}
  <2>1. "exchanged" \in GrantStep /\ "exchanged" # "asked"
      BY DEF GrantStep
  <2>2. PICK a \in Auth : a = t.auth
      BY <1>1
  <2>3. /\ atWork' = atWork \cup {[auth |-> a, step |-> "exchanged"]}
        /\ verdict[a] = "allowed" /\ askedBy[a] # 0 /\ Ungranted(a)
        /\ \A x \in atWork : x.auth # a
        /\ \A u \in pendingAuths' \cup codes' : u.auth # a
      BY <1>2, <1>3, <2>2
  <2> QED BY <1>1, <2>1, <2>3, WayGoesOn
<1>4. CASE atWork' = atWork
    BY <1>1, <1>4, GrantTypes, WaysEnd
<1> QED BY <1>1, <1>3, <1>4

(* What is asked for and what is allowed stays so while lists change.      *)
LEMMA NothingAsked ==
    ASSUME GrantsIInv, askedBy' = askedBy, verdict' = verdict
    PROVE  /\ askedBy' \in [Auth -> Agent \cup {0}]
           /\ verdict' \in [Auth -> {"none", "waiting", "allowed", "declined", "lapsed"}]
           /\ \A c \in Auth :
                 /\ askedBy[c] # 0 => askedBy'[c] = askedBy[c]
                 /\ verdict[c] = "allowed" => verdict'[c] = "allowed"
                 /\ verdict'[c] = verdict[c] \/ (verdict[c] = "waiting" /\ verdict'[c] # "none")
                 /\ askedBy'[c] = 0 => verdict'[c] = "none"
BY GrantTypes DEF WaysOK

LEMMA GiveCodeKeeps ==
    ASSUME GrantsIInv, NEW a \in Auth, GiveCode(a)
    PROVE  GrantsIInv'
<1>1. PICK w : w = [auth |-> a, step |-> "allowed"]
    OBVIOUS
<1>2. PICK t : t = [auth |-> a, old |-> FALSE]
    OBVIOUS
<1>3. w.auth = a /\ w.step = "allowed" /\ t \in Timed /\ t.auth = a
    BY <1>1, <1>2 DEF Timed
<1>4. /\ w \in atWork /\ atWork' = atWork \ {w}
      /\ codes' \subseteq codes \cup {t}
      /\ UNCHANGED <<registrations, stored, agentsFile, known, askedBy, pendingAuths, verdict,
                     holds, excused, disconnected, grantStops>>
    BY <1>1, <1>2 DEF GiveCode, Young
<1>5. /\ askedBy[a] # 0 /\ Ungranted(a) /\ verdict[a] = "allowed"
      /\ \A x \in atWork : x.auth = a => x = w
      /\ \A u \in pendingAuths \cup codes : u.auth # a
    BY <1>3, <1>4, GrantTypes DEF WaysOK, OneWayEach
<1>6. /\ \A x \in atWork' : x.auth # a /\ x \in atWork
      /\ \A u \in pendingAuths' : u.auth # a /\ u \in pendingAuths
      /\ Cardinality(pendingAuths') <= MaxPending
    BY <1>4, <1>5, GrantTypes
<1>7. /\ \A u \in codes' : u.auth # a => u \in codes
      /\ \A u \in codes' : u.auth = a => u = t
    BY <1>3, <1>4, <1>5
<1>8. \A u \in codes' : u.auth = a =>
          /\ u \in Timed /\ askedBy'[a] # 0 /\ Ungranted(a) /\ verdict'[a] = "allowed"
          /\ \A v \in codes' : v.auth = a => v = u
    BY <1>3, <1>4, <1>5, <1>7
<1> QED BY <1>4, <1>6, <1>7, <1>8, NothingAsked, WaysMove

LEMMA AgesKeeps ==
    ASSUME GrantsIInv, NEW t \in Timed, Ages(t)
    PROVE  GrantsIInv'
<1>1. PICK a \in Auth : a = t.auth
    BY DEF Timed
<1>2. PICK y : y = [t EXCEPT !.old = TRUE]
    OBVIOUS
<1>3. y \in Timed /\ y.auth = a
    BY <1>1, <1>2 DEF Timed
<1>4. UNCHANGED <<registrations, stored, agentsFile, known, askedBy, atWork, verdict, holds, excused,
                  disconnected, grantStops>>
    BY DEF Ages
<1>5. CASE t \in pendingAuths /\ codes' = codes /\ pendingAuths' = (pendingAuths \ {t}) \cup {y}
  <2>1. /\ askedBy[a] # 0 /\ Ungranted(a) /\ verdict[a] # "none"
        /\ \A x \in atWork : x.auth # a
        /\ \A u \in pendingAuths : u.auth = a => u = t
        /\ \A u \in codes : u.auth # a
      BY <1>1, <1>5, GrantTypes DEF WaysOK, OneWayEach
  <2>2. /\ \A x \in atWork' : x.auth # a /\ x \in atWork
        /\ \A u \in codes' : u.auth # a /\ u \in codes
      BY <1>4, <1>5, <2>1
  <2>3. Cardinality(pendingAuths') <= MaxPending
    <3>1. PICK rest : rest = pendingAuths \ {t}
        OBVIOUS
    <3>2. IsFiniteSet(rest) /\ Cardinality(rest) = Cardinality(pendingAuths) - 1
        BY <1>5, <3>1, GrantTypes, FS_RemoveElement
    <3>3. Cardinality(rest \cup {y}) = IF y \in rest THEN Cardinality(rest) ELSE Cardinality(rest) + 1
        BY <3>2, FS_AddElement
    <3>4. Cardinality(rest) \in Nat
        BY <3>2, FS_CardinalityType
    <3> QED BY <1>5, <3>1, <3>2, <3>3, <3>4, GrantTypes
  <2>4. /\ \A u \in pendingAuths' : u.auth # a => u \in pendingAuths
        /\ \A u \in pendingAuths' : u.auth = a => u = y
      BY <1>3, <1>5, <2>1
  <2>5. \A u \in pendingAuths' : u.auth = a =>
            /\ u \in Timed /\ askedBy'[a] # 0 /\ Ungranted(a) /\ verdict'[a] # "none"
            /\ \A v \in pendingAuths' : v.auth = a => v = u
            /\ \A v \in codes' : v.auth # a
      BY <1>3, <1>4, <2>1, <2>2, <2>4
  <2> QED BY <1>4, <2>2, <2>3, <2>4, <2>5, NothingAsked, WaysMove
<1>6. CASE t \in codes /\ pendingAuths' = pendingAuths /\ codes' = (codes \ {t}) \cup {y}
  <2>1. /\ askedBy[a] # 0 /\ Ungranted(a) /\ verdict[a] = "allowed"
        /\ \A x \in atWork : x.auth # a
        /\ \A u \in codes : u.auth = a => u = t
        /\ \A u \in pendingAuths : u.auth # a
      BY <1>1, <1>6, GrantTypes DEF WaysOK, OneWayEach
  <2>2. /\ \A x \in atWork' : x.auth # a /\ x \in atWork
        /\ \A u \in pendingAuths' : u.auth # a /\ u \in pendingAuths
        /\ Cardinality(pendingAuths') <= MaxPending
      BY <1>4, <1>6, <2>1, GrantTypes
  <2>3. /\ \A u \in codes' : u.auth # a => u \in codes
        /\ \A u \in codes' : u.auth = a => u = y
      BY <1>3, <1>6, <2>1
  <2>4. \A u \in codes' : u.auth = a =>
            /\ u \in Timed /\ askedBy'[a] # 0 /\ Ungranted(a) /\ verdict'[a] = "allowed"
            /\ \A v \in codes' : v.auth = a => v = u
      BY <1>3, <1>4, <2>1, <2>3
  <2> QED BY <1>4, <2>2, <2>3, <2>4, NothingAsked, WaysMove
<1> QED BY <1>2, <1>5, <1>6 DEF Ages
-----------------------------------------------------------------------------
(* Lists of agents.                                                        *)

(* The place of an agent in memory is its one place.                       *)
LEMMA PlaceOfAgent ==
    ASSUME NEW agent, agent \in AgentsIn(stored)
    PROVE  PlaceOf(agent) \in DOMAIN stored /\ stored[PlaceOf(agent)].agent = agent
BY DEF AgentsIn, PlaceOf

(* A list without one of its agents has the others, each once.             *)
Without(rest, clients, i) ==
    /\ rest \in Seq(Client) /\ Len(rest) = Len(clients) - 1
    /\ \A j \in DOMAIN rest : \E k \in DOMAIN clients : k # i /\ rest[j] = clients[k]
    /\ \A k \in DOMAIN clients : k # i => \E j \in DOMAIN rest : rest[j] = clients[k]
    /\ \A j, k \in DOMAIN rest : rest[j].agent = rest[k].agent => j = k

LEMMA ClientTakenOut ==
    ASSUME NEW clients, ClientsOK(clients), NEW i \in DOMAIN clients, NEW rest,
           rest = RemoveAt(clients, i)
    PROVE  Without(rest, clients, i)
<1>1. /\ clients \in Seq(Client) /\ DOMAIN clients = 1..Len(clients) /\ Len(clients) \in Nat
      /\ \A j, k \in DOMAIN clients : clients[j].agent = clients[k].agent => j = k
    BY ClientTypes DEF ClientsOK
<1>2. rest = SubSeq(clients, 1, i - 1) \o SubSeq(clients, i + 1, Len(clients))
    BY DEF RemoveAt
<1>3. PICK m \in Nat : m = Len(clients)
    BY <1>1
<1>4. i \in 1..m
    BY <1>1, <1>3
<1>5. /\ rest \in Seq(Client) /\ Len(rest) = m - 1
      /\ \A j \in 1..(m - 1) : rest[j] = IF j < i THEN clients[j] ELSE clients[j + 1]
  <2>1. \A S : \A s \in Seq(S) : \A l \in Nat : l = Len(s) => \A n \in 1..l : \A r :
            r = SubSeq(s, 1, n - 1) \o SubSeq(s, n + 1, Len(s)) =>
                /\ r \in Seq(S) /\ Len(r) = l - 1
                /\ \A j \in 1..(l - 1) : r[j] = IF j < n THEN s[j] ELSE s[j + 1]
      BY TakenOut, Zenon
  <2>2. \A l \in Nat : l = Len(clients) => \A n \in 1..l : \A r :
            r = SubSeq(clients, 1, n - 1) \o SubSeq(clients, n + 1, Len(clients)) =>
                /\ r \in Seq(Client) /\ Len(r) = l - 1
                /\ \A j \in 1..(l - 1) : r[j] = IF j < n THEN clients[j] ELSE clients[j + 1]
    <3>1. clients \in Seq(Client)
        BY <1>1
    <3> QED BY <2>1, <3>1, Zenon
  <2> QED BY <1>2, <1>3, <1>4, <2>2
<1>6. DOMAIN rest = 1..(m - 1)
    BY <1>5, LenProperties
<1>7. ASSUME NEW j \in DOMAIN rest
      PROVE  \E k \in DOMAIN clients : /\ k # i /\ rest[j] = clients[k]
                                       /\ k = IF j < i THEN j ELSE j + 1
    BY <1>1, <1>3, <1>4, <1>5, <1>6
<1>8. ASSUME NEW k \in DOMAIN clients, k # i
      PROVE  \E j \in DOMAIN rest : rest[j] = clients[k]
  <2>1. CASE k < i
    <3>1. k \in DOMAIN rest /\ rest[k] = clients[k]
        BY <1>1, <1>3, <1>4, <1>5, <1>6, <2>1
    <3> QED BY <3>1
  <2>2. CASE ~(k < i)
    <3>1. k - 1 \in DOMAIN rest /\ rest[k - 1] = clients[k]
        BY <1>1, <1>3, <1>4, <1>5, <1>6, <1>8, <2>2
    <3> QED BY <3>1
  <2> QED BY <2>1, <2>2
<1>9. ASSUME NEW j \in DOMAIN rest, NEW k \in DOMAIN rest, rest[j].agent = rest[k].agent
      PROVE  j = k
  <2>1. PICK p \in DOMAIN clients : rest[j] = clients[p] /\ p = IF j < i THEN j ELSE j + 1
      BY <1>7
  <2>2. PICK q \in DOMAIN clients : rest[k] = clients[q] /\ q = IF k < i THEN k ELSE k + 1
      BY <1>7
  <2>3. p = q
      BY <1>1, <1>9, <2>1, <2>2
  <2> QED BY <1>4, <1>6, <2>1, <2>2, <2>3
<1> QED BY <1>3, <1>5, <1>7, <1>8, <1>9 DEF Without

(* The agents in memory change, and the file with them or not at all.  At  *)
(* most one authorization, past every list, is granted by it.              *)
LEMMA ListSaved ==
    ASSUME GrantsIInv, NEW l, l = stored', ClientsOK(l)',
           agentsFile' = l \/ (agentsFile' = agentsFile /\ holds' = holds /\ disconnected' = disconnected),
           UNCHANGED <<askedBy, pendingAuths, codes, verdict, grantStops>>, atWork' \subseteq atWork,
           registrations' \in 0..MaxRegistrations, registrations <= registrations',
           known' \subseteq Agent, holds' \in [Auth -> 0..MaxTurns \cup {MaxTurns + 1}],
           excused' \subseteq Auth, excused \subseteq excused', disconnected' \subseteq 1..registrations',
           NEW b, askedBy[b] # 0 \/ b = 0,
           \A w \in atWork' : w.auth # b, \A t \in pendingAuths \cup codes : t.auth # b,
           \A a \in Auth : a # b /\ holds[a] = NotHeld => holds'[a] = NotHeld,
           \A i \in DOMAIN l : \A j \in DOMAIN l[i].grants :
              l[i].grants[j].auth = b
              \/ \E k \in DOMAIN stored : \E m \in DOMAIN stored[k].grants :
                    l[i].grants[j].auth = stored[k].grants[m].auth
    PROVE  GrantsIInv'
<1>1. /\ GrantsTypeOK /\ OneWayEach /\ WaysOK /\ registrations \in Nat /\ registrations' \in Nat
      /\ Auth \subseteq Nat \ {0} /\ disconnected' \subseteq Agent
  <2>1. registrations' \in Nat /\ MaxRegistrations \in Nat /\ registrations' <= MaxRegistrations
      BY GrantsAssumption DEF GrantsAssumption
  <2>2. 1..registrations' \subseteq Agent
      BY <2>1 DEF Agent
  <2> QED BY <2>1, <2>2, GrantTypes
<1>2. PICK f : f = agentsFile'
    OBVIOUS
<1>3. f = l \/ (f = agentsFile /\ holds' = holds /\ disconnected' = disconnected)
    BY <1>2
<1>4. ClientsOK(f)'
  <2>1. CASE f = l
      BY <2>1
  <2>2. CASE f = agentsFile /\ holds' = holds /\ disconnected' = disconnected
    <3>1. ClientsOK(f)
        BY <2>2 DEF GrantsIInv
    <3>2. \A a \in Auth : /\ askedBy[a] # 0 => askedBy'[a] = askedBy[a]
                          /\ verdict[a] = "allowed" => verdict'[a] = "allowed"
        OBVIOUS
    <3>3. disconnected' = disconnected /\ holds' = holds
        BY <2>2
    <3> QED BY <1>1, <3>1, <3>2, <3>3, ClientsFrame
  <2> QED BY <1>3, <2>1, <2>2
<1>5. \A clients \in {stored', agentsFile'} : ClientsOK(clients)'
    BY <1>2, <1>4
<1>6. \A clients \in {stored', agentsFile'} :
          /\ clients \in Seq(Client) /\ Len(clients) <= MaxClients
          /\ \A i \in DOMAIN clients : Len(clients[i].grants) <= MaxGrants
    BY <1>5 DEF ClientsOK, ClientOK
<1>7. GrantsTypeOK'
  <2>1. /\ stored' \in Seq(Client) /\ agentsFile' \in Seq(Client)
        /\ Len(stored') <= MaxClients /\ Len(agentsFile') <= MaxClients
        /\ \A i \in DOMAIN stored' : Len(stored'[i].grants) <= MaxGrants
      BY <1>6
  <2>2. /\ askedBy' \in [Auth -> Agent \cup {0}]
        /\ pendingAuths' \subseteq Timed /\ Cardinality(pendingAuths') <= MaxPending
        /\ codes' \subseteq Timed
        /\ atWork' \subseteq [auth: Auth, step: GrantStep]
        /\ verdict' \in [Auth -> {"none", "waiting", "allowed", "declined", "lapsed"}]
        /\ grantStops' \in 0..MaxGrantStops
      BY <1>1 DEF GrantsTypeOK
  <2> QED BY <1>1, <2>1, <2>2 DEF GrantsTypeOK
<1>8. ASSUME NEW a \in Auth, a # b, Ungranted(a)
      PROVE  Ungranted(a)'
  <2>1. holds'[a] = NotHeld /\ NotHeld' = NotHeld
      BY <1>8 DEF Ungranted, NotHeld
  <2>2. \A i \in DOMAIN l : \A j \in DOMAIN l[i].grants : l[i].grants[j].auth # a
      BY <1>8 DEF Ungranted
  <2>3. \A i \in DOMAIN f : \A j \in DOMAIN f[i].grants : f[i].grants[j].auth # a
      BY <1>3, <1>8, <2>2 DEF Ungranted
  <2> QED BY <1>2, <2>1, <2>2, <2>3 DEF Ungranted
<1>9. OneWayEach'
    BY <1>1 DEF OneWayEach
<1>10. WaysOK'
  <2>1. ASSUME NEW w \in atWork'
        PROVE  /\ askedBy'[w.auth] # 0 /\ Ungranted(w.auth)'
               /\ verdict'[w.auth] = IF w.step = "asked" THEN "none" ELSE "allowed"
    <3>1. /\ w.auth \in Auth /\ askedBy[w.auth] # 0 /\ Ungranted(w.auth)
          /\ verdict[w.auth] = IF w.step = "asked" THEN "none" ELSE "allowed"
        BY <1>1 DEF GrantsTypeOK, WaysOK
    <3> QED BY <1>8, <3>1
  <2>2. ASSUME NEW t \in pendingAuths'
        PROVE  askedBy'[t.auth] # 0 /\ Ungranted(t.auth)' /\ verdict'[t.auth] # "none"
    <3>1. /\ t.auth \in Auth /\ askedBy[t.auth] # 0 /\ Ungranted(t.auth) /\ verdict[t.auth] # "none"
        BY <1>1, GrantTypes DEF WaysOK
    <3> QED BY <1>8, <3>1
  <2>3. ASSUME NEW t \in codes'
        PROVE  askedBy'[t.auth] # 0 /\ Ungranted(t.auth)' /\ verdict'[t.auth] = "allowed"
    <3>1. /\ t.auth \in Auth /\ askedBy[t.auth] # 0 /\ Ungranted(t.auth)
          /\ verdict[t.auth] = "allowed"
        BY <1>1, GrantTypes DEF WaysOK
    <3> QED BY <1>8, <3>1
  <2>4. \A a \in Auth : askedBy'[a] = 0 => holds'[a] = NotHeld' /\ verdict'[a] = "none"
      BY <1>1 DEF WaysOK, NotHeld
  <2> QED BY <2>1, <2>2, <2>3, <2>4 DEF WaysOK
<1> QED BY <1>5, <1>7, <1>9, <1>10 DEF GrantsIInv

(* The agents in memory without one of them.                               *)
LEMMA StoredTakenOut ==
    ASSUME GrantsIInv
    PROVE  \A i \in DOMAIN stored : Without(RemoveAt(stored, i), stored, i)
<1>1. ClientsOK(stored)
    BY DEF GrantsIInv
<1> QED BY <1>1, ClientTakenOut, Zenon

(* What makes room has the agents that were there, but for one without     *)
(* grants at most.                                                         *)
LEMMA RoomMade ==
    ASSUME GrantsIInv, NEW i \in DOMAIN stored, stored[i].grants = <<>>,
           NEW rest, Without(rest, stored, i)
    PROVE  /\ rest \in Seq(Client) /\ Len(rest) < MaxClients
           /\ \A j \in DOMAIN rest : \E k \in DOMAIN stored : rest[j] = stored[k]
           /\ \A k \in DOMAIN stored :
                 stored[k].grants # <<>> => \E j \in DOMAIN rest : rest[j] = stored[k]
           /\ \A j, k \in DOMAIN rest : rest[j].agent = rest[k].agent => j = k
<1>1. ClientsOK(stored)
    BY DEF GrantsIInv
<1>2. /\ stored \in Seq(Client) /\ Len(stored) <= MaxClients /\ Len(stored) \in Nat
      /\ MaxClients \in Nat
    BY <1>1, ClientTypes, GrantsAssumption DEF ClientsOK, GrantsAssumption
<1> QED BY <1>2 DEF Without

LEMMA RegisterKeeps ==
    ASSUME GrantsIInv, NEW saved \in BOOLEAN, Register(saved)
    PROVE  GrantsIInv'
<1>1. PICK new : new = registrations + 1
    OBVIOUS
<1>2. PICK x : x = [agent |-> new, grants |-> <<>>]
    OBVIOUS
<1>3. PICK l : l = stored'
    OBVIOUS
<1>4. /\ new \in Agent /\ registrations' = new /\ Save(saved)
      /\ known' = IF saved THEN known \cup {new} ELSE known
      /\ UNCHANGED <<askedBy, pendingAuths, codes, atWork, verdict, holds, excused, disconnected,
                     grantStops>>
    BY <1>1 DEF Register
<1>5. PICK rest : /\ l = Append(rest, x)
                  /\ \/ rest = stored /\ Len(stored) < MaxClients
                     \/ \E i \in DOMAIN stored : rest = RemoveAt(stored, i) /\ stored[i].grants = <<>>
    BY <1>1, <1>2, <1>3 DEF Register, IdleClient
<1>6. /\ rest \in Seq(Client) /\ Len(rest) < MaxClients
      /\ \A j \in DOMAIN rest : \E k \in DOMAIN stored : rest[j] = stored[k]
      /\ \A k \in DOMAIN stored :
            stored[k].grants # <<>> => \E j \in DOMAIN rest : rest[j] = stored[k]
      /\ \A j, k \in DOMAIN rest : rest[j].agent = rest[k].agent => j = k
  <2>1. CASE rest = stored /\ Len(stored) < MaxClients
    <3>1. ClientsOK(stored)
        BY DEF GrantsIInv
    <3> QED BY <2>1, <3>1 DEF ClientsOK
  <2>2. CASE \E i \in DOMAIN stored : rest = RemoveAt(stored, i) /\ stored[i].grants = <<>>
    <3>1. PICK i \in DOMAIN stored : rest = RemoveAt(stored, i) /\ stored[i].grants = <<>>
        BY <2>2
    <3>2. Without(rest, stored, i)
        BY <3>1, StoredTakenOut
    <3> QED BY <3>1, <3>2, RoomMade
  <2> QED BY <1>5, <2>1, <2>2
<1>7. /\ registrations \in Nat /\ new \in Nat /\ new > registrations /\ MaxClients \in Nat
      /\ new \in 0..MaxRegistrations
      /\ disconnected \subseteq 1..registrations /\ new \notin disconnected
    BY <1>1, <1>4, GrantTypes, GrantsAssumption DEF GrantsAssumption, GrantsIInv, Agent
<1>8. x \in Client /\ x.agent = new /\ x.grants = <<>> /\ DOMAIN x.grants = {} /\ Len(x.grants) = 0
  <2>1. <<>> \in Seq(Grant) /\ Len(<<>>) = 0 /\ DOMAIN <<>> = {}
      BY EmptySeq
  <2>2. x \in Client
      BY <1>2, <1>4, <2>1 DEF Client
  <2>3. x.agent = new /\ x.grants = <<>>
      BY <1>2
  <2> QED BY <2>1, <2>2, <2>3
<1>9. /\ l \in Seq(Client) /\ Len(l) = Len(rest) + 1 /\ l[Len(rest) + 1] = x
      /\ DOMAIN l = 1..(Len(rest) + 1) /\ DOMAIN rest = 1..Len(rest) /\ Len(rest) \in Nat
      /\ \A i \in 1..Len(rest) : l[i] = rest[i]
    BY <1>5, <1>6, <1>8, OneMore
<1>10. \A i \in DOMAIN l : \/ i \in DOMAIN rest /\ l[i] = rest[i]
                           \/ i = Len(rest) + 1 /\ l[i] = x
    BY <1>9
<1>11. /\ ClientsOK(stored) /\ stored \in Seq(Client)
       /\ \A k \in DOMAIN stored : ClientOK(stored[k]) /\ stored[k].agent <= registrations
                                   /\ stored[k].agent \in Nat
    BY ClientTypes, GrantTypes DEF GrantsIInv, ClientsOK, ClientOK
<1>12. ASSUME NEW i \in DOMAIN l PROVE ClientOK(l[i])'
  <2>1. PICK y : y = l[i]
      OBVIOUS
  <2>2. CASE i \in DOMAIN rest /\ l[i] = rest[i]
    <3>1. ClientOK(y) /\ y.agent \in Nat /\ y.agent <= registrations
        BY <1>6, <1>11, <2>1, <2>2
    <3>2. y.agent \notin disconnected'
        BY <1>4, <3>1 DEF ClientOK
    <3>3. \A j \in DOMAIN y.grants :
              /\ askedBy'[y.grants[j].auth] = askedBy[y.grants[j].auth]
              /\ verdict'[y.grants[j].auth] = "allowed"
              /\ holds'[y.grants[j].auth] = holds[y.grants[j].auth]
        BY <1>4, <3>1 DEF ClientOK
    <3>4. registrations' \in Nat /\ registrations <= registrations'
        BY <1>4, <1>7
    <3>5. ClientOK(y)'
        BY <1>7, <3>1, <3>2, <3>3, <3>4, ClientFrame
    <3> QED BY <2>1, <3>5
  <2>3. CASE l[i] = x
    <3>1. 0 <= MaxGrants
        BY GrantsAssumption DEF GrantsAssumption
    <3>2. ClientOK(x)'
        BY <1>4, <1>7, <1>8, <3>1 DEF ClientOK
    <3> QED BY <2>3, <3>2
  <2> QED BY <1>10, <2>2, <2>3
<1>13. \A i, j \in DOMAIN l : l[i].agent = l[j].agent => i = j
  <2>1. \A i \in DOMAIN rest : rest[i].agent # new
      BY <1>6, <1>7, <1>11
  <2> QED BY <1>6, <1>8, <1>10, <2>1
<1>14. TokensKept(l)'
  <2>1. ASSUME NEW a \in Auth \ excused, holds[a] # NotHeld
        PROVE  \E i \in DOMAIN l : \E j \in DOMAIN l[i].grants :
                  l[i].grants[j] = [auth |-> a, turn |-> holds[a]]
    <3>1. PICK i \in DOMAIN stored : \E j \in DOMAIN stored[i].grants :
              stored[i].grants[j] = [auth |-> a, turn |-> holds[a]]
        BY <1>11, <2>1 DEF ClientsOK, TokensKept
    <3>2. stored[i].grants # <<>>
        BY <3>1, EmptySeq
    <3>3. PICK k \in DOMAIN rest : rest[k] = stored[i]
        BY <1>6, <3>2
    <3>4. k \in DOMAIN l /\ l[k] = stored[i]
        BY <1>9, <3>3
    <3> QED BY <3>1, <3>4
  <2> QED BY <1>4, <2>1 DEF TokensKept, NotHeld
<1>15. ClientsOK(l)'
    BY <1>6, <1>7, <1>9, <1>12, <1>13, <1>14 DEF ClientsOK
<1>16. \A i \in DOMAIN l : \A j \in DOMAIN l[i].grants :
          \E k \in DOMAIN stored : \E m \in DOMAIN stored[k].grants :
              l[i].grants[j].auth = stored[k].grants[m].auth
    BY <1>6, <1>8, <1>10
<1>17. /\ known' \subseteq Agent /\ holds' \in [Auth -> 0..MaxTurns \cup {MaxTurns + 1}]
       /\ excused' \subseteq Auth /\ disconnected' \subseteq 1..registrations'
    BY <1>4, <1>7, GrantTypes DEF GrantsTypeOK
<1>18. /\ \A w \in atWork' : w.auth # 0
       /\ \A t \in pendingAuths \cup codes : t.auth # 0
    BY <1>4, GrantTypes
<1>19. \/ agentsFile' = l
       \/ agentsFile' = agentsFile /\ holds' = holds /\ disconnected' = disconnected
    BY <1>3, <1>4 DEF Save
<1> QED BY <1>3, <1>4, <1>7, <1>15, <1>16, <1>17, <1>18, <1>19, ListSaved

LEMMA DisconnectKeeps ==
    ASSUME GrantsIInv, NEW agent \in Agent, NEW saved \in BOOLEAN, Disconnect(agent, saved)
    PROVE  GrantsIInv'
<1>1. PICK l : l = stored'
    OBVIOUS
<1>2. PICK i \in DOMAIN stored : i = PlaceOf(agent) /\ stored[i].agent = agent
    BY PlaceOfAgent DEF Disconnect
<1>3. Without(l, stored, i)
    BY <1>1, <1>2, StoredTakenOut DEF Disconnect
<1>4. /\ Save(saved) /\ excused' = excused \cup {a \in Auth : askedBy[a] = agent}
      /\ disconnected' = IF saved THEN disconnected \cup {agent} ELSE disconnected
      /\ UNCHANGED <<registrations, known, askedBy, pendingAuths, codes, atWork, verdict, holds,
                     grantStops>>
    BY DEF Disconnect
<1>5. /\ l \in Seq(Client) /\ Len(l) = Len(stored) - 1
      /\ \A j \in DOMAIN l : \E k \in DOMAIN stored : k # i /\ l[j] = stored[k]
      /\ \A k \in DOMAIN stored : k # i => \E j \in DOMAIN l : l[j] = stored[k]
      /\ \A j, k \in DOMAIN l : l[j].agent = l[k].agent => j = k
    BY <1>3 DEF Without
<1>6. /\ ClientsOK(stored) /\ stored \in Seq(Client) /\ Len(stored) \in Nat
      /\ \A k \in DOMAIN stored : ClientOK(stored[k]) /\ stored[k].agent <= registrations
                                  /\ stored[k].agent \in Nat
      /\ \A j, k \in DOMAIN stored : stored[j].agent = stored[k].agent => j = k
    BY ClientTypes, GrantTypes DEF GrantsIInv, ClientsOK, ClientOK
<1>7. registrations \in Nat /\ registrations <= registrations
    BY GrantTypes
<1>8. ASSUME NEW j \in DOMAIN l PROVE ClientOK(l[j])'
  <2>1. PICK k \in DOMAIN stored : k # i /\ l[j] = stored[k]
      BY <1>5
  <2>2. PICK y : y = stored[k]
      OBVIOUS
  <2>3. ClientOK(y) /\ y.agent \in Nat /\ y.agent # agent
      BY <1>2, <1>6, <2>1, <2>2
  <2>4. y.agent \notin disconnected'
      BY <1>4, <2>3 DEF ClientOK
  <2>5. \A n \in DOMAIN y.grants :
            /\ askedBy'[y.grants[n].auth] = askedBy[y.grants[n].auth]
            /\ verdict'[y.grants[n].auth] = "allowed"
            /\ holds'[y.grants[n].auth] = holds[y.grants[n].auth]
      BY <1>4, <2>3 DEF ClientOK
  <2>6. registrations' \in Nat /\ registrations <= registrations'
      BY <1>4, <1>7
  <2>7. ClientOK(y)'
      BY <1>7, <2>3, <2>4, <2>5, <2>6, ClientFrame
  <2> QED BY <2>1, <2>2, <2>7
<1>9. TokensKept(l)'
  <2>1. ASSUME NEW a \in Auth \ excused', holds[a] # NotHeld
        PROVE  \E j \in DOMAIN l : \E n \in DOMAIN l[j].grants :
                  l[j].grants[n] = [auth |-> a, turn |-> holds[a]]
    <3>1. a \notin excused /\ askedBy[a] # agent
        BY <1>4, <2>1
    <3>2. PICK k \in DOMAIN stored : \E n \in DOMAIN stored[k].grants :
              stored[k].grants[n] = [auth |-> a, turn |-> holds[a]]
        BY <1>6, <2>1, <3>1 DEF ClientsOK, TokensKept
    <3>3. PICK n \in DOMAIN stored[k].grants :
              stored[k].grants[n] = [auth |-> a, turn |-> holds[a]]
        BY <3>2
    <3>4. askedBy[stored[k].grants[n].auth] = stored[k].agent
        BY <1>6 DEF ClientOK
    <3>5. stored[k].agent = askedBy[a]
        BY <3>3, <3>4
    <3>6. k # i
        BY <1>2, <3>1, <3>5
    <3> QED BY <1>5, <3>3, <3>6
  <2> QED BY <1>4, <2>1 DEF TokensKept, NotHeld
<1>10. ClientsOK(l)'
  <2>1. MaxClients \in Nat /\ Len(stored) <= MaxClients
      BY <1>6, GrantsAssumption DEF GrantsAssumption, ClientsOK
  <2>2. Len(l) <= MaxClients
      BY <1>5, <1>6, <2>1
  <2> QED BY <1>5, <1>8, <1>9, <2>2 DEF ClientsOK
<1>11. \A j \in DOMAIN l : \A n \in DOMAIN l[j].grants :
          \E k \in DOMAIN stored : \E m \in DOMAIN stored[k].grants :
              l[j].grants[n].auth = stored[k].grants[m].auth
    BY <1>5
<1>12. /\ registrations' \in 0..MaxRegistrations /\ registrations <= registrations'
       /\ known' \subseteq Agent /\ holds' \in [Auth -> 0..MaxTurns \cup {MaxTurns + 1}]
       /\ excused' \subseteq Auth /\ excused \subseteq excused'
    BY <1>4, GrantTypes DEF GrantsTypeOK
<1>13. disconnected' \subseteq 1..registrations'
  <2>1. agent \in 1..registrations
      BY <1>2, <1>6, <1>7 DEF Agent
  <2> QED BY <1>4, <2>1 DEF GrantsIInv
<1>14. /\ \A w \in atWork' : w.auth # 0
       /\ \A t \in pendingAuths \cup codes : t.auth # 0
    BY <1>4, GrantTypes
<1>15. \/ agentsFile' = l
       \/ agentsFile' = agentsFile /\ holds' = holds /\ disconnected' = disconnected
    BY <1>1, <1>4 DEF Save
<1>16. /\ atWork' \subseteq atWork
       /\ UNCHANGED <<askedBy, pendingAuths, codes, verdict, grantStops>>
       /\ \A a \in Auth : a # 0 /\ holds[a] = NotHeld => holds'[a] = NotHeld
    BY <1>4
<1>17. \A j \in DOMAIN l : \A n \in DOMAIN l[j].grants :
          l[j].grants[n].auth = 0
          \/ \E k \in DOMAIN stored : \E m \in DOMAIN stored[k].grants :
                l[j].grants[n].auth = stored[k].grants[m].auth
    BY <1>11
<1> QED BY <1>1, <1>10, <1>12, <1>13, <1>14, <1>15, <1>16, <1>17, ListSaved

LEMMA RestartKeeps ==
    ASSUME GrantsIInv, RestartAgents
    PROVE  GrantsIInv'
<1>1. /\ stored' = agentsFile /\ agentsFile' = agentsFile
      /\ pendingAuths' = {} /\ codes' = {} /\ atWork' = {} /\ grantStops' \in 0..MaxGrantStops
      /\ UNCHANGED <<registrations, known, askedBy, holds, excused, disconnected>>
    BY GrantTypes, GrantsAssumption DEF GrantsAssumption, RestartAgents, GrantsTypeOK
<1>2. /\ verdict' \in [Auth -> {"none", "waiting", "allowed", "declined", "lapsed"}]
      /\ \A a \in Auth : verdict'[a] = IF verdict[a] = "waiting" THEN "lapsed" ELSE verdict[a]
    BY GrantTypes DEF RestartAgents
<1>3. Cardinality({}) = 0 /\ MaxPending \in Nat
    BY FS_EmptySet, GrantTypes
<1>4. PICK f : f = agentsFile
    OBVIOUS
<1>5. ClientsOK(f)
    BY <1>4 DEF GrantsIInv
<1>6. ClientsOK(f)'
  <2>1. /\ \A a \in Auth : /\ askedBy[a] # 0 => askedBy'[a] = askedBy[a]
                           /\ verdict[a] = "allowed" => verdict'[a] = "allowed"
        /\ disconnected' = disconnected /\ holds' = holds /\ excused \subseteq excused'
        /\ registrations \in Nat /\ registrations' \in Nat /\ registrations <= registrations'
      BY <1>1, <1>2, GrantTypes
  <2> QED BY <1>5, <2>1, ClientsFrame
<1>7. /\ f \in Seq(Client) /\ Len(f) <= MaxClients
      /\ \A i \in DOMAIN f : Len(f[i].grants) <= MaxGrants
    BY <1>5 DEF ClientsOK, ClientOK
<1>8. GrantsTypeOK'
    BY <1>1, <1>2, <1>3, <1>4, <1>7, GrantTypes DEF GrantsTypeOK
<1>9. OneWayEach' /\ WaysOK'
  <2>1. \A a \in Auth : askedBy'[a] = 0 => holds'[a] = NotHeld' /\ verdict'[a] = "none"
      BY <1>1, <1>2, GrantTypes DEF WaysOK, NotHeld
  <2> QED BY <1>1, <2>1 DEF OneWayEach, WaysOK
<1> QED BY <1>1, <1>4, <1>6, <1>8, <1>9 DEF GrantsIInv

(* One client's grants change, and what is held of one authorization of its *)
(* agent's: the rest of the list is what it was.                           *)
LEMMA ClientReplaced ==
    ASSUME GrantsIInv, NEW i \in DOMAIN stored, NEW y \in Client, y.agent = stored[i].agent,
           NEW l, l = [stored EXCEPT ![i] = y], ClientOK(y)',
           NEW a \in Auth, askedBy[a] = stored[i].agent,
           \A c \in Auth : c # a => holds'[c] = holds[c],
           excused \subseteq excused',
           registrations' = registrations, askedBy' = askedBy, verdict' = verdict,
           disconnected' = disconnected,
           \A c \in Auth \ excused' :
              holds'[c] # NotHeld
              /\ (c # a => \E n \in DOMAIN stored[i].grants :
                              stored[i].grants[n] = [auth |-> c, turn |-> holds[c]])
              => \E n \in DOMAIN y.grants : y.grants[n] = [auth |-> c, turn |-> holds'[c]]
    PROVE  ClientsOK(l)'
<1>1. /\ ClientsOK(stored) /\ stored \in Seq(Client) /\ Len(stored) \in Nat
      /\ \A k \in DOMAIN stored : ClientOK(stored[k]) /\ stored[k].agent \in Nat
                                  /\ stored[k].agent \notin disconnected
      /\ \A j, k \in DOMAIN stored : stored[j].agent = stored[k].agent => j = k
      /\ Len(stored) <= MaxClients /\ TokensKept(stored)
    BY ClientTypes, GrantTypes DEF GrantsIInv, ClientsOK, ClientOK
<1>2. /\ l \in Seq(Client) /\ DOMAIN l = DOMAIN stored /\ Len(l) = Len(stored)
      /\ l[i] = y /\ \A k \in DOMAIN stored : k # i => l[k] = stored[k]
    BY <1>1, ExceptSeq, LenProperties
<1>3. ASSUME NEW k \in DOMAIN stored PROVE ClientOK(l[k])'
  <2>1. CASE k = i
      BY <1>2, <2>1
  <2>2. CASE k # i
    <3>1. PICK z : z = stored[k]
        OBVIOUS
    <3>2. ClientOK(z) /\ z.agent \in Nat /\ z.agent \notin disconnected'
        BY <1>1, <3>1
    <3>3. z.agent # askedBy[a]
        BY <1>1, <2>2, <3>1
    <3>4. \A n \in DOMAIN z.grants : z.grants[n].auth \in Auth
        BY <1>1, <3>1, ClientTypes
    <3>5. \A n \in DOMAIN z.grants :
              /\ askedBy'[z.grants[n].auth] = askedBy[z.grants[n].auth]
              /\ verdict'[z.grants[n].auth] = "allowed"
              /\ holds'[z.grants[n].auth] = holds[z.grants[n].auth]
        BY <3>2, <3>3, <3>4 DEF ClientOK
    <3>6. registrations \in Nat /\ registrations' \in Nat /\ registrations <= registrations'
        BY GrantTypes
    <3>7. ClientOK(z)'
        BY <3>2, <3>5, <3>6, ClientFrame
    <3> QED BY <1>2, <2>2, <3>1, <3>7
  <2> QED BY <2>1, <2>2
<1>4. \A k \in DOMAIN stored : l[k].agent = stored[k].agent
    BY <1>2
<1>5. TokensKept(l)'
  <2>1. ASSUME NEW c \in Auth \ excused', holds'[c] # NotHeld
        PROVE  \E k \in DOMAIN l : \E n \in DOMAIN l[k].grants :
                  l[k].grants[n] = [auth |-> c, turn |-> holds'[c]]
    <3>1. CASE c = a
      <4>1. \E n \in DOMAIN y.grants : y.grants[n] = [auth |-> c, turn |-> holds'[c]]
          BY <2>1, <3>1
      <4> QED BY <1>2, <4>1
    <3>2. CASE c # a
      <4>1. c \in Auth \ excused /\ holds[c] # NotHeld /\ holds'[c] = holds[c]
          BY <2>1, <3>2
      <4>2. PICK k \in DOMAIN stored : \E n \in DOMAIN stored[k].grants :
                stored[k].grants[n] = [auth |-> c, turn |-> holds[c]]
          BY <1>1, <4>1 DEF TokensKept
      <4>3. CASE k = i
        <5>1. \E n \in DOMAIN y.grants : y.grants[n] = [auth |-> c, turn |-> holds'[c]]
            BY <2>1, <4>2, <4>3
        <5> QED BY <1>2, <5>1
      <4>4. CASE k # i
          BY <1>2, <4>1, <4>2, <4>4
      <4> QED BY <4>3, <4>4
    <3> QED BY <3>1, <3>2
  <2> QED BY <2>1 DEF TokensKept, NotHeld
<1> QED BY <1>1, <1>2, <1>3, <1>4, <1>5 DEF ClientsOK

(* At the limit the first of a list makes way.                             *)
AtLimit(r, all, m, d) ==
    /\ r \in Seq(Grant) /\ Len(r) <= MaxGrants /\ DOMAIN r = 1..(m + 1 - d)
    /\ \A j \in DOMAIN r : r[j] = all[j + d]
    /\ d = 1 => m >= 1 /\ Len(all) > MaxGrants /\ Head(all) = all[1]

LEMMA KeptToLimit ==
    ASSUME NEW all \in Seq(Grant), NEW m \in Nat, m <= MaxGrants, NEW r,
           Len(all) = m + 1,
           Len(all) > MaxGrants => r = Tail(all), ~(Len(all) > MaxGrants) => r = all
    PROVE  \E d \in {0, 1} : AtLimit(r, all, m, d)
<1>0. MaxGrants \in Nat \ {0}
    BY GrantsAssumption DEF GrantsAssumption
<1>1. DOMAIN all = 1..(m + 1) /\ \A j \in 1..(m + 1) : all[j] \in Grant
    BY LenProperties, ElementOfSeq
<1>2. CASE m + 1 > MaxGrants
  <2>1. m >= 1 /\ m = MaxGrants
      BY <1>0, <1>2
  <2>2. all # <<>>
      BY EmptySeq
  <2>3. PICK t : t = Tail(all)
      OBVIOUS
  <2>4. /\ Head(all) = all[1] /\ t \in Seq(Grant) /\ DOMAIN t = 1..(Len(all) - 1)
        /\ \A i \in 1..(Len(all) - 1) : t[i] = all[i + 1]
      BY <2>2, <2>3, TakenFirst
  <2>5. DOMAIN t = 1..m /\ \A i \in 1..m : t[i] = all[i + 1]
      BY <2>4
  <2>6. Len(t) = m
      BY <2>4, <2>5, LenProperties
  <2>7. r = t
      BY <1>2, <2>3
  <2>8. m + 1 - 1 = m /\ 1 \in {0, 1}
      OBVIOUS
  <2> QED BY <1>0, <1>2, <2>1, <2>4, <2>5, <2>6, <2>7, <2>8 DEF AtLimit
<1>3. CASE ~(m + 1 > MaxGrants)
  <2>1. r = all /\ Len(all) <= MaxGrants
      BY <1>0, <1>3
  <2>2. /\ DOMAIN r = 1..(m + 1 - 0)
        /\ \A j \in DOMAIN r : r[j] = all[j + 0]
      BY <1>1, <2>1
  <2>3. 0 \in {0, 1}
      OBVIOUS
  <2> QED BY <2>1, <2>2, <2>3 DEF AtLimit
<1> QED BY <1>0, <1>2, <1>3

LEMMA MakeGrantKeeps ==
    ASSUME GrantsIInv, NEW a \in Auth, NEW saved \in BOOLEAN, NEW got \in BOOLEAN,
           MakeGrant(a, saved, got)
    PROVE  GrantsIInv'
<1>1. PICK i \in DOMAIN stored : i = PlaceOf(askedBy[a]) /\ stored[i].agent = askedBy[a]
    BY PlaceOfAgent DEF MakeGrant
<1>2. PICK w : w = [auth |-> a, step |-> "exchanged"]
    OBVIOUS
<1>3. w \in atWork /\ atWork' = atWork \ {w} /\ w.auth = a /\ w.step = "exchanged"
    BY <1>2 DEF MakeGrant
<1>4. /\ askedBy[a] # 0 /\ Ungranted(a) /\ verdict[a] = "allowed"
      /\ \A v \in atWork' : v.auth # a
      /\ \A t \in pendingAuths \cup codes : t.auth # a
  <2>1. verdict[w.auth] = IF w.step = "asked" THEN "none" ELSE "allowed"
      BY <1>3, GrantTypes DEF WaysOK
  <2> QED BY <1>3, <2>1, GrantTypes DEF WaysOK, OneWayEach
<1>5. PICK x : x = stored[i]
    OBVIOUS
<1>6. /\ x \in Client /\ ClientOK(x) /\ x.agent = askedBy[a] /\ x.agent \in Nat
      /\ x.grants \in Seq(Grant)
      /\ \A n \in DOMAIN x.grants : x.grants[n].auth # a /\ x.grants[n].auth \in Auth
    BY <1>1, <1>4, <1>5, ClientTypes, GrantTypes DEF GrantsIInv, ClientsOK, Ungranted
<1>7. PICK g : g = [auth |-> a, turn |-> 0]
    OBVIOUS
<1>8. g \in Grant /\ g.auth = a /\ g.turn = 0 /\ MaxTurns \in Nat /\ MaxGrants \in Nat \ {0}
    BY <1>7, GrantsAssumption DEF GrantsAssumption, Grant
<1>9. PICK s : s = x.grants
    OBVIOUS
<1>10. PICK all : all = Append(s, g)
    OBVIOUS
<1>11. PICK m \in Nat : m = Len(s)
    BY <1>6, <1>9, LenProperties
<1>12. /\ all \in Seq(Grant) /\ Len(all) = m + 1 /\ all[m + 1] = g /\ DOMAIN s = 1..m
       /\ \A n \in 1..m : all[n] = s[n]
    BY <1>6, <1>8, <1>9, <1>10, <1>11, OneMore
<1>13. PICK r : r = IF Len(all) > MaxGrants THEN Tail(all) ELSE all
    OBVIOUS
<1>14. \E d \in {0, 1} : AtLimit(r, all, m, d)
  <2>1. m <= MaxGrants
      BY <1>6, <1>9, <1>11 DEF ClientOK
  <2>2. /\ Len(all) > MaxGrants => r = Tail(all)
        /\ ~(Len(all) > MaxGrants) => r = all
      BY <1>13
  <2>3. all \in Seq(Grant) /\ Len(all) = m + 1 /\ MaxGrants \in Nat \ {0}
      BY <1>8, <1>12
  <2> QED BY <2>1, <2>2, <2>3, KeptToLimit, Zenon
<1>15. PICK d \in {0, 1} : AtLimit(r, all, m, d)
    BY <1>14, Zenon
<1>16. /\ DOMAIN r = 1..(m + 1 - d)
       /\ \A j \in DOMAIN r : r[j] = all[j + d]
       /\ d = 1 => m >= 1 /\ Len(all) > MaxGrants /\ Head(all) = all[1]
       /\ r \in Seq(Grant) /\ Len(r) <= MaxGrants
    BY <1>15, Zenon DEF AtLimit
<1>17. \A j \in DOMAIN r : \/ j + d = m + 1 /\ r[j] = g
                           \/ j + d \in DOMAIN s /\ r[j] = s[j + d]
  <2>1. ASSUME NEW j \in 1..(m + 1 - d)
        PROVE  j + d = m + 1 \/ j + d \in 1..m
      OBVIOUS
  <2> QED BY <1>12, <1>16, <2>1
<1>18. PICK y : y = [agent |-> x.agent, grants |-> r]
    OBVIOUS
<1>19. y \in Client /\ y.agent = x.agent /\ y.grants = r
    BY <1>6, <1>18, <1>16 DEF Client
<1>20. PICK l : l = stored'
    OBVIOUS
<1>21. l = [stored EXCEPT ![i] = y]
  <2>1. stored' = [stored EXCEPT ![i].grants = IF Len(Append(stored[i].grants, [auth |-> a, turn |-> 0])) > MaxGrants
                        THEN Tail(Append(stored[i].grants, [auth |-> a, turn |-> 0]))
                        ELSE Append(stored[i].grants, [auth |-> a, turn |-> 0])]
      BY <1>1 DEF MakeGrant
  <2>2. r = IF Len(Append(stored[i].grants, [auth |-> a, turn |-> 0])) > MaxGrants
            THEN Tail(Append(stored[i].grants, [auth |-> a, turn |-> 0]))
            ELSE Append(stored[i].grants, [auth |-> a, turn |-> 0])
      BY <1>5, <1>7, <1>9, <1>10, <1>13, Zenon
  <2>3. stored' = [stored EXCEPT ![i].grants = r]
      BY <2>1, <2>2, Zenon
  <2>4. [x EXCEPT !.grants = r] = y
      BY <1>6, <1>18 DEF Client
  <2> QED BY <1>5, <1>20, <2>3, <2>4
<1>22. excused' = IF Len(all) > MaxGrants THEN excused \cup {Head(all).auth} ELSE excused
    BY <1>1, <1>5, <1>7, <1>9, <1>10, Zenon DEF MakeGrant
<1>23. /\ Save(saved) /\ (got => saved) /\ holds' = IF got THEN [holds EXCEPT ![a] = 0] ELSE holds
       /\ UNCHANGED <<registrations, known, askedBy, pendingAuths, codes, verdict, disconnected,
                      grantStops>>
    BY DEF MakeGrant
<1>24. holds' \in [Auth -> 0..MaxTurns \cup {MaxTurns + 1}]
       /\ (\A c \in Auth : c # a => holds'[c] = holds[c])
       /\ holds'[a] \in {0, NotHeld}
    BY <1>4, <1>8, <1>23, GrantTypes DEF GrantsTypeOK, Ungranted
<1>25. ClientOK(y)'
  <2>1. Len(r) <= MaxGrants /\ x.agent <= registrations /\ x.agent \notin disconnected
      BY <1>6, <1>16 DEF ClientOK
  <2>2. ASSUME NEW j \in DOMAIN r
        PROVE  /\ askedBy'[r[j].auth] = x.agent /\ verdict'[r[j].auth] = "allowed"
               /\ holds'[r[j].auth] # NotHeld => r[j].turn >= holds'[r[j].auth]
    <3>1. CASE r[j] = g
        BY <1>4, <1>6, <1>8, <1>23, <1>24, <3>1
    <3>2. CASE j + d \in DOMAIN s /\ r[j] = s[j + d]
      <4>1. PICK k \in DOMAIN x.grants : r[j] = x.grants[k]
          BY <1>9, <3>2
      <4>2. x.grants[k].auth \in Auth /\ x.grants[k].auth # a
          BY <1>6
      <4>3. /\ askedBy[x.grants[k].auth] = x.agent
            /\ verdict[x.grants[k].auth] = "allowed"
            /\ holds[x.grants[k].auth] # NotHeld => x.grants[k].turn >= holds[x.grants[k].auth]
          BY <1>6 DEF ClientOK
      <4> QED BY <1>23, <1>24, <4>1, <4>2, <4>3
    <3> QED BY <1>17, <3>1, <3>2
  <2>3. ASSUME NEW j \in DOMAIN r, NEW k \in DOMAIN r, r[j].auth = r[k].auth
        PROVE  j = k
    <3>1. /\ j + d = m + 1 \/ (j + d \in DOMAIN s /\ r[j] = s[j + d] /\ r[j].auth # a)
          /\ k + d = m + 1 \/ (k + d \in DOMAIN s /\ r[k] = s[k + d] /\ r[k].auth # a)
        BY <1>6, <1>9, <1>17
    <3>2. /\ j + d = m + 1 => r[j].auth = a
          /\ k + d = m + 1 => r[k].auth = a
        BY <1>8, <1>12, <1>16
    <3>3. j + d = k + d
      <4>1. \A n, o \in DOMAIN s : s[n].auth = s[o].auth => n = o
          BY <1>6, <1>9 DEF ClientOK
      <4> QED BY <2>3, <3>1, <3>2, <4>1
    <3>4. j \in Int /\ k \in Int /\ d \in Int
        BY <1>16
    <3>5. \A n, o, q \in Int : n + q = o + q => n = o
        OBVIOUS
    <3> QED BY <3>3, <3>4, <3>5, Zenon
  <2>4. NotHeld' = NotHeld
      BY DEF NotHeld
  <2> QED BY <1>19, <1>23, <2>1, <2>2, <2>3, <2>4 DEF ClientOK
<1>26. ASSUME NEW c \in Auth \ excused', holds'[c] # NotHeld,
              c # a => \E n \in DOMAIN stored[i].grants :
                          stored[i].grants[n] = [auth |-> c, turn |-> holds[c]]
       PROVE  \E n \in DOMAIN y.grants : y.grants[n] = [auth |-> c, turn |-> holds'[c]]
  <2>1. CASE c = a
    <3>1. m + 1 - d \in DOMAIN r /\ r[m + 1 - d] = g
        BY <1>12, <1>16
    <3>2. holds'[c] = 0
        BY <1>24, <1>26, <2>1
    <3> QED BY <1>7, <1>19, <2>1, <3>1, <3>2
  <2>2. CASE c # a
    <3>1. PICK n \in DOMAIN s : s[n] = [auth |-> c, turn |-> holds[c]]
        BY <1>5, <1>9, <1>26, <2>2
    <3>2. s[n].auth = c
        BY <3>1
    <3>3. ~(d = 1 /\ n = 1)
      <4>1. SUFFICES ASSUME d = 1, n = 1 PROVE FALSE
          OBVIOUS
      <4>2. Len(all) > MaxGrants /\ Head(all).auth = c
          BY <1>12, <1>16, <3>2, <4>1
      <4> QED BY <1>22, <1>26, <4>2
    <3>4. n - d \in DOMAIN r /\ n - d + d = n /\ n \in 1..m
        BY <1>12, <1>16, <3>3
    <3>5. r[n - d] = s[n]
        BY <1>12, <1>16, <3>4
    <3> QED BY <1>19, <1>24, <2>2, <3>1, <3>4, <3>5
  <2> QED BY <2>1, <2>2
<1>27. ClientsOK(l)'
  <2>1. excused \subseteq excused' /\ y.agent = stored[i].agent /\ askedBy[a] = stored[i].agent
      BY <1>1, <1>5, <1>19, <1>22
  <2>2. /\ registrations' = registrations /\ askedBy' = askedBy /\ verdict' = verdict
        /\ disconnected' = disconnected
      BY <1>23
  <2>3. \A c \in Auth \ excused' :
            holds'[c] # NotHeld
            /\ (c # a => \E n \in DOMAIN stored[i].grants :
                            stored[i].grants[n] = [auth |-> c, turn |-> holds[c]])
            => \E n \in DOMAIN y.grants : y.grants[n] = [auth |-> c, turn |-> holds'[c]]
      BY <1>26
  <2>4. y \in Client /\ \A c \in Auth : c # a => holds'[c] = holds[c]
      BY <1>19, <1>24
  <2> QED BY <1>21, <1>25, <2>1, <2>2, <2>3, <2>4, ClientReplaced
<1>28. \A k \in DOMAIN l : \A n \in DOMAIN l[k].grants :
          l[k].grants[n].auth = a
          \/ \E o \in DOMAIN stored : \E p \in DOMAIN stored[o].grants :
                l[k].grants[n].auth = stored[o].grants[p].auth
  <2>1. DOMAIN l = DOMAIN stored /\ l[i] = y /\ \A k \in DOMAIN stored : k # i => l[k] = stored[k]
      BY <1>21
  <2>2. \A n \in DOMAIN y.grants :
            y.grants[n].auth = a \/ \E p \in DOMAIN stored[i].grants :
                                        y.grants[n].auth = stored[i].grants[p].auth
      BY <1>5, <1>8, <1>9, <1>17, <1>19
  <2> QED BY <2>1, <2>2
<1>29. /\ excused' \subseteq Auth /\ excused \subseteq excused'
  <2>1. Len(all) > MaxGrants => Head(all).auth \in Auth
    <3>1. all[1] \in Grant
        BY <1>12, ElementOfSeq
    <3>2. Len(all) > MaxGrants => Head(all) = all[1]
        BY <1>12, <1>8, HeadTailProperties, EmptySeq
    <3> QED BY <3>1, <3>2 DEF Grant
  <2> QED BY <1>22, <2>1, GrantTypes DEF GrantsTypeOK
<1>30. \/ agentsFile' = l
       \/ agentsFile' = agentsFile /\ holds' = holds /\ disconnected' = disconnected
    BY <1>20, <1>23 DEF Save
<1>31. /\ registrations' \in 0..MaxRegistrations /\ registrations <= registrations'
       /\ known' \subseteq Agent /\ disconnected' \subseteq 1..registrations'
    BY <1>23, GrantTypes DEF GrantsTypeOK, GrantsIInv
<1>32. /\ atWork' \subseteq atWork
       /\ UNCHANGED <<askedBy, pendingAuths, codes, verdict, grantStops>>
       /\ \A c \in Auth : c # a /\ holds[c] = NotHeld => holds'[c] = NotHeld
    BY <1>3, <1>23, <1>24
<1> QED BY <1>4, <1>20, <1>24, <1>27, <1>28, <1>29, <1>30, <1>31, <1>32, ListSaved

LEMMA TurnOverKeeps ==
    ASSUME GrantsIInv, NEW a \in Auth, NEW saved \in BOOLEAN, NEW got \in BOOLEAN,
           TurnOver(a, saved, got)
    PROVE  GrantsIInv'
<1>1. PICK i \in DOMAIN stored : \E j \in DOMAIN stored[i].grants :
          /\ stored[i].agent = askedBy[a]
          /\ stored[i].grants[j] = [auth |-> a, turn |-> holds[a]]
          /\ stored' = [stored EXCEPT ![i].grants[j].turn = @ + 1]
    BY DEF TurnOver
<1>2. PICK j \in DOMAIN stored[i].grants :
          /\ stored[i].agent = askedBy[a]
          /\ stored[i].grants[j] = [auth |-> a, turn |-> holds[a]]
          /\ stored' = [stored EXCEPT ![i].grants[j].turn = @ + 1]
    BY <1>1
<1>3. PICK x : x = stored[i]
    OBVIOUS
<1>4. /\ x \in Client /\ ClientOK(x) /\ x.agent = askedBy[a] /\ x.agent \in Nat
      /\ x.grants \in Seq(Grant) /\ j \in DOMAIN x.grants
      /\ x.grants[j] = [auth |-> a, turn |-> holds[a]]
      /\ \A n \in DOMAIN x.grants : x.grants[n].auth \in Auth
    BY <1>2, <1>3, ClientTypes, GrantTypes DEF GrantsIInv, ClientsOK
<1>5. holds[a] \in 0..MaxTurns /\ holds[a] < MaxTurns /\ MaxTurns \in Nat /\ holds[a] # NotHeld
    BY GrantTypes, GrantsAssumption DEF GrantsAssumption, GrantsTypeOK, TurnOver, NotHeld
<1>6. PICK t \in 0..MaxTurns : t = holds[a] + 1
    BY <1>5
<1>7. PICK g : g = [auth |-> a, turn |-> t]
    OBVIOUS
<1>8. g \in Grant /\ g.auth = a /\ g.turn = t
    BY <1>7 DEF Grant
<1>9. PICK s : s = x.grants
    OBVIOUS
<1>10. PICK r : r = [s EXCEPT ![j] = g]
    OBVIOUS
<1>11. /\ r \in Seq(Grant) /\ DOMAIN r = DOMAIN s /\ Len(r) = Len(s) /\ r[j] = g
       /\ \A n \in DOMAIN s : n # j => r[n] = s[n]
  <2>1. s \in Seq(Grant) /\ j \in DOMAIN s
      BY <1>4, <1>9
  <2> QED BY <1>8, <1>10, <2>1, ExceptSeq, LenProperties
<1>12. PICK y : y = [agent |-> x.agent, grants |-> r]
    OBVIOUS
<1>13. y \in Client /\ y.agent = x.agent /\ y.grants = r
    BY <1>4, <1>11, <1>12 DEF Client
<1>14. PICK l : l = stored'
    OBVIOUS
<1>15. l = [stored EXCEPT ![i] = y]
  <2>1. [x.grants[j] EXCEPT !.turn = @ + 1] = g
      BY <1>4, <1>6, <1>7
  <2>2. stored' = [stored EXCEPT ![i].grants[j] = g]
      BY <1>2, <1>3, <2>1
  <2>3. stored' = [stored EXCEPT ![i].grants = r]
      BY <1>3, <1>9, <1>10, <2>2
  <2>4. [x EXCEPT !.grants = r] = y
      BY <1>4, <1>12 DEF Client
  <2> QED BY <1>3, <1>14, <2>3, <2>4
<1>16. /\ Save(saved) /\ (got => saved)
       /\ holds' = IF got THEN [holds EXCEPT ![a] = @ + 1] ELSE holds
       /\ excused' = IF got THEN excused ELSE excused \cup {a}
       /\ UNCHANGED <<registrations, known, askedBy, pendingAuths, codes, atWork, verdict,
                      disconnected, grantStops>>
    BY DEF TurnOver
<1>17. /\ holds' \in [Auth -> 0..MaxTurns \cup {MaxTurns + 1}]
       /\ \A c \in Auth : c # a => holds'[c] = holds[c]
       /\ holds'[a] = IF got THEN t ELSE holds[a]
    BY <1>5, <1>6, <1>16, GrantTypes DEF GrantsTypeOK
<1>18. ClientOK(y)'
  <2>1. Len(r) <= MaxGrants /\ x.agent <= registrations /\ x.agent \notin disconnected
      BY <1>4, <1>9, <1>11 DEF ClientOK
  <2>2. ASSUME NEW n \in DOMAIN r
        PROVE  /\ r[n].auth = s[n].auth
               /\ askedBy'[r[n].auth] = x.agent /\ verdict'[r[n].auth] = "allowed"
               /\ holds'[r[n].auth] # NotHeld => r[n].turn >= holds'[r[n].auth]
    <3>1. s[j].auth = a
        BY <1>4, <1>9
    <3>2. /\ askedBy[s[n].auth] = x.agent /\ verdict[s[n].auth] = "allowed"
          /\ holds[s[n].auth] # NotHeld => s[n].turn >= holds[s[n].auth]
          /\ \A o \in DOMAIN s : s[n].auth = s[o].auth => n = o
          /\ s[n].auth \in Auth
        BY <1>4, <1>9, <1>11 DEF ClientOK
    <3>3. CASE n = j
      <4>1. r[n].auth = a /\ r[n].turn = t
          BY <1>8, <1>11, <3>3
      <4>2. t >= holds'[a]
          BY <1>5, <1>6, <1>17
      <4> QED BY <1>16, <3>1, <3>2, <3>3, <4>1, <4>2
    <3>4. CASE n # j
      <4>1. r[n] = s[n] /\ s[n].auth # a
          BY <1>4, <1>9, <1>11, <3>1, <3>2, <3>4
      <4> QED BY <1>16, <1>17, <3>2, <4>1
    <3> QED BY <3>3, <3>4
  <2>3. \A n, o \in DOMAIN r : r[n].auth = r[o].auth => n = o
      BY <1>4, <1>9, <1>11, <2>2 DEF ClientOK
  <2>4. NotHeld' = NotHeld
      BY DEF NotHeld
  <2> QED BY <1>13, <1>16, <2>1, <2>2, <2>3, <2>4 DEF ClientOK
<1>19. ASSUME NEW c \in Auth \ excused', holds'[c] # NotHeld,
              c # a => \E n \in DOMAIN stored[i].grants :
                          stored[i].grants[n] = [auth |-> c, turn |-> holds[c]]
       PROVE  \E n \in DOMAIN y.grants : y.grants[n] = [auth |-> c, turn |-> holds'[c]]
  <2>1. CASE c = a
    <3>1. got = TRUE
        BY <1>16, <1>19, <2>1
    <3>2. holds'[c] = t /\ j \in DOMAIN r /\ r[j] = [auth |-> c, turn |-> t]
        BY <1>4, <1>7, <1>9, <1>11, <1>17, <2>1, <3>1
    <3> QED BY <1>13, <3>2
  <2>2. CASE c # a
    <3>1. PICK n \in DOMAIN s : s[n] = [auth |-> c, turn |-> holds[c]]
        BY <1>3, <1>9, <1>19, <2>2
    <3>2. s[n].auth = c /\ s[j].auth = a
        BY <1>4, <1>9, <3>1
    <3>3. n # j
        BY <2>2, <3>2
    <3> QED BY <1>11, <1>13, <1>17, <2>2, <3>1, <3>3
  <2> QED BY <2>1, <2>2
<1>20. ClientsOK(l)'
  <2>1. /\ excused \subseteq excused' /\ y.agent = stored[i].agent
        /\ askedBy[a] = stored[i].agent
      BY <1>3, <1>4, <1>13, <1>16
  <2>2. /\ registrations' = registrations /\ askedBy' = askedBy /\ verdict' = verdict
        /\ disconnected' = disconnected
      BY <1>16
  <2>3. \A c \in Auth \ excused' :
            holds'[c] # NotHeld
            /\ (c # a => \E n \in DOMAIN stored[i].grants :
                            stored[i].grants[n] = [auth |-> c, turn |-> holds[c]])
            => \E n \in DOMAIN y.grants : y.grants[n] = [auth |-> c, turn |-> holds'[c]]
      BY <1>19
  <2>4. y \in Client /\ \A c \in Auth : c # a => holds'[c] = holds[c]
      BY <1>13, <1>17
  <2> QED BY <1>15, <1>18, <2>1, <2>2, <2>3, <2>4, ClientReplaced
<1>21. \A k \in DOMAIN l : \A n \in DOMAIN l[k].grants :
          l[k].grants[n].auth = 0
          \/ \E o \in DOMAIN stored : \E p \in DOMAIN stored[o].grants :
                l[k].grants[n].auth = stored[o].grants[p].auth
  <2>1. DOMAIN l = DOMAIN stored /\ l[i] = y /\ \A k \in DOMAIN stored : k # i => l[k] = stored[k]
      BY <1>15
  <2>2. \A n \in DOMAIN y.grants : \E p \in DOMAIN stored[i].grants :
            y.grants[n].auth = stored[i].grants[p].auth
      BY <1>3, <1>4, <1>8, <1>9, <1>11, <1>13
  <2> QED BY <2>1, <2>2
<1>22. \/ agentsFile' = l
       \/ agentsFile' = agentsFile /\ holds' = holds /\ disconnected' = disconnected
    BY <1>14, <1>16 DEF Save
<1>23. /\ registrations' \in 0..MaxRegistrations /\ registrations <= registrations'
       /\ known' \subseteq Agent /\ disconnected' \subseteq 1..registrations'
       /\ excused' \subseteq Auth /\ excused \subseteq excused'
    BY <1>16, GrantTypes DEF GrantsTypeOK, GrantsIInv
<1>24. /\ atWork' \subseteq atWork
       /\ UNCHANGED <<askedBy, pendingAuths, codes, verdict, grantStops>>
       /\ \A c \in Auth : c # 0 /\ holds[c] = NotHeld => holds'[c] = NotHeld
    BY <1>5, <1>16, <1>17
<1>25. /\ \A w \in atWork' : w.auth # 0
       /\ \A u \in pendingAuths \cup codes : u.auth # 0
    BY <1>16, GrantTypes
<1> QED BY <1>14, <1>17, <1>20, <1>21, <1>22, <1>23, <1>24, <1>25, ListSaved
-----------------------------------------------------------------------------
LEMMA GrantsStart ==
    ASSUME GrantsInit
    PROVE  GrantsIInv
<1>1. /\ MaxClients \in Nat \ {0} /\ MaxPending \in Nat \ {0} /\ MaxRegistrations \in Nat
      /\ MaxTurns \in Nat /\ MaxGrantStops \in Nat
    BY GrantsAssumption DEF GrantsAssumption
<1>2. PICK e : e = <<>>
    OBVIOUS
<1>3. e \in Seq(Client) /\ Len(e) = 0 /\ DOMAIN e = {}
    BY <1>2, EmptySeq
<1>4. Cardinality({}) = 0
    BY FS_EmptySet
<1>5. /\ stored = e /\ agentsFile = e /\ registrations = 0 /\ known = {}
      /\ askedBy = [a \in Auth |-> 0] /\ verdict = [a \in Auth |-> "none"]
      /\ holds = [a \in Auth |-> NotHeld]
      /\ pendingAuths = {} /\ codes = {} /\ atWork = {}
      /\ excused = {} /\ disconnected = {} /\ grantStops = 0
    BY <1>2 DEF GrantsInit
<1>6. GrantsTypeOK
  <2>1. holds \in [Auth -> 0..MaxTurns \cup {MaxTurns + 1}]
      BY <1>5 DEF NotHeld
  <2>2. /\ askedBy \in [Auth -> Agent \cup {0}]
        /\ verdict \in [Auth -> {"none", "waiting", "allowed", "declined", "lapsed"}]
      BY <1>5
  <2> QED BY <1>1, <1>3, <1>4, <1>5, <2>1, <2>2 DEF GrantsTypeOK
<1>7. OneWayEach /\ WaysOK
    BY <1>5 DEF OneWayEach, WaysOK
<1>8. ClientsOK(e)
  <2>1. TokensKept(e)
      BY <1>5 DEF TokensKept
  <2> QED BY <1>1, <1>3, <2>1 DEF ClientsOK
<1> QED BY <1>5, <1>6, <1>7, <1>8 DEF GrantsIInv

(* Whatever a request, the director, the clock or a stop does next, the    *)
(* lists stay as they must be.                                             *)
LEMMA GrantsStep ==
    ASSUME GrantsIInv, [GrantsNext]_grantVars
    PROVE  GrantsIInv'
<1>1. ASSUME NEW agent \in Agent, Authorize(agent) PROVE GrantsIInv'
    BY <1>1, AuthorizeKeeps
<1>2. ASSUME NEW saved \in BOOLEAN, Register(saved) PROVE GrantsIInv'
    BY <1>2, RegisterKeeps
<1>3. ASSUME NEW saved \in BOOLEAN, NEW agent \in Agent, Disconnect(agent, saved)
      PROVE  GrantsIInv'
    BY <1>3, DisconnectKeeps
<1>4. ASSUME NEW a \in Auth, Queue(a) PROVE GrantsIInv'
    BY <1>4, QueueKeeps
<1>5. ASSUME NEW a \in Auth, GiveCode(a) PROVE GrantsIInv'
    BY <1>5, GiveCodeKeeps
<1>6. ASSUME NEW a \in Auth, GrantRefused(a) PROVE GrantsIInv'
    BY <1>6, RefusedKeeps
<1>7. ASSUME NEW a \in Auth, NEW answer \in {"allowed", "declined", "lapsed"},
             AnswerAuth(a, answer)
      PROVE  GrantsIInv'
    BY <1>7, AnsweredKeeps
<1>8. CASE LapseAuths
    BY <1>8, LapseAuthsKeeps
<1>9. ASSUME NEW t \in Timed, Follow(t) PROVE GrantsIInv'
    BY <1>9, FollowKeeps
<1>10. ASSUME NEW t \in Timed, Ages(t) PROVE GrantsIInv'
    BY <1>10, AgesKeeps
<1>11. ASSUME NEW t \in Timed, NEW valid \in BOOLEAN, Exchange(t, valid) PROVE GrantsIInv'
    BY <1>11, ExchangeKeeps
<1>12. ASSUME NEW a \in Auth, NEW saved \in BOOLEAN, NEW got \in BOOLEAN,
              MakeGrant(a, saved, got)
       PROVE  GrantsIInv'
    BY <1>12, MakeGrantKeeps
<1>13. ASSUME NEW a \in Auth, NEW saved \in BOOLEAN, NEW got \in BOOLEAN,
              TurnOver(a, saved, got)
       PROVE  GrantsIInv'
    BY <1>13, TurnOverKeeps
<1>14. CASE RestartAgents
    BY <1>14, RestartKeeps
<1>15. CASE UNCHANGED grantVars
    BY <1>15, GrantsStay
<1> QED BY <1>1, <1>2, <1>3, <1>4, <1>5, <1>6, <1>7, <1>8, <1>9, <1>10, <1>11, <1>12, <1>13,
           <1>14, <1>15 DEF GrantsNext

(* In memory and in the file, the agents' lists and what is on its way to  *)
(* a grant are as they must be (oauth.rs).                                 *)
THEOREM GrantsInvariance == GrantsSpec => []GrantsIInv
<1>1. GrantsInit => GrantsIInv
    BY GrantsStart
<1>2. GrantsIInv /\ [GrantsNext]_grantVars => GrantsIInv'
    BY GrantsStep
<1> QED BY <1>1, <1>2, PTL DEF GrantsSpec

(* What the invariant says of a list's grants, one by one.                 *)
LEMMA GrantsOfDirectors ==
    ASSUME NEW clients, ClientsOK(clients)
    PROVE  /\ \A g \in GrantsOf(clients) :
                 /\ askedBy[g.of.auth] = g.agent /\ verdict[g.of.auth] = "allowed"
                 /\ holds[g.of.auth] # NotHeld => g.of.turn >= holds[g.of.auth]
                 /\ \A h \in GrantsOf(clients) : h.of.auth = g.of.auth => h = g
           /\ AgentsIn(clients) \cap disconnected = {}
           /\ \A a \in Auth \ excused : holds[a] # NotHeld =>
                 \E g \in GrantsOf(clients) : g.of = [auth |-> a, turn |-> holds[a]]
<1>1. /\ \A i \in DOMAIN clients : ClientOK(clients[i])
      /\ \A i, j \in DOMAIN clients : clients[i].agent = clients[j].agent => i = j
      /\ TokensKept(clients)
    BY DEF ClientsOK
<1>2. \A g : g \in GrantsOf(clients) <=>
          \E i \in DOMAIN clients : \E j \in DOMAIN clients[i].grants :
              g = [agent |-> clients[i].agent, place |-> j, of |-> clients[i].grants[j]]
    BY DEF GrantsOf
<1>3. ASSUME NEW g \in GrantsOf(clients)
      PROVE  \E i \in DOMAIN clients : \E j \in DOMAIN clients[i].grants :
                /\ g = [agent |-> clients[i].agent, place |-> j, of |-> clients[i].grants[j]]
                /\ g.agent = clients[i].agent /\ g.of = clients[i].grants[j]
                /\ askedBy[g.of.auth] = g.agent /\ verdict[g.of.auth] = "allowed"
                /\ holds[g.of.auth] # NotHeld => g.of.turn >= holds[g.of.auth]
  <2>1. PICK i \in DOMAIN clients : \E j \in DOMAIN clients[i].grants :
              g = [agent |-> clients[i].agent, place |-> j, of |-> clients[i].grants[j]]
      BY <1>2
  <2>2. PICK j \in DOMAIN clients[i].grants :
              g = [agent |-> clients[i].agent, place |-> j, of |-> clients[i].grants[j]]
      BY <2>1
  <2>3. g.agent = clients[i].agent /\ g.of = clients[i].grants[j]
      BY <2>2
  <2>4. ClientOK(clients[i])
      BY <1>1
  <2> QED BY <2>2, <2>3, <2>4 DEF ClientOK
<1>4. ASSUME NEW g \in GrantsOf(clients), NEW h \in GrantsOf(clients), h.of.auth = g.of.auth
      PROVE  h = g
  <2>1. PICK i \in DOMAIN clients : \E j \in DOMAIN clients[i].grants :
              /\ g = [agent |-> clients[i].agent, place |-> j, of |-> clients[i].grants[j]]
              /\ g.agent = clients[i].agent /\ g.of = clients[i].grants[j]
      BY <1>3
  <2>2. PICK k \in DOMAIN clients : \E j \in DOMAIN clients[k].grants :
              /\ h = [agent |-> clients[k].agent, place |-> j, of |-> clients[k].grants[j]]
              /\ h.agent = clients[k].agent /\ h.of = clients[k].grants[j]
      BY <1>3
  <2>3. i = k
    <3>1. g.agent = h.agent
        BY <1>3, <1>4
    <3> QED BY <1>1, <2>1, <2>2, <3>1
  <2>4. PICK m \in DOMAIN clients[i].grants :
              /\ g = [agent |-> clients[i].agent, place |-> m, of |-> clients[i].grants[m]]
              /\ g.of = clients[i].grants[m]
      BY <2>1
  <2>5. PICK n \in DOMAIN clients[i].grants :
              /\ h = [agent |-> clients[i].agent, place |-> n, of |-> clients[i].grants[n]]
              /\ h.of = clients[i].grants[n]
      BY <2>2, <2>3
  <2>6. m = n
    <3>1. ClientOK(clients[i])
        BY <1>1
    <3> QED BY <1>4, <2>4, <2>5, <3>1 DEF ClientOK
  <2> QED BY <2>4, <2>5, <2>6
<1>5. AgentsIn(clients) \cap disconnected = {}
    BY <1>1 DEF AgentsIn, ClientOK
<1>6. ASSUME NEW a \in Auth \ excused, holds[a] # NotHeld
      PROVE  \E g \in GrantsOf(clients) : g.of = [auth |-> a, turn |-> holds[a]]
  <2>1. PICK i \in DOMAIN clients : \E j \in DOMAIN clients[i].grants :
              clients[i].grants[j] = [auth |-> a, turn |-> holds[a]]
      BY <1>1, <1>6 DEF TokensKept
  <2>2. PICK j \in DOMAIN clients[i].grants :
              clients[i].grants[j] = [auth |-> a, turn |-> holds[a]]
      BY <2>1
  <2>3. PICK g : g = [agent |-> clients[i].agent, place |-> j, of |-> clients[i].grants[j]]
      OBVIOUS
  <2>4. g \in GrantsOf(clients) /\ g.of = clients[i].grants[j]
      BY <1>2, <2>3
  <2> QED BY <2>2, <2>4
<1> QED BY <1>3, <1>4, <1>5, <1>6

(* In memory and in the file, every grant is the director's: it comes from *)
(* one authorization allowed, is not older than what the agent holds, and  *)
(* stays until it is taken back, displaced or turned over unheard; whoever *)
(* was disconnected is gone (oauth.rs).                                    *)
THEOREM GrantsTheDirectors == GrantsSpec => []GrantsAreTheDirectors
<1>1. ASSUME GrantsIInv PROVE GrantsAreTheDirectors
  <2>1. \A clients \in {stored, agentsFile} : ClientsOK(clients)
      BY <1>1 DEF GrantsIInv
  <2> QED BY <2>1, GrantsOfDirectors, Zenon DEF GrantsAreTheDirectors
<1> QED BY <1>1, GrantsInvariance, PTL

(* A call to a process.                                                    *)

(* The steps of a call that is not a conversation.                         *)
CallStepsOK ==
    /\ asking.kind = "command" => asking.step \in {"start", "watch", "drain", "over"}
    /\ asking.kind = "plugin" => asking.step \in {"start", "send", "watch", "join", "over"}
    /\ asking.kind \notin Talks /\ asking.step # "over" => asking.result = "none"

(* The process starts once, and once it was seen to have ended it has.     *)
ChildOK ==
    /\ asking.step = "start" => child = "none"
    /\ asking.step \in {"join", "drain"} => child = "exited"
    /\ asking.step = "over" /\ asking.result # "fault" => child # "runs"

(* The reader of a plugin's answer or a command's output stops when there  *)
(* will be no more of it, or no more is read.                              *)
ReaderOK ==
    asking.kind \notin Talks /\ asking.step \in {"watch", "join", "drain"} /\ ~reader.on =>
       \/ outPipe = 0 /\ ~Holders
       \/ asking.kind = "plugin" /\ reader.read > MaxAnswer

(* Every piece that was written is in the pipe or was read.                *)
PiecesOK ==
    /\ said = reader.read + outPipe /\ heard <= reader.read
    /\ asking.kind \notin Talks /\ asking.result = "answered" =>
          asking.step = "over" /\ heard = said

ProcessIInv == ProcessTypeOK /\ CallStepsOK /\ ChildOK /\ ReaderOK /\ PiecesOK

(* Where a call goes is one of its steps, and it stays the same call.      *)
LEMMA GoesOnIs ==
    ASSUME ProcessTypeOK, NEW step \in CallSteps, GoesOn(step)
    PROVE  /\ asking' \in Asking /\ asking'.kind = asking.kind /\ asking'.step = step
           /\ asking'.result = asking.result
BY DEF ProcessTypeOK, Asking, GoesOn

LEMMA EndsIs ==
    ASSUME ProcessTypeOK, NEW result \in CallResults, Ends(result)
    PROVE  /\ asking' \in Asking /\ asking'.kind = asking.kind /\ asking'.step = "over"
           /\ asking'.result = result
BY DEF ProcessTypeOK, Asking, Ends, CallSteps

(* An exchange leaves a conversation where it sends, or closes.            *)
LEMMA ExchangedIs ==
    ASSUME ProcessTypeOK, NEW result \in CallResults, Exchanged(result)
    PROVE  /\ asking' \in Asking /\ asking'.kind = asking.kind
           /\ asking'.step \in {"send", "close"}
           /\ unsent' \in 0..MaxRequest /\ late' \in BOOLEAN /\ cancel' \in BOOLEAN
<1>1. asking \in Asking /\ late \in BOOLEAN /\ cancel \in BOOLEAN /\ MaxRequest \in Nat
    BY ProcessAssumption DEF ProcessTypeOK
<1>2. PICK outcome : outcome = IF asking.stage = "forget" THEN asking.result ELSE result
    OBVIOUS
<1>3. outcome \in CallResults
    BY <1>1, <1>2 DEF Asking
<1>4. PICK stage : stage = NextStage(result)
    OBVIOUS
<1>5. stage \in Stages \cup {"none"}
    BY <1>4 DEF NextStage, Stages
<1>6. late' \in BOOLEAN /\ cancel' \in BOOLEAN
    BY <1>1 DEF Exchanged
<1>7. CASE stage = "none"
  <2>1. asking' = [asking EXCEPT !.step = "close", !.result = outcome] /\ unsent' = 0
      BY <1>2, <1>4, <1>7 DEF Exchanged
  <2>2. "close" \in CallSteps
      BY DEF CallSteps
  <2>3. asking' \in Asking /\ asking'.kind = asking.kind /\ asking'.step = "close"
      BY <1>1, <1>3, <2>1, <2>2 DEF Asking
  <2> QED BY <1>1, <1>6, <2>1, <2>3
<1>8. CASE stage # "none"
  <2>1. /\ asking' = [asking EXCEPT !.step = "send", !.result = outcome, !.stage = stage]
        /\ unsent' \in 1..MaxRequest
      BY <1>2, <1>4, <1>8 DEF Exchanged
  <2>2. stage \in Stages /\ "send" \in CallSteps
      BY <1>5, <1>8 DEF CallSteps
  <2>3. asking' \in Asking /\ asking'.kind = asking.kind /\ asking'.step = "send"
      BY <1>1, <1>3, <2>1, <2>2 DEF Asking
  <2>4. unsent' \in 0..MaxRequest
      BY <1>1, <2>1
  <2> QED BY <1>6, <2>3, <2>4
<1> QED BY <1>7, <1>8

(* What an exchange of a conversation leaves is what a call knows.         *)
LEMMA TalkKeeps ==
    ASSUME ProcessIInv, asking.kind \in Talks, UNCHANGED child, PipesKeep,
           asking' \in Asking, asking'.kind = asking.kind,
           asking'.step \in {"send", "close"},
           unsent' \in 0..MaxRequest, late' \in BOOLEAN, cancel' \in BOOLEAN,
           heard' \in 0..reader.read
    PROVE  ProcessIInv'
<1>1. /\ ProcessTypeOK /\ PiecesOK /\ reader.read \in 0..MaxSaid
      /\ asking.kind \notin {"command", "plugin"}
    BY DEF ProcessIInv, ProcessTypeOK, Talks
<1>2. ProcessTypeOK'
    BY <1>1, ProcessAssumption DEF ProcessTypeOK, PipesKeep
<1>3. CallStepsOK' /\ ChildOK' /\ ReaderOK'
    BY <1>1 DEF CallStepsOK, ChildOK, ReaderOK, Talks
<1>4. PiecesOK'
    BY <1>1, ProcessAssumption DEF PiecesOK, PipesKeep, Talks
<1> QED BY <1>2, <1>3, <1>4 DEF ProcessIInv

LEMMA StartProcessKeeps ==
    ASSUME ProcessIInv, StartProcess
    PROVE  ProcessIInv'
<1>0. /\ asking.step = "start" /\ child = "none"
      /\ UNCHANGED <<heir, inPipe, outPipe, said, heard, late, cancel>>
    BY DEF ProcessIInv, ChildOK, StartProcess, ClockKeeps
<1>1. asking \in Asking /\ reader \in [on: BOOLEAN, read: 0..MaxSaid]
    BY DEF ProcessIInv, ProcessTypeOK
<1>2. CASE /\ child' = "runs"
           /\ reader' = [reader EXCEPT !.on = asking.kind # "plugin"]
           /\ unsent' \in (IF WritesItself THEN 1 ELSE 0)..MaxRequest
           /\ GoesOn(IF WritesItself THEN "send" ELSE "watch")
  <2>1. PICK step \in {"send", "watch"} :
           step = IF WritesItself THEN "send" ELSE "watch"
      BY DEF WritesItself
  <2>2. /\ asking' \in Asking /\ asking'.kind = asking.kind /\ asking'.step = step
        /\ asking'.result = asking.result
      BY <1>2, <2>1, GoesOnIs DEF ProcessIInv, CallSteps
  <2>3. PICK on \in BOOLEAN : on = (asking.kind # "plugin")
      OBVIOUS
  <2>4. /\ reader' \in [on: BOOLEAN, read: 0..MaxSaid] /\ reader'.read = reader.read
        /\ reader'.on = on
      BY <1>1, <1>2, <2>3
  <2>5. unsent' \in 0..MaxRequest
      BY <1>2, ProcessAssumption DEF WritesItself
  <2>6. ProcessTypeOK'
      BY <1>0, <1>2, <2>2, <2>4, <2>5 DEF ProcessIInv, ProcessTypeOK
  <2>7. CallStepsOK' /\ ChildOK' /\ ReaderOK'
      BY <1>0, <1>2, <2>1, <2>2, <2>3, <2>4
         DEF ProcessIInv, CallStepsOK, ChildOK, ReaderOK, WritesItself, Talks
  <2>8. PiecesOK'
      BY <1>0, <2>2, <2>4 DEF ProcessIInv, PiecesOK
  <2> QED BY <2>6, <2>7, <2>8 DEF ProcessIInv
<1>3. CASE /\ Ends("cancelled") \/ Ends("notSent")
           /\ UNCHANGED <<child, reader, unsent>>
  <2>1. /\ asking' \in Asking /\ asking'.kind = asking.kind /\ asking'.step = "over"
        /\ asking'.result \in {"cancelled", "notSent"}
      BY <1>3, EndsIs DEF ProcessIInv, CallResults
  <2>2. ProcessTypeOK'
      BY <1>0, <1>3, <2>1 DEF ProcessIInv, ProcessTypeOK
  <2>3. CallStepsOK' /\ ChildOK' /\ ReaderOK' /\ PiecesOK'
      BY <1>0, <1>3, <2>1 DEF ProcessIInv, CallStepsOK, ChildOK, ReaderOK, PiecesOK
  <2> QED BY <2>2, <2>3 DEF ProcessIInv
<1> QED BY <1>2, <1>3 DEF StartProcess

(* A piece of the request is written, or read by the process.              *)
LEMMA InputKeeps ==
    ASSUME ProcessIInv, SendPiece \/ WriterPiece \/ WriterEnds \/ ChildReads
    PROVE  ProcessIInv'
<1>1. /\ unsent' \in 0..MaxRequest /\ inPipe' \in 0..PipeRoom
      /\ UNCHANGED <<asking, child, heir, outPipe, said, reader, heard, late, cancel>>
    BY ProcessAssumption DEF ProcessIInv, ProcessTypeOK, SendPiece, WriterPiece, WritePiece,
       WriterEnds, ChildReads, ChildKeeps, PipesKeep, ClockKeeps
<1>2. ProcessTypeOK'
    BY <1>1 DEF ProcessIInv, ProcessTypeOK
<1>3. CallStepsOK' /\ ChildOK' /\ ReaderOK' /\ PiecesOK'
    BY <1>1 DEF ProcessIInv, CallStepsOK, ChildOK, ReaderOK, PiecesOK, Holders
<1> QED BY <1>2, <1>3 DEF ProcessIInv

LEMMA SentKeeps ==
    ASSUME ProcessIInv, Sent
    PROVE  ProcessIInv'
<1>0. /\ asking.step = "send" /\ unsent' = 0
      /\ GoesOn(IF asking.kind = "plugin" THEN "watch" ELSE "await")
      /\ reader' = [reader EXCEPT !.on = @ \/ asking.kind = "plugin"]
      /\ UNCHANGED <<child, heir, inPipe, outPipe, said, heard, late, cancel>>
    BY DEF Sent, ClockKeeps
<1>1. /\ reader \in [on: BOOLEAN, read: 0..MaxSaid] /\ asking.kind # "command"
    BY <1>0 DEF ProcessIInv, ProcessTypeOK, CallStepsOK
<1>2. PICK step \in {"await", "watch"} : step = IF asking.kind = "plugin" THEN "watch" ELSE "await"
    OBVIOUS
<1>3. /\ asking' \in Asking /\ asking'.kind = asking.kind /\ asking'.step = step
      /\ asking'.result = asking.result
    BY <1>0, <1>2, GoesOnIs DEF ProcessIInv, CallSteps
<1>4. PICK on \in BOOLEAN : on = (reader.on \/ asking.kind = "plugin")
    OBVIOUS
<1>5. /\ reader' \in [on: BOOLEAN, read: 0..MaxSaid] /\ reader'.read = reader.read
      /\ reader'.on = on
    BY <1>0, <1>1, <1>4
<1>6. ProcessTypeOK'
    BY <1>0, <1>3, <1>5, ProcessAssumption DEF ProcessIInv, ProcessTypeOK
<1>7. CallStepsOK' /\ ChildOK' /\ ReaderOK'
    BY <1>0, <1>1, <1>2, <1>3, <1>4, <1>5
       DEF ProcessIInv, CallStepsOK, ChildOK, ReaderOK, Talks
<1>8. PiecesOK'
    BY <1>0, <1>3, <1>5 DEF ProcessIInv, PiecesOK
<1> QED BY <1>6, <1>7, <1>8 DEF ProcessIInv

LEMMA SendFailsKeeps ==
    ASSUME ProcessIInv, SendFails
    PROVE  ProcessIInv'
<1>0. /\ asking.kind \in Talks /\ Exchanged("exited")
      /\ UNCHANGED <<child, heard>> /\ PipesKeep
    BY DEF SendFails, Calls
<1>1. heard' \in 0..reader.read
    BY <1>0 DEF ProcessIInv, ProcessTypeOK, PiecesOK
<1> QED BY <1>0, <1>1, ExchangedIs, TalkKeeps DEF ProcessIInv, CallResults

LEMMA StopWaitingKeeps ==
    ASSUME ProcessIInv, StopWaiting
    PROVE  ProcessIInv'
<1>0. /\ asking.kind \in Talks /\ UNCHANGED <<child, heard>> /\ PipesKeep
    BY DEF StopWaiting, Calls
<1>1. PICK result \in CallResults : Exchanged(result)
    BY DEF StopWaiting, CallResults
<1>2. heard' \in 0..reader.read
    BY <1>0 DEF ProcessIInv, ProcessTypeOK, PiecesOK
<1> QED BY <1>0, <1>1, <1>2, ExchangedIs, TalkKeeps DEF ProcessIInv

LEMMA TakeMessageKeeps ==
    ASSUME ProcessIInv, TakeMessage
    PROVE  ProcessIInv'
<1>0. /\ asking.kind \in Talks /\ asking.step = "await" /\ heard < reader.read
      /\ heard' = heard + 1 /\ UNCHANGED child /\ PipesKeep
    BY DEF TakeMessage, Calls
<1>1. heard' \in 0..reader.read
    BY <1>0 DEF ProcessIInv, ProcessTypeOK, PiecesOK
<1>2. CASE \E result \in {"answered", "unreadable"} : Exchanged(result)
    BY <1>0, <1>1, <1>2, ExchangedIs, TalkKeeps DEF ProcessIInv, CallResults
<1>3. CASE GoesOn("send") /\ unsent' = 1 /\ ClockKeeps
  <2>1. /\ asking' \in Asking /\ asking'.kind = asking.kind /\ asking'.step = "send"
      BY <1>3, GoesOnIs DEF ProcessIInv, CallSteps
  <2>2. unsent' \in 0..MaxRequest /\ late' \in BOOLEAN /\ cancel' \in BOOLEAN
      BY <1>3, ProcessAssumption DEF ProcessIInv, ProcessTypeOK, ClockKeeps
  <2> QED BY <1>0, <1>1, <2>1, <2>2, TalkKeeps
<1>4. CASE UNCHANGED <<asking, unsent>> /\ ClockKeeps
  <2>1. ProcessTypeOK'
    <3>1. heard' \in 0..MaxSaid
        BY <1>0, <1>1, ProcessAssumption DEF ProcessIInv, ProcessTypeOK
    <3> QED BY <1>0, <1>4, <3>1 DEF ProcessIInv, ProcessTypeOK, ClockKeeps, PipesKeep
  <2>2. CallStepsOK' /\ ChildOK' /\ ReaderOK'
      BY <1>0, <1>4 DEF ProcessIInv, CallStepsOK, ChildOK, ReaderOK, PipesKeep, Talks
  <2>3. PiecesOK'
      BY <1>0, <1>1, <1>4 DEF ProcessIInv, PiecesOK, PipesKeep, ProcessTypeOK
  <2> QED BY <2>1, <2>2, <2>3 DEF ProcessIInv
<1> QED BY <1>2, <1>3, <1>4 DEF TakeMessage

(* A call that ends leaves the process stopped, or has lost it, and has    *)
(* not answered unless all that was written was heard.                     *)
LEMMA CallOverKeeps ==
    ASSUME ProcessIInv, NEW result \in CallResults,
           asking' \in Asking, asking'.kind = asking.kind, asking'.step = "over",
           asking'.result = result,
           child' \in {"none", "runs", "exited"}, child' # "runs" \/ result = "fault",
           UNCHANGED unsent, PipesKeep, ClockKeeps,
           heard' \in 0..reader.read,
           asking.kind \notin Talks /\ result = "answered" => heard' = said
    PROVE  ProcessIInv'
<1>1. ProcessTypeOK /\ PiecesOK /\ reader.read \in 0..MaxSaid
    BY DEF ProcessIInv, ProcessTypeOK
<1>2. ProcessTypeOK'
    BY <1>1, ProcessAssumption DEF ProcessTypeOK, PipesKeep, ClockKeeps
<1>3. CallStepsOK' /\ ChildOK' /\ ReaderOK'
    BY DEF CallStepsOK, ChildOK, ReaderOK
<1>4. PiecesOK'
    BY <1>1, ProcessAssumption DEF PiecesOK, PipesKeep
<1> QED BY <1>2, <1>3, <1>4 DEF ProcessIInv

LEMMA HeardIs ==
    ASSUME ProcessIInv
    PROVE  /\ heard \in 0..reader.read /\ reader.read \in 0..MaxSaid /\ outPipe \in 0..PipeRoom
           /\ said = reader.read + outPipe /\ child \in {"none", "runs", "exited"}
BY DEF ProcessIInv, ProcessTypeOK, PiecesOK

(* Close, StopLate, StopCancelled and WaitFails.                           *)
LEMMA StoppedKeeps ==
    ASSUME ProcessIInv, Close \/ StopLate \/ StopCancelled \/ WaitFails
    PROVE  ProcessIInv'
<1>1. CASE Close
  <2>1. /\ asking' \in Asking /\ asking'.kind = asking.kind /\ asking'.step = "over"
        /\ asking'.result = asking.result
      BY <1>1, GoesOnIs DEF Close, ProcessIInv, CallSteps
  <2>2. /\ child' = "exited" /\ UNCHANGED <<unsent, heard>> /\ PipesKeep /\ ClockKeeps
        /\ asking.step = "close"
      BY <1>1 DEF Close
  <2>3. asking.result \in CallResults /\ asking.kind \in Talks
      BY <2>2, ProcessAssumption DEF ProcessIInv, ProcessTypeOK, Asking, CallStepsOK, Talks
  <2> QED BY <2>1, <2>2, <2>3, HeardIs, CallOverKeeps
<1>2. CASE StopLate \/ StopCancelled \/ WaitFails
  <2>1. PICK result \in {"late", "cancelled", "fault"} :
           /\ Ends(result) /\ UNCHANGED <<unsent, heard>> /\ PipesKeep /\ ClockKeeps
           /\ child' = "exited" \/ (result = "fault" /\ child' = child)
      BY <1>2 DEF StopLate, StopCancelled, WaitFails
  <2>2. /\ asking' \in Asking /\ asking'.kind = asking.kind /\ asking'.step = "over"
        /\ asking'.result = result
      BY <2>1, EndsIs DEF ProcessIInv, CallResults
  <2> QED BY <2>1, <2>2, HeardIs, CallOverKeeps DEF CallResults
<1> QED BY <1>1, <1>2

LEMMA TakeLineKeeps ==
    ASSUME ProcessIInv, TakeLine
    PROVE  ProcessIInv'
<1>0. /\ asking.kind = "command" /\ asking.step \in {"watch", "drain"}
      /\ heard < reader.read /\ heard' = heard + 1
      /\ UNCHANGED <<asking, unsent, child>> /\ PipesKeep /\ ClockKeeps
    BY DEF TakeLine
<1>1. heard' \in 0..MaxSaid /\ heard' <= reader.read
    BY <1>0, HeardIs, ProcessAssumption
<1>2. ProcessTypeOK'
    BY <1>0, <1>1 DEF ProcessIInv, ProcessTypeOK, PipesKeep, ClockKeeps
<1>3. CallStepsOK' /\ ChildOK' /\ ReaderOK'
    BY <1>0 DEF ProcessIInv, CallStepsOK, ChildOK, ReaderOK, PipesKeep, Holders
<1>4. PiecesOK'
    BY <1>0, <1>1 DEF ProcessIInv, PiecesOK, PipesKeep
<1> QED BY <1>2, <1>3, <1>4 DEF ProcessIInv

LEMMA SeeExitKeeps ==
    ASSUME ProcessIInv, SeeExit
    PROVE  ProcessIInv'
<1>0. /\ asking.step = "watch" /\ child = "exited"
      /\ GoesOn(IF asking.kind = "plugin" THEN "join" ELSE "drain")
      /\ UNCHANGED <<unsent, child, heard>> /\ PipesKeep /\ ClockKeeps
    BY DEF SeeExit, WatchesIt
<1>1. PICK step \in {"join", "drain"} : step = IF asking.kind = "plugin" THEN "join" ELSE "drain"
    OBVIOUS
<1>2. /\ asking' \in Asking /\ asking'.kind = asking.kind /\ asking'.step = step
      /\ asking'.result = asking.result
    BY <1>0, <1>1, GoesOnIs DEF ProcessIInv, CallSteps
<1>3. ProcessTypeOK'
    BY <1>0, <1>2 DEF ProcessIInv, ProcessTypeOK, PipesKeep, ClockKeeps
<1>4. CallStepsOK' /\ ChildOK' /\ ReaderOK'
    BY <1>0, <1>1, <1>2
       DEF ProcessIInv, CallStepsOK, ChildOK, ReaderOK, PipesKeep, Holders
<1>5. PiecesOK'
    BY <1>0, <1>2 DEF ProcessIInv, PiecesOK, PipesKeep
<1> QED BY <1>3, <1>4, <1>5 DEF ProcessIInv

LEMMA JoinReaderKeeps ==
    ASSUME ProcessIInv, JoinReader
    PROVE  ProcessIInv'
<1>0. /\ asking.step = "join" /\ ~reader.on /\ heard' = reader.read
      /\ Ends(IF reader.read > MaxAnswer THEN "unreadable" ELSE "answered")
      /\ UNCHANGED <<unsent, child>> /\ PipesKeep /\ ClockKeeps
    BY DEF JoinReader
<1>1. PICK result \in {"unreadable", "answered"} :
         result = IF reader.read > MaxAnswer THEN "unreadable" ELSE "answered"
    OBVIOUS
<1>2. /\ asking' \in Asking /\ asking'.kind = asking.kind /\ asking'.step = "over"
      /\ asking'.result = result
    BY <1>0, <1>1, EndsIs DEF ProcessIInv, CallResults
<1>3. child = "exited"
    BY <1>0 DEF ProcessIInv, ChildOK
<1>4. asking.kind \notin Talks /\ result = "answered" => outPipe = 0
    BY <1>0, <1>1 DEF ProcessIInv, ReaderOK
<1>5. heard' \in 0..reader.read /\ reader.read \in Nat
    BY <1>0, HeardIs, ProcessAssumption
<1> QED BY <1>0, <1>2, <1>3, <1>4, <1>5, HeardIs, CallOverKeeps DEF CallResults

LEMMA DrainOutputKeeps ==
    ASSUME ProcessIInv, DrainOutput
    PROVE  ProcessIInv'
<1>0. /\ asking.step = "drain" /\ heard = reader.read
      /\ ~reader.on \/ outPipe = 0
      /\ Ends("answered")
      /\ UNCHANGED <<unsent, child, heard>> /\ PipesKeep /\ ClockKeeps
    BY DEF DrainOutput, DrainDone
<1>1. /\ asking' \in Asking /\ asking'.kind = asking.kind /\ asking'.step = "over"
      /\ asking'.result = "answered"
    BY <1>0, EndsIs DEF ProcessIInv, CallResults
<1>2. child = "exited" /\ asking.kind # "plugin"
    BY <1>0 DEF ProcessIInv, ChildOK, CallStepsOK
<1>3. asking.kind \notin Talks => outPipe = 0
    BY <1>0, <1>2 DEF ProcessIInv, ReaderOK
<1> QED BY <1>0, <1>1, <1>2, <1>3, HeardIs, CallOverKeeps DEF CallResults

LEMMA ReadPieceKeeps ==
    ASSUME ProcessIInv, ReadPiece
    PROVE  ProcessIInv'
<1>0. /\ reader.on /\ outPipe > 0
      /\ outPipe' = outPipe - 1 /\ reader' = [reader EXCEPT !.read = @ + 1]
      /\ UNCHANGED <<asking, unsent, child, heir, inPipe, said, heard, late, cancel>>
    BY DEF ReadPiece, ClockKeeps
<1>1. reader \in [on: BOOLEAN, read: 0..MaxSaid] /\ said \in 0..MaxSaid
    BY DEF ProcessIInv, ProcessTypeOK
<1>2. PICK read : read = reader.read + 1
    OBVIOUS
<1>3. read \in 0..MaxSaid
    BY <1>0, <1>1, <1>2, HeardIs, ProcessAssumption
<1>4. /\ reader' \in [on: BOOLEAN, read: 0..MaxSaid] /\ reader'.read = read
      /\ reader'.on = reader.on
    BY <1>0, <1>1, <1>2, <1>3
<1>5. outPipe' \in 0..PipeRoom
    BY <1>0, HeardIs, ProcessAssumption
<1>6. ProcessTypeOK'
    BY <1>0, <1>4, <1>5 DEF ProcessIInv, ProcessTypeOK
<1>7. CallStepsOK' /\ ChildOK' /\ ReaderOK'
    BY <1>0, <1>4 DEF ProcessIInv, CallStepsOK, ChildOK, ReaderOK
<1>8. PiecesOK'
    BY <1>0, <1>2, <1>4, HeardIs, ProcessAssumption DEF ProcessIInv, PiecesOK
<1> QED BY <1>6, <1>7, <1>8 DEF ProcessIInv

LEMMA ReaderEndsKeeps ==
    ASSUME ProcessIInv, ReaderEnds
    PROVE  ProcessIInv'
<1>0. /\ \/ outPipe = 0 /\ ~Holders
         \/ ~ReadsOn
         \/ asking.step = "over"
      /\ reader' = [reader EXCEPT !.on = FALSE]
      /\ UNCHANGED <<asking, unsent, child, heir, inPipe, outPipe, said, heard, late, cancel>>
    BY DEF ReaderEnds, ClockKeeps
<1>1. /\ reader' \in [on: BOOLEAN, read: 0..MaxSaid] /\ reader'.read = reader.read
    BY <1>0 DEF ProcessIInv, ProcessTypeOK
<1>2. ProcessTypeOK'
    BY <1>0, <1>1 DEF ProcessIInv, ProcessTypeOK
<1>3. CallStepsOK' /\ ChildOK' /\ PiecesOK'
    BY <1>0, <1>1 DEF ProcessIInv, CallStepsOK, ChildOK, PiecesOK
<1>4. ReaderOK'
  <2>1. ~ReadsOn => asking.kind = "plugin" /\ reader.read > MaxAnswer
      BY HeardIs, ProcessAssumption DEF ReadsOn
  <2> QED BY <1>0, <1>1, <2>1 DEF ReaderOK, Holders
<1> QED BY <1>2, <1>3, <1>4 DEF ProcessIInv

LEMMA ChildWritesKeeps ==
    ASSUME ProcessIInv, ChildWrites
    PROVE  ProcessIInv'
<1>0. /\ child = "runs" /\ outPipe < PipeRoom /\ said < MaxSaid
      /\ reader.on \/ Calls({"plugin"}, "send")
      /\ outPipe' = outPipe + 1 /\ said' = said + 1
      /\ UNCHANGED <<asking, unsent, child, heir, inPipe, reader, heard, late, cancel>>
    BY DEF ChildWrites, ChildKeeps, ClockKeeps
<1>1. outPipe' \in 0..PipeRoom /\ said' \in 0..MaxSaid
  <2>1. outPipe \in 0..PipeRoom /\ said \in 0..MaxSaid
      BY DEF ProcessIInv, ProcessTypeOK
  <2> QED BY <1>0, <2>1, ProcessAssumption
<1>2. ProcessTypeOK'
    BY <1>0, <1>1 DEF ProcessIInv, ProcessTypeOK
<1>3. CallStepsOK' /\ ChildOK' /\ ReaderOK'
    BY <1>0 DEF ProcessIInv, CallStepsOK, ChildOK, ReaderOK, Calls
<1>4. ~(asking.kind \notin Talks /\ asking.result = "answered")
    BY <1>0 DEF ProcessIInv, PiecesOK, ChildOK
<1>5. PiecesOK'
    BY <1>0, <1>4, HeardIs, ProcessAssumption DEF ProcessIInv, PiecesOK
<1> QED BY <1>2, <1>3, <1>5 DEF ProcessIInv

(* What becomes of the process, its heir, the clock and the word to stop.  *)
LEMMA AroundKeeps ==
    ASSUME ProcessIInv,
           ChildLeavesHeir \/ ChildExits \/ HeirLetsGo \/ PassDeadline \/ CancelCall
    PROVE  ProcessIInv'
<1>1. /\ UNCHANGED <<asking, unsent, inPipe, outPipe, said, reader, heard>>
      /\ late' \in BOOLEAN /\ cancel' \in BOOLEAN /\ heir' \in BOOLEAN
      /\ child' = child \/ (child = "runs" /\ child' = "exited")
      /\ heir' => heir \/ child = "runs"
  <2>1. late \in BOOLEAN /\ cancel \in BOOLEAN /\ heir \in BOOLEAN
      BY DEF ProcessIInv, ProcessTypeOK
  <2>2. CASE ChildLeavesHeir
      BY <2>1, <2>2 DEF ChildLeavesHeir, ChildKeeps, ClockKeeps
  <2>3. CASE ChildExits
      BY <2>1, <2>3 DEF ChildExits, ChildKeeps, PipesKeep, ClockKeeps
  <2>4. CASE HeirLetsGo
      BY <2>1, <2>4 DEF HeirLetsGo, ChildKeeps, ClockKeeps
  <2>5. CASE PassDeadline \/ CancelCall
    <3>1. /\ UNCHANGED <<asking, unsent, inPipe, outPipe, said, reader, heard, child, heir>>
          /\ late' \in {late, TRUE} /\ cancel' \in {cancel, TRUE}
        BY <2>5 DEF PassDeadline, CancelCall, PipesKeep
    <3> QED BY <2>1, <3>1
  <2> QED BY <2>2, <2>3, <2>4, <2>5
<1>2. ProcessTypeOK'
    BY <1>1 DEF ProcessIInv, ProcessTypeOK
<1>3. CallStepsOK' /\ ChildOK' /\ ReaderOK' /\ PiecesOK'
    BY <1>1 DEF ProcessIInv, CallStepsOK, ChildOK, ReaderOK, PiecesOK, Holders
<1> QED BY <1>2, <1>3 DEF ProcessIInv

(* What a call to a process keeps true at every step: see ProcessIInv.     *)
THEOREM ProcessInvariance == ProcessSpec => []ProcessIInv
<1>1. ProcessInit => ProcessIInv
  <2> SUFFICES ASSUME ProcessInit PROVE ProcessIInv
      OBVIOUS
  <2>1. ProcessTypeOK
    <3>1. reader \in [on: BOOLEAN, read: 0..MaxSaid]
        BY ProcessAssumption DEF ProcessInit
    <3>2. asking \in Asking /\ late \in BOOLEAN /\ cancel \in BOOLEAN /\ heir \in BOOLEAN
        BY DEF ProcessInit
    <3>3. /\ unsent \in 0..MaxRequest /\ child \in {"none", "runs", "exited"}
          /\ inPipe \in 0..PipeRoom /\ outPipe \in 0..PipeRoom
          /\ said \in 0..MaxSaid /\ heard \in 0..MaxSaid
        BY ProcessAssumption DEF ProcessInit
    <3> QED BY <3>1, <3>2, <3>3 DEF ProcessTypeOK
  <2>2. CallStepsOK /\ ChildOK /\ ReaderOK /\ PiecesOK
      BY DEF ProcessInit, CallStepsOK, ChildOK, ReaderOK, PiecesOK
  <2> QED BY <2>1, <2>2 DEF ProcessIInv
<1>2. ProcessIInv /\ [ProcessNext]_processVars => ProcessIInv'
  <2> SUFFICES ASSUME ProcessIInv, [ProcessNext]_processVars
               PROVE  ProcessIInv'
      OBVIOUS
  <2>1. CASE CallerStep
      BY <2>1, StartProcessKeeps, InputKeeps, SentKeeps, SendFailsKeeps, TakeMessageKeeps,
         StopWaitingKeeps, StoppedKeeps, TakeLineKeeps, SeeExitKeeps, JoinReaderKeeps,
         DrainOutputKeeps DEF CallerStep
  <2>2. CASE ThreadStep
      BY <2>2, ReadPieceKeeps, ReaderEndsKeeps, InputKeeps DEF ThreadStep
  <2>3. CASE PassDeadline \/ CancelCall
      BY <2>3, AroundKeeps
  <2>4. CASE ProcessStep
      BY <2>4, InputKeeps, ChildWritesKeeps, AroundKeeps DEF ProcessStep
  <2>5. CASE UNCHANGED processVars
      BY <2>5 DEF processVars, ProcessIInv, ProcessTypeOK, CallStepsOK, ChildOK, ReaderOK,
         PiecesOK, Holders
  <2> QED BY <2>1, <2>2, <2>3, <2>4, <2>5 DEF ProcessNext
<1> QED BY <1>1, <1>2, PTL DEF ProcessSpec

(* A command's output is read to its end or to where what the process left *)
(* behind holds it open, and either is seen.                               *)
LEMMA NoOutputIsWaitedFor ==
    ASSUME ProcessIInv
    PROVE  /\ asking.step = "drain" => DrainDone \/ heard < reader.read \/ OutputComes
           /\ asking.step = "join" => ~reader.on \/ OutputComes \/ AtItsMercy
<1>1. /\ heard <= reader.read /\ heard \in Nat /\ reader.read \in Nat
      /\ outPipe \in Nat /\ reader.on \in BOOLEAN /\ heir \in BOOLEAN
    BY ProcessAssumption DEF ProcessIInv, PiecesOK, ProcessTypeOK
<1>2. CASE asking.step = "drain"
    BY <1>1, <1>2 DEF ProcessIInv, ChildOK, Holders, DrainDone, OutputComes
<1>3. CASE asking.step = "join"
    BY <1>1, <1>3 DEF ProcessIInv, ChildOK, Holders, OutputComes, AtItsMercy
<1> QED BY <1>2, <1>3

(* An answer of a plugin or a command is all that its process wrote,       *)
(* whatever order its end and its last lines are seen in; no process runs  *)
(* on when its call has ended, save one that cannot be waited for; and no  *)
(* command waits for what its process left behind, nor any call, when its  *)
(* deadline is no longer watched, but a plugin's (host.rs, process.rs).    *)
THEOREM CallsEndWhole == ProcessSpec => []CallsEndWholeAndStopped
<1>1. ProcessIInv => CallsEndWholeAndStopped
  <2> SUFFICES ASSUME ProcessIInv PROVE CallsEndWholeAndStopped
      OBVIOUS
  <2>1. /\ asking.kind \in {"plugin", "command"} /\ asking.result = "answered" =>
              heard = said
        /\ asking.step = "over" /\ asking.result # "fault" => child # "runs"
        /\ AtItsMercy => asking.kind # "command"
      BY DEF ProcessIInv, PiecesOK, ChildOK, CallStepsOK, Talks, AtItsMercy
  <2> QED BY <2>1, NoOutputIsWaitedFor DEF CallsEndWholeAndStopped
<1> QED BY <1>1, ProcessInvariance, PTL
=============================================================================
