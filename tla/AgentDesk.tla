----------------------------- MODULE AgentDesk -----------------------------
(***************************************************************************)
(* What outside agents ask of the open project, and what waits for the     *)
(* director's word: crates/kineto-mcp-server/src/desk.rs, with the         *)
(* session's SessionRemote and the application's opening and closing       *)
(* (apps/kineto/rust/src/mcp_server.rs).                                   *)
(*                                                                         *)
(* Every tool call runs on a thread of its own.  It takes the open session *)
(* and works out what the command costs with that session's providers;     *)
(* then it takes the open session once more, and sends the command to that *)
(* one, or notes it in the book for the director, who answers from the     *)
(* application's thread, which also opens and closes the project.  Each    *)
(* stretch under a lock is one step.                                       *)
(*                                                                         *)
(* A request may be found lapsed whenever it is looked at.  Left out are   *)
(* labels, prices, and commands that may not be asked for.                 *)
(***************************************************************************)
EXTENDS Naturals, Sequences, FiniteSets, SequencesExt

CONSTANTS
    KeptAsks,           \* KEPT: how many requests the book remembers
    MaxToolCalls,       \* bounds the agents' commands
    MaxConnects,        \* bounds the agents' requests to connect
    MaxSessions         \* bounds the sessions opened

ASSUME DeskAssumption ==
    /\ KeptAsks \in Nat \ {0}
    /\ MaxToolCalls \in Nat /\ MaxConnects \in Nat /\ MaxSessions \in Nat

ToolCall    == 1..MaxToolCalls
DeskSession == 1..MaxSessions
AskNumber   == 1..(MaxToolCalls + MaxConnects)

AskState == {"waiting", "declined", "allowed", "sent", "refused", "lapsed"}

(* An entry of the book: a command of a call, or a request to connect.     *)
Entry == [number: AskNumber, call: 0..MaxToolCalls, state: AskState]

CallStep == {"none", "looked", "runs", "sent", "waits", "ends"}

VARIABLES
    deskSession,    \* the session writes go through, 0 for none
    sessions,       \* how many sessions were opened
    paying,         \* those whose providers charge per call
    deskClosed,     \* those whose owner closed them
    closing,        \* how far the application is with closing one
    book,           \* the requests remembered, oldest first
    deskNext,       \* the number given last
    connects,       \* how many requests to connect were made
    call,           \* the tool calls: the session each was charged by, the
                    \* one it goes to, its number
    sentTo,         \* the sessions each command was sent to
    word,           \* calls and connects the director allowed
    toldNever       \* requests of which somebody was told they were not sent

deskOwner == <<deskSession, sessions, paying, deskClosed, closing>>
deskBook  == <<book, deskNext>>
deskPast  == <<word, toldNever>>
deskVars  == <<deskOwner, deskBook, connects, call, sentTo, deskPast>>

DeskTypeOK ==
    /\ deskSession \in 0..MaxSessions /\ sessions \in 0..MaxSessions
    /\ paying \subseteq DeskSession /\ deskClosed \subseteq DeskSession
    /\ closing \in {"no", "taken", "lapsed"}
    /\ book \in Seq(Entry) /\ Len(book) <= KeptAsks
    /\ deskNext \in 0..(MaxToolCalls + MaxConnects)
    /\ connects \in 0..MaxConnects
    /\ call \in [ToolCall -> [step: CallStep, session: 0..MaxSessions, to: 0..MaxSessions,
                              number: 0..(MaxToolCalls + MaxConnects)]]
    /\ sentTo \in [ToolCall -> Seq(DeskSession)]
    /\ word \subseteq AskNumber /\ toldNever \subseteq AskNumber

DeskInit ==
    /\ deskSession = 0 /\ sessions = 0 /\ paying = {} /\ deskClosed = {}
    /\ closing = "no"
    /\ book = <<>> /\ deskNext = 0 /\ connects = 0
    /\ call = [c \in ToolCall |-> [step |-> "none", session |-> 0, to |-> 0, number |-> 0]]
    /\ sentTo = [c \in ToolCall |-> <<>>]
    /\ word = {} /\ toldNever = {}
-----------------------------------------------------------------------------
(* The book.                                                               *)

InBook(number) == \E i \in DOMAIN book : book[i].number = number

Place(number) == CHOOSE i \in DOMAIN book : book[i].number = number

(* Tending an entry finds it as it is, or lapsed if it has waited long.    *)
Tended(entry) ==
    {entry} \cup (IF entry.state = "waiting" THEN {[entry EXCEPT !.state = "lapsed"]} ELSE {})

NoLonger(entry) == entry.state # "waiting"

(* Mutant: one makes way only when the book already has one too many.      *)
Keep_OneMore(entry) ==
    LET all == Append(book, [entry EXCEPT !.number = deskNext + 1])
    IN  /\ book' = IF Len(book) > KeptAsks THEN Tail(all) ELSE all
        /\ deskNext' = deskNext + 1

(* Keep an entry; the oldest that no longer waits makes way, or the oldest.*)
Keep(entry) ==
    LET all  == Append(book, [entry EXCEPT !.number = deskNext + 1])
        done == {i \in DOMAIN all : NoLonger(all[i])}
        out  == IF done = {} THEN 1 ELSE CHOOSE i \in done : \A j \in done : i <= j
    IN  /\ book' = IF Len(all) > KeptAsks THEN RemoveAt(all, out) ELSE all
        /\ deskNext' = deskNext + 1

Settle(number, state) == book' = [book EXCEPT ![Place(number)].state = state]

(* What request answers of an entry: that it was not sent, if so.          *)
Tell(entry) ==
    toldNever' = IF entry.state \in {"declined", "lapsed"} THEN toldNever \cup {entry.number}
                 ELSE toldNever
-----------------------------------------------------------------------------
(* The application: opened, closing and what destroying a session does.    *)

OpenSession(pays) ==
    /\ deskSession = 0 /\ closing = "no" /\ sessions < MaxSessions
    /\ sessions' = sessions + 1
    /\ deskSession' = sessions + 1
    /\ paying' = IF pays THEN paying \cup {sessions + 1} ELSE paying
    /\ UNCHANGED <<deskClosed, closing, deskBook, connects, call, sentTo, deskPast>>

(* Desk::close takes the session first,                                    *)
TakeSession ==
    /\ deskSession # 0
    /\ deskSession' = 0 /\ closing' = "taken"
    /\ UNCHANGED <<sessions, paying, deskClosed, deskBook, connects, call, sentTo, deskPast>>

(* and then lapses the commands that wait.                                 *)
LapseWaiting ==
    /\ closing = "taken"
    /\ closing' = "lapsed"
    /\ book' = [i \in DOMAIN book |->
                  IF book[i].call # 0 /\ book[i].state = "waiting"
                  THEN [book[i] EXCEPT !.state = "lapsed"] ELSE book[i]]
    /\ UNCHANGED <<deskSession, sessions, paying, deskClosed, deskNext, connects, call, sentTo,
                   deskPast>>

(* The session's gate closes, and what it was sent is at an end.           *)
DropSession ==
    /\ closing = "lapsed"
    /\ closing' = "no"
    /\ deskClosed' = deskClosed \cup {sessions}
    /\ UNCHANGED <<deskSession, sessions, paying, deskBook, connects, call, sentTo, deskPast>>
-----------------------------------------------------------------------------
(* SessionRemote::submit: queued, or refused when the session is closed or *)
(* there is no such shot.                                                  *)
Submit(c, session, whenSent, whenRefused) ==
    \/ /\ session \notin deskClosed
       /\ sentTo' = [sentTo EXCEPT ![c] = Append(@, session)]
       /\ whenSent
    \/ /\ whenRefused
       /\ UNCHANGED sentTo
-----------------------------------------------------------------------------
(* A tool call: Tools::call, then Desk::run.                               *)

CallAt(c, step) == call[c].step = step

CallGoes(c, step) == call' = [call EXCEPT ![c].step = step]

(* The session is taken, and the command's charge worked out with it.      *)
(* Calls are numbered as they come.                                        *)
TakeCall(c) ==
    /\ CallAt(c, "none") /\ \A b \in ToolCall : b < c => ~CallAt(b, "none")
    /\ deskSession # 0 /\ deskSession \notin deskClosed
    /\ call' = [call EXCEPT ![c].step = "looked", ![c].session = deskSession]
    /\ UNCHANGED <<deskOwner, deskBook, connects, sentTo, deskPast>>

(* Desk::run takes the open session again, which may be another, and       *)
(* refuses when there is none.                                             *)
TakeAgain(c) ==
    /\ CallAt(c, "looked")
    /\ IF deskSession # 0 /\ deskSession \notin deskClosed
       THEN call' = [call EXCEPT ![c].step = "runs", ![c].to = deskSession]
       ELSE CallGoes(c, "ends")
    /\ UNCHANGED <<deskOwner, deskBook, connects, sentTo, deskPast>>

(* Mutant: what a session charges for is read when its project is open.    *)
Free_OfNow(c) == deskSession \notin paying

Free(c) == call[c].session \notin paying

RunFree(c) ==
    /\ CallAt(c, "runs") /\ Free(c)
    /\ Submit(c, call[c].to, CallGoes(c, "sent"), CallGoes(c, "ends"))
    /\ UNCHANGED <<deskOwner, deskBook, connects, deskPast>>

(* After its end, or after a while, the command is noted as sent.          *)
NoteFree(c) ==
    /\ CallAt(c, "sent")
    /\ Keep([number |-> 0, call |-> c, state |-> "sent"])
    /\ call' = [call EXCEPT ![c].step = "ends", ![c].number = deskNext + 1]
    /\ UNCHANGED <<deskOwner, connects, sentTo, deskPast>>

NotePaid(c) ==
    /\ CallAt(c, "runs") /\ ~Free(c)
    /\ Keep([number |-> 0, call |-> c, state |-> "waiting"])
    /\ call' = [call EXCEPT ![c].step = "waits", ![c].number = deskNext + 1]
    /\ UNCHANGED <<deskOwner, connects, sentTo, deskPast>>

(* await_word and request: the answer, once the director has given a word, *)
(* the request has lapsed, or the call has waited long enough.             *)
AnswerCall(c) ==
    /\ CallAt(c, "waits")
    /\ CallGoes(c, "ends")
    /\ IF InBook(call[c].number)
       THEN \E entry \in Tended(book[Place(call[c].number)]) :
               Settle(entry.number, entry.state) /\ Tell(entry)
       ELSE UNCHANGED <<book, toldNever>>
    /\ UNCHANGED <<deskOwner, deskNext, connects, sentTo, word>>

(* get_request, and the window's list of what waits, look at any time.     *)
LookAtRequest(number) ==
    /\ InBook(number)
    /\ \E entry \in Tended(book[Place(number)]) :
          Settle(number, entry.state) /\ Tell(entry)
    /\ UNCHANGED <<deskOwner, deskNext, connects, call, sentTo, word>>
-----------------------------------------------------------------------------
(* An agent that asks to connect from the internet.                        *)

AskToConnect ==
    /\ connects < MaxConnects
    /\ connects' = connects + 1
    /\ Keep([number |-> 0, call |-> 0, state |-> "waiting"])
    /\ UNCHANGED <<deskOwner, call, sentTo, deskPast>>

Withdraw(number) ==
    /\ InBook(number)
    /\ book[Place(number)].call = 0 /\ book[Place(number)].state = "waiting"
    /\ Settle(number, "lapsed")
    /\ UNCHANGED <<deskOwner, deskNext, connects, call, sentTo, deskPast>>
-----------------------------------------------------------------------------
(* The director's word: Desk::decide, under the book's lock.               *)

(* Mutant: the word is taken on a request that no longer waits.            *)
MayDecide_Always(entry) == entry.call # 0

MayDecide(entry) == entry.state = "waiting"

Decide(number, allow) ==
    /\ InBook(number)
    /\ \E entry \in Tended(book[Place(number)]) :
          \/ /\ ~MayDecide(entry)
             /\ Settle(number, entry.state)
             /\ UNCHANGED <<sentTo, word>>
          \/ /\ MayDecide(entry) /\ ~allow
             /\ Settle(number, "declined")
             /\ UNCHANGED <<sentTo, word>>
          \/ /\ MayDecide(entry) /\ allow
             /\ word' = word \cup {number}
             /\ IF entry.call = 0
                THEN Settle(number, "allowed") /\ UNCHANGED sentTo
                ELSE IF deskSession = 0
                THEN Settle(number, "refused") /\ UNCHANGED sentTo
                ELSE Submit(entry.call, deskSession, Settle(number, "sent"),
                            Settle(number, "refused"))
    /\ UNCHANGED <<deskOwner, deskNext, connects, call, toldNever>>
-----------------------------------------------------------------------------
DeskNextStep ==
    \/ \E pays \in BOOLEAN : OpenSession(pays)
    \/ TakeSession \/ LapseWaiting \/ DropSession
    \/ \E c \in ToolCall :
          \/ TakeCall(c) \/ TakeAgain(c) \/ RunFree(c) \/ NoteFree(c) \/ NotePaid(c)
          \/ AnswerCall(c)
    \/ AskToConnect
    \/ \E number \in AskNumber :
          \/ LookAtRequest(number) \/ Withdraw(number)
          \/ \E allow \in BOOLEAN : Decide(number, allow)

DeskSpec == DeskInit /\ [][DeskNextStep]_deskVars
-----------------------------------------------------------------------------
(* Properties.                                                             *)

CallOf(c) == call[c].number

(* A command found to cost with the session first taken is sent only on    *)
(* the director's word, though the one it goes to may be another           *)
(* (PaidOnlyOnTheWord); no command is sent twice, and none of which        *)
(* anybody was told that it was declined or lapsed is sent at all,         *)
(* whenever the word, the lapse, the answer and the closing of the project *)
(* come.                                                                   *)
SentOnTheWord ==
    \A c \in ToolCall :
        /\ Len(sentTo[c]) <= 1
        /\ sentTo[c] # <<>> /\ call[c].session \in paying => CallOf(c) \in word
        /\ sentTo[c] # <<>> => CallOf(c) \notin toldNever

(* No run checks the following; the README says what TLC finds.            *)

(* "A paid request is sent only on the director's decision" (ADR 0011),    *)
(* whichever session it goes to in the end.                                *)
PaidOnlyOnTheWord ==
    \A c \in ToolCall : \A i \in DOMAIN sentTo[c] :
        sentTo[c][i] \in paying => CallOf(c) \in word

(* "A request lapses after 30 minutes unanswered, or when Kineto closes    *)
(* the project" (ADR 0011): a command that waits was asked of the project  *)
(* as it is open now.                                                      *)
LapsesWhenClosed ==
    closing = "no" =>
        \A i \in DOMAIN book :
            book[i].call # 0 /\ book[i].state = "waiting" =>
                call[book[i].call].to = deskSession
=============================================================================
