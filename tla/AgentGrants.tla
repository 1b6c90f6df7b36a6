----------------------------- MODULE AgentGrants -----------------------------
(***************************************************************************)
(* The agents that connect from the internet and what the director has     *)
(* allowed them: crates/kineto-mcp-server/src/oauth.rs.                    *)
(*                                                                         *)
(* An agent registers and asks to be allowed; its request waits for the    *)
(* director's word at the desk (AgentDesk).  Once allowed it gets a code,  *)
(* for the code a grant of tokens, and for the grant's refresh token the   *)
(* next.  Requests run on threads of their own, and three mutexes, of what *)
(* waits, of the codes and of the agents, are each let go of before the    *)
(* next is taken: each stretch under one is a step.  The agents are kept   *)
(* in a file, replaced whole when they change; the rest is in memory.      *)
(*                                                                         *)
(* A grant is told by the authorization it comes from and how often it was *)
(* turned over, which stands for its tokens.  Time passes when it likes.   *)
(* Left out are redirect addresses, verifiers, scopes, pages, and that     *)
(* access tokens expire.                                                   *)
(***************************************************************************)
EXTENDS Naturals, Sequences, FiniteSets, SequencesExt

CONSTANTS
    MaxClients,         \* MAX_CLIENTS
    MaxGrants,          \* MAX_GRANTS
    MaxPending,         \* MAX_PENDING
    MaxRegistrations,   \* bounds the registrations
    MaxAuthorizations,  \* bounds the authorizations asked for
    MaxTurns,           \* bounds how often a grant is turned over
    MaxGrantStops       \* bounds the process's stops

ASSUME GrantsAssumption ==
    /\ MaxClients \in Nat \ {0} /\ MaxGrants \in Nat \ {0} /\ MaxPending \in Nat \ {0}
    /\ MaxRegistrations \in Nat /\ MaxAuthorizations \in Nat
    /\ MaxTurns \in Nat /\ MaxGrantStops \in Nat

Agent == 1..MaxRegistrations
Auth  == 1..MaxAuthorizations

Grant  == [auth: Auth, turn: 0..MaxTurns]
Client == [agent: Agent, grants: Seq(Grant)]

(* Where a request is that holds no mutex: the agent is known and its      *)
(* authorization not yet queued; allowed and without its code yet; come    *)
(* with a code that is used up, and without its grant yet.                 *)
GrantStep == {"asked", "allowed", "exchanged"}

VARIABLES
    stored,         \* the agents in memory
    agentsFile,     \* mcp-agents.json
    registrations,  \* how many there were: each gets an ID nobody had
    known,          \* agents told their ID
    askedBy,        \* who asked for each authorization
    pendingAuths,   \* authorizations that wait, and whether too long
    codes,          \* the codes not yet exchanged, and whether too old
    atWork,         \* requests between two stretches
    verdict,        \* the desk's entry of each authorization
    holds,          \* how often the grant an agent holds was turned over
    excused,        \* grants taken back, displaced or turned over unheard
    disconnected,   \* agents the director disconnected
    grantStops

grantVars == <<stored, agentsFile, registrations, known, askedBy, pendingAuths, codes,
               atWork, verdict, holds, excused, disconnected, grantStops>>

Timed == [auth: Auth, old: BOOLEAN]

GrantsTypeOK ==
    /\ stored \in Seq(Client) /\ agentsFile \in Seq(Client)
    /\ Len(stored) <= MaxClients /\ Len(agentsFile) <= MaxClients
    /\ \A i \in DOMAIN stored : Len(stored[i].grants) <= MaxGrants
    /\ registrations \in 0..MaxRegistrations /\ known \subseteq Agent
    /\ askedBy \in [Auth -> Agent \cup {0}]
    /\ pendingAuths \subseteq Timed /\ Cardinality(pendingAuths) <= MaxPending
    /\ codes \subseteq Timed
    /\ atWork \subseteq [auth: Auth, step: GrantStep]
    /\ verdict \in [Auth -> {"none", "waiting", "allowed", "declined", "lapsed"}]
    /\ holds \in [Auth -> 0..MaxTurns \cup {MaxTurns + 1}]
    /\ excused \subseteq Auth /\ disconnected \subseteq Agent
    /\ grantStops \in 0..MaxGrantStops

NotHeld == MaxTurns + 1

GrantsInit ==
    /\ stored = <<>> /\ agentsFile = <<>> /\ registrations = 0 /\ known = {}
    /\ askedBy = [a \in Auth |-> 0]
    /\ pendingAuths = {} /\ codes = {} /\ atWork = {}
    /\ verdict = [a \in Auth |-> "none"]
    /\ holds = [a \in Auth |-> NotHeld]
    /\ excused = {} /\ disconnected = {} /\ grantStops = 0
-----------------------------------------------------------------------------
AgentsIn(clients) == {clients[i].agent : i \in DOMAIN clients}

PlaceOf(agent) == CHOOSE i \in DOMAIN stored : stored[i].agent = agent

(* `save` replaces the file or fails and leaves it.                        *)
Save(saved) == agentsFile' = IF saved THEN stored' ELSE agentsFile

Young(timed) == {t \in timed : ~t.old}

ByAgent(timed, agent) == \E t \in Young(timed) : askedBy[t.auth] = agent

(* Mutant: an agent that was allowed makes way too.                        *)
IdleClient_Allowed(i) ==
    ~ByAgent(pendingAuths, stored[i].agent) /\ ~ByAgent(codes, stored[i].agent)

(* Neither allowed nor, so far as the lists say, being allowed.            *)
IdleClient(i) ==
    /\ stored[i].grants = <<>>
    /\ ~ByAgent(pendingAuths, stored[i].agent) /\ ~ByAgent(codes, stored[i].agent)

(* register: at the limit the oldest idle one makes way.                   *)
Register(saved) ==
    LET new  == registrations + 1
        room == IF Len(stored) < MaxClients THEN {stored}
                ELSE {RemoveAt(stored, i) : i \in {j \in DOMAIN stored :
                         IdleClient(j) /\ \A k \in 1..(j - 1) : ~IdleClient(k)}}
    IN  /\ new \in Agent /\ registrations' = new
        /\ \E rest \in room : stored' = Append(rest, [agent |-> new, grants |-> <<>>])
        /\ Save(saved)
        /\ known' = IF saved THEN known \cup {new} ELSE known
        /\ UNCHANGED <<askedBy, pendingAuths, codes, atWork, verdict, holds,
                       excused, disconnected, grantStops>>
-----------------------------------------------------------------------------
(* Asking, and the director's word.                                        *)

(* authorize: the agent is looked up.                                      *)
Authorize(agent) ==
    /\ agent \in known /\ agent \in AgentsIn(stored)
    /\ \E a \in Auth :
          /\ askedBy[a] = 0 /\ \A b \in 1..(a - 1) : askedBy[b] # 0
          /\ askedBy' = [askedBy EXCEPT ![a] = agent]
          /\ atWork' = atWork \cup {[auth |-> a, step |-> "asked"]}
    /\ UNCHANGED <<registrations, stored, agentsFile, known, pendingAuths, codes,
                   verdict, holds, excused, disconnected, grantStops>>

(* lapse: what waited too long goes, and its request is withdrawn.         *)
Withdrawn ==
    [a \in Auth |-> IF verdict[a] = "waiting" /\ \E t \in pendingAuths : t.auth = a /\ t.old
                    THEN "lapsed" ELSE verdict[a]]

(* It joins those that wait, unless they are too many.                     *)
Queue(a) ==
    /\ [auth |-> a, step |-> "asked"] \in atWork
    /\ atWork' = atWork \ {[auth |-> a, step |-> "asked"]}
    /\ LET full == Cardinality(Young(pendingAuths)) >= MaxPending
       IN  /\ pendingAuths' = Young(pendingAuths)
                 \cup (IF full THEN {} ELSE {[auth |-> a, old |-> FALSE]})
           /\ verdict' = IF full THEN Withdrawn ELSE [Withdrawn EXCEPT ![a] = "waiting"]
    /\ UNCHANGED <<registrations, stored, agentsFile, known, askedBy, codes, holds,
                   excused, disconnected, grantStops>>

(* The director answers at the desk, or the desk's request lapses.         *)
AnswerAuth(a, word) ==
    /\ verdict[a] = "waiting"
    /\ verdict' = [verdict EXCEPT ![a] = word]
    /\ UNCHANGED <<registrations, stored, agentsFile, known, askedBy, pendingAuths,
                   codes, atWork, holds, excused, disconnected, grantStops>>

(* follow: the page of any authorization is loaded again.                  *)
LapseAuths ==
    /\ pendingAuths # Young(pendingAuths)
    /\ pendingAuths' = Young(pendingAuths)
    /\ verdict' = Withdrawn
    /\ UNCHANGED <<registrations, stored, agentsFile, known, askedBy, codes, atWork,
                   holds, excused, disconnected, grantStops>>

(* follow, after the word: the first page to come takes it.                *)
Follow(t) ==
    /\ t \in pendingAuths /\ verdict[t.auth] # "waiting"
    /\ pendingAuths' = pendingAuths \ {t}
    /\ atWork' = IF verdict[t.auth] = "allowed"
                 THEN atWork \cup {[auth |-> t.auth, step |-> "allowed"]} ELSE atWork
    /\ UNCHANGED <<registrations, stored, agentsFile, known, askedBy, codes,
                   verdict, holds, excused, disconnected, grantStops>>

GiveCode(a) ==
    /\ [auth |-> a, step |-> "allowed"] \in atWork
    /\ atWork' = atWork \ {[auth |-> a, step |-> "allowed"]}
    /\ codes' = Young(codes) \cup {[auth |-> a, old |-> FALSE]}
    /\ UNCHANGED <<registrations, stored, agentsFile, known, askedBy, pendingAuths,
                   verdict, holds, excused, disconnected, grantStops>>

Ages(t) ==
    /\ ~t.old
    /\ \/ t \in pendingAuths /\ UNCHANGED codes
          /\ pendingAuths' = (pendingAuths \ {t}) \cup {[t EXCEPT !.old = TRUE]}
       \/ t \in codes /\ UNCHANGED pendingAuths
          /\ codes' = (codes \ {t}) \cup {[t EXCEPT !.old = TRUE]}
    /\ UNCHANGED <<registrations, stored, agentsFile, known, askedBy, atWork,
                   verdict, holds, excused, disconnected, grantStops>>
-----------------------------------------------------------------------------
(* Tokens.                                                                 *)

(* token: "a code is used once, whatever comes of it".                     *)
Exchange(t, valid) ==
    /\ t \in Young(codes)
    /\ codes' = Young(codes) \ {t}
    /\ atWork' = IF valid THEN atWork \cup {[auth |-> t.auth, step |-> "exchanged"]}
                 ELSE atWork
    /\ UNCHANGED <<registrations, stored, agentsFile, known, askedBy, pendingAuths,
                   verdict, holds, excused, disconnected, grantStops>>

(* grant, for a code: the agent's oldest grant makes way at the limit.  The *)
(* agent is told of tokens once they are saved, or never hears of them.    *)
MakeGrant(a, saved, heard) ==
    /\ [auth |-> a, step |-> "exchanged"] \in atWork
    /\ atWork' = atWork \ {[auth |-> a, step |-> "exchanged"]}
    /\ askedBy[a] \in AgentsIn(stored)
    /\ heard => saved
    /\ LET i    == PlaceOf(askedBy[a])
           all  == Append(stored[i].grants, [auth |-> a, turn |-> 0])
           full == Len(all) > MaxGrants
       IN  /\ stored' = [stored EXCEPT ![i].grants = IF full THEN Tail(all) ELSE all]
           /\ excused' = IF full THEN excused \cup {Head(all).auth} ELSE excused
    /\ Save(saved)
    /\ holds' = IF heard THEN [holds EXCEPT ![a] = 0] ELSE holds
    /\ UNCHANGED <<registrations, known, askedBy, pendingAuths, codes, verdict,
                   disconnected, grantStops>>

(* The agent is no longer known.                                           *)
GrantRefused(a) ==
    /\ [auth |-> a, step |-> "exchanged"] \in atWork
    /\ askedBy[a] \notin AgentsIn(stored)
    /\ atWork' = atWork \ {[auth |-> a, step |-> "exchanged"]}
    /\ UNCHANGED <<registrations, stored, agentsFile, known, askedBy, pendingAuths,
                   codes, verdict, holds, excused, disconnected, grantStops>>

(* grant, for the refresh token the agent holds.                           *)
TurnOver(a, saved, heard) ==
    /\ holds[a] < MaxTurns
    /\ heard => saved
    /\ \E i \in DOMAIN stored : \E j \in DOMAIN stored[i].grants :
          /\ stored[i].agent = askedBy[a]
          /\ stored[i].grants[j] = [auth |-> a, turn |-> holds[a]]
          /\ stored' = [stored EXCEPT ![i].grants[j].turn = @ + 1]
    /\ Save(saved)
    /\ holds' = IF heard THEN [holds EXCEPT ![a] = @ + 1] ELSE holds
    /\ excused' = IF heard THEN excused ELSE excused \cup {a}
    /\ UNCHANGED <<registrations, known, askedBy, pendingAuths, codes, atWork,
                   verdict, disconnected, grantStops>>

(* disconnect, in Settings; a file that cannot be written is said.         *)
Disconnect(agent, saved) ==
    /\ agent \in AgentsIn(stored)
    /\ stored' = RemoveAt(stored, PlaceOf(agent))
    /\ Save(saved)
    /\ excused' = excused \cup {a \in Auth : askedBy[a] = agent}
    /\ disconnected' = IF saved THEN disconnected \cup {agent} ELSE disconnected
    /\ UNCHANGED <<registrations, known, askedBy, pendingAuths, codes, atWork,
                   verdict, holds, grantStops>>

RestartAgents ==
    /\ grantStops < MaxGrantStops
    /\ grantStops' = grantStops + 1
    /\ stored' = agentsFile
    /\ pendingAuths' = {} /\ codes' = {} /\ atWork' = {}
    /\ verdict' = [a \in Auth |-> IF verdict[a] = "waiting" THEN "lapsed" ELSE verdict[a]]
    /\ UNCHANGED <<registrations, agentsFile, known, askedBy, holds, excused,
                   disconnected>>
-----------------------------------------------------------------------------
GrantsNext ==
    \/ \E agent \in Agent : Authorize(agent)
    \/ \E saved \in BOOLEAN :
          Register(saved) \/ \E agent \in Agent : Disconnect(agent, saved)
    \/ \E a \in Auth : Queue(a) \/ GiveCode(a) \/ GrantRefused(a)
    \/ \E a \in Auth, word \in {"allowed", "declined", "lapsed"} : AnswerAuth(a, word)
    \/ LapseAuths
    \/ \E t \in Timed : Follow(t) \/ Ages(t)
    \/ \E t \in Timed, valid \in BOOLEAN : Exchange(t, valid)
    \/ \E a \in Auth, saved, heard \in BOOLEAN :
          MakeGrant(a, saved, heard) \/ TurnOver(a, saved, heard)
    \/ RestartAgents

GrantsSpec == GrantsInit /\ [][GrantsNext]_grantVars
-----------------------------------------------------------------------------
(* Properties.                                                             *)

GrantsOf(clients) ==
    UNION {{[agent |-> clients[i].agent, place |-> j, of |-> clients[i].grants[j]] :
                j \in DOMAIN clients[i].grants} : i \in DOMAIN clients}

(* "The director is the authorization", "refresh tokens turn over with     *)
(* each use" (oauth.rs), and "a registration never pushes out an agent the *)
(* director allowed" (ADR 0011).  In memory and in the file, whatever      *)
(* fails to be saved and wherever the process stops: every grant comes     *)
(* from one authorization of its agent that the director allowed, and none *)
(* gives two; a token an agent has turned over is not accepted again; an   *)
(* agent disconnected is gone; and the token that an agent was last given  *)
(* is there, but for one taken back, displaced by the agent's own newer    *)
(* grants, or turned over in an answer it never got.                       *)
GrantsAreTheDirectors ==
    \A clients \in {stored, agentsFile} :
        /\ \A g \in GrantsOf(clients) :
              /\ askedBy[g.of.auth] = g.agent /\ verdict[g.of.auth] = "allowed"
              /\ holds[g.of.auth] # NotHeld => g.of.turn >= holds[g.of.auth]
              /\ \A h \in GrantsOf(clients) : h.of.auth = g.of.auth => h = g
        /\ AgentsIn(clients) \cap disconnected = {}
        /\ \A a \in Auth \ excused : holds[a] # NotHeld =>
              \E g \in GrantsOf(clients) : g.of = [auth |-> a, turn |-> holds[a]]

(* "or one waiting for the director or holding a code it has not           *)
(* exchanged" (ADR 0011): an agent that was allowed, and is being given    *)
(* its code or its grant, is not pushed out meanwhile.                     *)
BeingAllowedIsKept ==
    [][\A w \in atWork : w.step # "asked" /\ askedBy[w.auth] \in AgentsIn(stored) =>
          askedBy[w.auth] \in AgentsIn(stored') \cup disconnected' \/ w.auth \in excused'
          \/ grantStops' # grantStops]_grantVars

(* "Returns whether there was one" (disconnect): an agent that the         *)
(* director was told is not there is not there after the next start.       *)
NoneIsNone ==
    AgentsIn(agentsFile) \cap known \subseteq AgentsIn(stored)
=============================================================================
