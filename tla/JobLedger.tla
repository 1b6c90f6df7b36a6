----------------------------- MODULE JobLedger -----------------------------
(***************************************************************************)
(* What the paid-job runtime promises about one project, with no files, no *)
(* locks and no reservations in sight: a ledger with one line per piece of *)
(* paid work.  A piece of work is one provider's idempotency key.          *)
(*                                                                         *)
(* The promise is about money.  Work that has been settled (its result is  *)
(* in the project and the intent acknowledged) is never offered again; a   *)
(* provider is only ever called for work that is open; and a provider call *)
(* is the only thing a crash can lose.                                     *)
(***************************************************************************)

CONSTANTS Work,      \* pieces of paid work: one per provider and key
          Slot,      \* what a piece of work is for: an artifact's job
          SlotOf     \* [Work -> Slot], the slot of each piece of work

VARIABLES standing,  \* how far each piece of work has come
          calling    \* the work a provider is being called for

ledger == <<standing, calling>>

Standing == {"new", "open", "invoked", "settled"}

LedgerTypeOK ==
    /\ standing \in [Work -> Standing]
    /\ calling \subseteq Work

LedgerInit ==
    /\ standing = [w \in Work |-> "new"]
    /\ calling = {}

Unfinished(w) == standing[w] \in {"open", "invoked"}

(* Work is opened in a slot no other unfinished work holds.                *)
Open(w) ==
    /\ standing[w] = "new"
    /\ \A v \in Work : SlotOf[v] = SlotOf[w] => ~Unfinished(v)
    /\ standing' = [standing EXCEPT ![w] = "open"]
    /\ UNCHANGED calling

Call(w) ==
    /\ standing[w] = "open"
    /\ w \notin calling
    /\ calling' = calling \cup {w}
    /\ UNCHANGED standing

(* The call ends: with a result or a remote job, or with nothing.          *)
Return(w) ==
    /\ w \in calling
    /\ calling' = calling \ {w}
    /\ standing' \in {standing, [standing EXCEPT ![w] = "invoked"]}

(* An interrupted call is found again at the provider.                     *)
Find(w) ==
    /\ standing[w] = "open"
    /\ w \notin calling
    /\ standing' = [standing EXCEPT ![w] = "invoked"]
    /\ UNCHANGED calling

Settle(w) ==
    /\ standing[w] = "invoked"
    /\ standing' = [standing EXCEPT ![w] = "settled"]
    /\ UNCHANGED calling

(* Given up, deliberately, while no call is under way.                     *)
GiveUp(w) ==
    /\ Unfinished(w)
    /\ w \notin calling
    /\ standing' = [standing EXCEPT ![w] = "new"]
    /\ UNCHANGED calling

Stop ==
    /\ calling' = {}
    /\ UNCHANGED standing

LedgerNext ==
    \/ \E w \in Work : \/ Open(w)
                       \/ Call(w)
                       \/ Return(w)
                       \/ Find(w)
                       \/ Settle(w)
                       \/ GiveUp(w)
    \/ Stop

LedgerSpec == LedgerInit /\ [][LedgerNext]_ledger
============================================================================
