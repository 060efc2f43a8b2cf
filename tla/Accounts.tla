----------------------------- MODULE Accounts -----------------------------
(* Accounts from the first administrator on: bootstrap under its advisory
   lock, then sign-ins that pass the rate limit of the account and open
   sessions on the page. *)
EXTENDS SessionFamily, RateLimit

CONSTANTS
  Setup,        \* bootstrap requests
  None

VARIABLES
  administrators, \* the accounts bootstrap has created
  setup,          \* where each bootstrap request is
  setupLock       \* who holds pg_advisory_xact_lock(BOOTSTRAP_LOCK_KEY)

ASSUME SetupAssumption == None \notin Setup

first == <<administrators, setup, setupLock>>
vars == <<family, limits, first>>

AccountsTypeOK ==
  /\ FamilyTypeOK /\ LimitTypeOK
  /\ administrators \subseteq Setup
  /\ setup \in [Setup -> {"idle", "locked", "empty", "done"}]
  /\ setupLock \in Setup \union {None}

Init ==
  /\ FamilyInit /\ LimitInit
  /\ administrators = {}
  /\ setup = [r \in Setup |-> "idle"]
  /\ setupLock = None

----------------------------------------------------------------------------
(* A mutant of LockSetup: bootstrap counts the accounts without the lock. *)
EnterSetup(r) ==
  /\ setup[r] = "idle"
  /\ setup' = [setup EXCEPT ![r] = "locked"]
  /\ UNCHANGED <<administrators, setupLock>>

LockSetup(r) ==
  /\ setup[r] = "idle" /\ setupLock = None
  /\ setup' = [setup EXCEPT ![r] = "locked"]
  /\ setupLock' = r
  /\ UNCHANGED administrators

(* workspace_is_initialised counts the committed accounts. *)
CountAccounts(r) ==
  /\ setup[r] = "locked"
  /\ setup' = [setup EXCEPT ![r] = IF administrators = {} THEN "empty" ELSE "done"]
  /\ setupLock' = IF administrators = {} THEN setupLock ELSE None
  /\ UNCHANGED administrators

(* The insert commits, or a password that breaks the policy ends the request;
   either way the transaction gives the lock back. *)
EndSetup(r) ==
  /\ setup[r] = "empty"
  /\ \/ administrators' = administrators \union {r} /\ setup' = [setup EXCEPT ![r] = "done"]
     \/ UNCHANGED administrators /\ setup' = [setup EXCEPT ![r] = "idle"]
  /\ setupLock' = None

(* The sign-in form is a page of its own: it is submitted, twice perhaps, while
   no other page is at work on a session that is live. *)
FormIsShown == ~Live(jar) /\ InFlight = {} /\ \A c \in Call : page[c] = IdleCall
SubmitForm(k) == FormIsShown /\ Increment(k)
Submitted == \E k \in Caller : call[k] # NoCall

(* sign_in past the limit, with the right password. *)
SignIn(k) ==
  /\ administrators # {}
  /\ Reset(k)
  /\ OpenSession

Next ==
  \/ /\ \E r \in Setup : LockSetup(r) \/ CountAccounts(r) \/ EndSetup(r)
     /\ UNCHANGED <<family, limits>>
  \/ /\ \/ WindowEnds
        \/ \E k \in Caller : SubmitForm(k) \/ Decide(k) \/ LoseRedis(k) \/ EndRefused(k)
     /\ UNCHANGED <<family, first>>
  \/ /\ \E k \in Caller : SignIn(k)
     /\ UNCHANGED first
  \/ /\ \/ FamilyNext
        \/ ~Submitted /\ \E c \in Call : Send(c)
     /\ administrators # {}
     /\ UNCHANGED <<limits, first>>

Spec == Init /\ [][Next]_vars

(* Permitted exactly once, however many requests find the workspace empty. *)
OneBootstrap == Cardinality(administrators) <= 1
============================================================================
