-------------------------- MODULE SessionFamily --------------------------
(* The sessions of one account and the page that uses them: rotation of the
   refresh token (security/sessions.py, services/accounts.py) against the one
   refresh at a time of web/js/api.js. A session row has no version: a refresh
   that has read its row as live rotates it whatever was committed since. *)
EXTENDS Integers, Sequences, FiniteSets

CONSTANTS
  Call,        \* API calls the page has in the air
  Exchange,    \* refresh requests the server may have at work
  MaxSession,  \* bound: rows of user_sessions
  MaxLost      \* bound: answers the page never receives

VARIABLES
  rows,        \* user_sessions in the order of insertion; their index is the token
  jar,         \* the token in the browser's cookies; 0 when there is none
  page,        \* stage of each call, the token it carries, the refresh it awaits
  exchange,    \* the refresh requests
  leaving,     \* the sign-out request
  lost         \* answers to refreshes that the page did not receive

family == <<rows, jar, page, exchange, leaving, lost>>

FamilyAssumption == MaxSession \in Nat /\ MaxLost \in Nat /\ IsFiniteSet(Exchange)
ASSUME FamilyAssumption

Token == 0..MaxSession
Ended == {"live", "rotated", "signed_out", "revoked", "reuse_detected"}
NoExchange == [stage |-> "idle", token |-> 0, found |-> "live", heard |-> FALSE]
IdleCall == [stage |-> "idle", token |-> 0]
Staying == [stage |-> "idle", token |-> 0]

FamilyTypeOK ==
  /\ rows \in Seq([first : 1..MaxSession, ended : Ended]) /\ Len(rows) <= MaxSession
  /\ jar \in Token
  /\ page \in [Call -> [stage : {"idle", "sent", "refused", "waiting", "resent"}, token : Token]]
  /\ exchange \in [Exchange -> [stage : {"idle", "sent", "read", "ok", "failed"}, token : Token,
                                found : Ended \union {"missing"}, heard : BOOLEAN]]
  /\ leaving \in [stage : {"idle", "sent", "done"}, token : Token]
  /\ lost \in 0..MaxLost

FamilyInit ==
  /\ rows = << >>
  /\ jar = 0
  /\ page = [c \in Call |-> IdleCall]
  /\ exchange = [x \in Exchange |-> NoExchange]
  /\ leaving = Staying
  /\ lost = 0

Live(s) == s \in DOMAIN rows /\ rows[s].ended = "live"

(* Every rotation that is under way needs a row. *)
Busy == {x \in Exchange : exchange[x].stage \in {"sent", "read"}}
RowsLeft == Len(rows) + Cardinality(Busy) < MaxSession

(* revoke_family, revoke_session and revoke_all_for_user end live rows only. *)
Revoked(first, reason) ==
  [s \in DOMAIN rows |-> IF rows[s].first = first /\ Live(s) THEN [rows[s] EXCEPT !.ended = reason]
                         ELSE rows[s]]

----------------------------------------------------------------------------
(* create_session for a sign-in on the page. *)
OpenSession ==
  /\ RowsLeft
  /\ ~Live(jar)
  /\ \A c \in Call : page[c] = IdleCall
  /\ rows' = Append(rows, [first |-> Len(rows) + 1, ended |-> "live"])
  /\ jar' = Len(rows) + 1
  /\ UNCHANGED <<page, exchange, leaving, lost>>

Send(c) ==
  /\ page[c] = IdleCall
  /\ page' = [page EXCEPT ![c] = [stage |-> "sent", token |-> jar]]
  /\ UNCHANGED <<rows, jar, exchange, leaving, lost>>

(* get_principal reads the session's row on every request. *)
Serve(c) ==
  /\ page[c].stage \in {"sent", "resent"}
  /\ Live(page[c].token)
  /\ page' = [page EXCEPT ![c] = IdleCall]
  /\ UNCHANGED <<rows, jar, exchange, leaving, lost>>

(* 401: the session has ended, or the access token has expired, which it may
   at any time. The second 401 of a call is final. *)
Refuse(c) ==
  /\ page[c].stage \in {"sent", "resent"}
  /\ page' = [page EXCEPT ![c] = IF @.stage = "sent" THEN [@ EXCEPT !.stage = "refused"]
                                 ELSE IdleCall]
  /\ UNCHANGED <<rows, jar, exchange, leaving, lost>>

----------------------------------------------------------------------------
InFlight == {x \in Exchange : exchange[x].heard}

(* A mutant of MayRefresh: every refused call starts a refresh of its own. *)
MayRefreshEach == TRUE

MayRefresh == InFlight = {}

(* refreshOnce: start the refresh, or await the one that is under way. *)
StartRefresh(c, x) ==
  /\ page[c].stage = "refused"
  /\ MayRefresh
  /\ exchange[x] = NoExchange
  /\ RowsLeft
  /\ exchange' = [exchange EXCEPT ![x] = [stage |-> "sent", token |-> jar,
                                          found |-> "missing", heard |-> TRUE]]
  /\ page' = [page EXCEPT ![c].stage = "waiting"]
  /\ UNCHANGED <<rows, jar, leaving, lost>>

AwaitRefresh(c) ==
  /\ page[c].stage = "refused"
  /\ InFlight # {}
  /\ page' = [page EXCEPT ![c].stage = "waiting"]
  /\ UNCHANGED <<rows, jar, exchange, leaving, lost>>

(* refresh looks its token up. *)
FindSession(x) ==
  /\ exchange[x].stage = "sent"
  /\ exchange' = [exchange EXCEPT ![x].stage = "read",
                    ![x].found = IF exchange[x].token = 0 THEN "missing"
                                 ELSE rows[exchange[x].token].ended]
  /\ UNCHANGED <<rows, jar, page, leaving, lost>>

(* The server's last step of a refresh; nobody hears one that was given up. *)
Answer(x, stage) ==
  exchange' = [exchange EXCEPT ![x] = IF @.heard THEN [@ EXCEPT !.stage = stage, !.token = Len(rows')]
                                      ELSE NoExchange]

(* A mutant of RotateSession: the row that is replaced stays live. *)
RotateBeside(x) ==
  /\ exchange[x].stage = "read" /\ exchange[x].found = "live"
  /\ rows' = Append(rows, [first |-> rows[exchange[x].token].first, ended |-> "live"])
  /\ Answer(x, "ok")
  /\ UNCHANGED <<jar, page, leaving, lost>>

RotateSession(x) ==
  /\ exchange[x].stage = "read" /\ exchange[x].found = "live"
  /\ LET t == exchange[x].token IN
       rows' = Append([rows EXCEPT ![t].ended = "rotated"], [first |-> rows[t].first, ended |-> "live"])
  /\ Answer(x, "ok")
  /\ UNCHANGED <<jar, page, leaving, lost>>

(* A token whose row had ended: reuse, and the family ends. The error answer
   does not carry the cleared cookies. A session that idled too long fails
   without any change; one whose account was deactivated ends its family. *)
RefuseRefresh(x) ==
  /\ exchange[x].stage = "read"
  /\ LET t == exchange[x].token IN
       CASE exchange[x].found = "missing" -> rows' = rows
         [] exchange[x].found = "live" -> rows' \in {rows, Revoked(rows[t].first, "revoked")}
         [] OTHER -> rows' = Revoked(rows[t].first, "reuse_detected")
  /\ Answer(x, "failed")
  /\ UNCHANGED <<jar, page, leaving, lost>>

(* The promise is settled: the calls that await it are sent again, or the
   page goes to the login form. *)
Settle(ok) ==
  [c \in Call |-> IF page[c].stage # "waiting" THEN page[c]
                  ELSE IF ok THEN [stage |-> "resent", token |-> jar'] ELSE IdleCall]

ReceiveRefresh(x) ==
  /\ exchange[x].stage \in {"ok", "failed"}
  /\ jar' = IF exchange[x].stage = "ok" THEN exchange[x].token ELSE jar
  /\ page' = Settle(exchange[x].stage = "ok")
  /\ exchange' = [exchange EXCEPT ![x] = NoExchange]
  /\ UNCHANGED <<rows, leaving, lost>>

(* The connection breaks, or the officer reloads the page: the cookies of the
   answer are not stored, and the server may still be at work. *)
LoseAnswer(x) ==
  /\ exchange[x].heard
  /\ lost < MaxLost
  /\ lost' = lost + 1
  /\ jar' = jar
  /\ page' = Settle(FALSE)
  /\ exchange' = [exchange EXCEPT ![x] = IF @.stage \in {"ok", "failed"} THEN NoExchange
                                         ELSE [@ EXCEPT !.heard = FALSE]]
  /\ UNCHANGED <<rows, leaving>>

Reload ==
  /\ InFlight = {}
  /\ page' = [c \in Call |-> IdleCall]
  /\ UNCHANGED <<rows, jar, exchange, leaving, lost>>

----------------------------------------------------------------------------
(* sign_out: the family of the token in the request; the answer clears the
   cookies whatever has been stored there since. *)
SendSignOut ==
  /\ leaving = Staying
  /\ leaving' = [stage |-> "sent", token |-> jar]
  /\ UNCHANGED <<rows, jar, page, exchange, lost>>

SignOut ==
  /\ leaving.stage = "sent"
  /\ rows' = IF leaving.token = 0 THEN rows ELSE Revoked(rows[leaving.token].first, "signed_out")
  /\ leaving' = [leaving EXCEPT !.stage = "done"]
  /\ UNCHANGED <<jar, page, exchange, lost>>

ReceiveSignOut ==
  /\ leaving.stage = "done"
  /\ jar' = 0
  /\ leaving' = Staying
  /\ UNCHANGED <<rows, page, exchange, lost>>

(* Another device, an administrator, a new role, a new password. *)
RevokeElsewhere ==
  /\ \E s \in DOMAIN rows : Live(s) /\ rows' = Revoked(rows[s].first, "revoked")
  /\ UNCHANGED <<jar, page, exchange, leaving, lost>>

(* What goes on once calls have been sent. *)
FamilyNext ==
  \/ \E c \in Call : Serve(c) \/ Refuse(c) \/ AwaitRefresh(c)
  \/ \E c \in Call, x \in Exchange : StartRefresh(c, x)
  \/ \E x \in Exchange :
       \/ FindSession(x) \/ RotateSession(x) \/ RefuseRefresh(x)
       \/ ReceiveRefresh(x) \/ LoseAnswer(x)
  \/ Reload
  \/ SendSignOut \/ SignOut \/ ReceiveSignOut \/ RevokeElsewhere

----------------------------------------------------------------------------
(* An officer whose calls are refused side by side is not taken for a thief:
   a family ends for reuse only if an answer was lost. *)
OnlyReplaysAreReuse ==
  (\E s \in DOMAIN rows : rows[s].ended = "reuse_detected") => lost > 0

(* A rotation chain has one live end, and one more for every answer that was
   lost, whatever is revoked while refreshes are under way. *)
OneLiveEnd ==
  \A f \in DOMAIN rows :
    Cardinality({s \in DOMAIN rows : rows[s].first = f /\ Live(s)}) <= 1 + lost
============================================================================
