-------------------------- MODULE Accounts_proofs --------------------------
(* Proofs about Accounts, for any number of bootstrap requests, sign-ins,
   calls and refreshes, and whatever the limit is. *)
EXTENDS Accounts, FiniteSetTheorems, TLAPS

----------------------------------------------------------------------------
(* Bootstrap: who has passed the lock holds it, and who has found the
   workspace empty still does. *)
SetupOK ==
  /\ setup \in [Setup -> {"idle", "locked", "empty", "done"}]
  /\ \A r \in Setup : setup[r] \in {"locked", "empty"} => setupLock = r
  /\ \A r \in Setup : setup[r] = "empty" => administrators = {}
  /\ administrators \subseteq Setup
  /\ \A r, q \in administrators : r = q

LEMMA SetupInit == Init => SetupOK
  BY DEF Init, SetupOK

LEMMA SetupStep == SetupOK /\ [Next]_vars => SetupOK'
<1> SUFFICES ASSUME SetupOK, [Next]_vars PROVE SetupOK'
  OBVIOUS
<1>1. ASSUME NEW r \in Setup, LockSetup(r) PROVE SetupOK'
  BY <1>1, SetupAssumption DEF LockSetup, SetupOK
<1>2. ASSUME NEW r \in Setup, CountAccounts(r) PROVE SetupOK'
  BY <1>2, SetupAssumption DEF CountAccounts, SetupOK
<1>3. ASSUME NEW r \in Setup, EndSetup(r) PROVE SetupOK'
  BY <1>3, SetupAssumption DEF EndSetup, SetupOK
<1>4. CASE UNCHANGED first
  BY <1>4 DEF first, SetupOK
<1> QED
  BY <1>1, <1>2, <1>3, <1>4 DEF Next, vars

(* However many requests find the workspace empty together, one creates the
   first administrator (services/accounts.py bootstrap, its advisory lock). *)
THEOREM BootstrappedOnce == Spec => []OneBootstrap
<1>1. SetupOK => OneBootstrap
  <2> SUFFICES ASSUME SetupOK PROVE Cardinality(administrators) <= 1
    BY DEF OneBootstrap
  <2>1. CASE administrators = {}
    BY <2>1, FS_EmptySet
  <2>2. ASSUME NEW r \in administrators PROVE Cardinality(administrators) <= 1
    <3>1. administrators = {r}
      BY DEF SetupOK
    <3>2. Cardinality({r}) = 1
      BY FS_Singleton
    <3> QED
      BY <3>1, <3>2
  <2> QED
    BY <2>1, <2>2
<1> QED
  BY <1>1, SetupInit, SetupStep, PTL DEF Spec

----------------------------------------------------------------------------
(* The rate limit *)
LimitOK == LimitTypeOK /\ CountersExpire

LEMMA NoCallCounts == NoCall \in Counts /\ NoCall.stage = "idle"
<1>1. 0 \in 0..MaxCount
  BY LimitAssumption DEF LimitAssumption
<1> QED
  BY <1>1 DEF NoCall, Counts

LEMMA LimitInitOK == Init => LimitOK
<1>1. 0 \in 0..MaxCount
  BY LimitAssumption DEF LimitAssumption
<1>2. ASSUME Init PROVE LimitTypeOK
  BY <1>1, <1>2, NoCallCounts DEF Init, LimitInit, LimitTypeOK
<1>3. ASSUME Init PROVE CountersExpire
  BY <1>3 DEF Init, LimitInit, CountersExpire
<1> QED
  BY <1>2, <1>3 DEF LimitOK

LEMMA LimitStep == LimitOK /\ [Next]_vars => LimitOK'
<1> SUFFICES ASSUME LimitOK, [Next]_vars PROVE LimitOK'
  OBVIOUS
<1>0. /\ call \in [Caller -> Counts] /\ counter \in 0..MaxCount
      /\ expires \in BOOLEAN /\ dropped \in BOOLEAN
  BY DEF LimitOK, LimitTypeOK
<1>1. ASSUME NEW c \in Caller, Increment(c) PROVE LimitOK'
  <2> DEFINE bare == ~expires
  <2>0. bare \in BOOLEAN /\ (bare <=> ~expires)
    OBVIOUS
  <2> DEFINE told == [stage |-> "counted", count |-> counter + 1, bare |-> bare]
  <2>1. counter + 1 \in 0..MaxCount
    BY <1>0, <1>1, LimitAssumption DEF Increment, LimitAssumption
  <2>2. /\ counter' = counter + 1 /\ call' = [call EXCEPT ![c] = told]
        /\ dropped' = FALSE /\ expires' = expires
    BY <1>1 DEF Increment
  <2> HIDE DEF bare
  <2>3. told \in Counts /\ told.stage = "counted" /\ told.bare = bare
    BY <2>0, <2>1 DEF Counts
  <2> HIDE DEF told
  <2>4. LimitTypeOK'
    BY <1>0, <2>1, <2>2, <2>3 DEF LimitTypeOK
  <2>5. call'[c] = told
    BY <1>0, <2>2
  <2>6. ~expires => call'[c].stage = "counted" /\ call'[c].bare
    BY <2>0, <2>3, <2>5
  <2> QED
    BY <2>2, <2>4, <2>6 DEF CountersExpire, LimitOK
<1>2. ASSUME NEW c \in Caller, NEW told \in Counts, call' = [call EXCEPT ![c] = told],
             told.stage # "counted", dropped' \in BOOLEAN, dropped => dropped',
             expires' \in BOOLEAN, expires => expires' \/ counter' = 0,
             counter' \in {0, counter},
             call[c].stage = "counted" /\ call[c].bare =>
                dropped' \/ expires' \/ counter' = 0
      PROVE  LimitOK'
  <2>1. LimitTypeOK'
    BY <1>0, <1>2, LimitAssumption DEF LimitTypeOK, LimitAssumption
  <2>2. \A k \in Caller : k # c => call'[k] = call[k]
    BY <1>0, <1>2
  <2>3. CountersExpire'
    <3> SUFFICES ASSUME counter' > 0, ~expires', ~dropped'
                 PROVE  \E k \in Caller : call'[k].stage = "counted" /\ call'[k].bare
      BY DEF CountersExpire
    <3>1. counter > 0 /\ ~expires /\ ~dropped
      BY <1>2
    <3>2. PICK k \in Caller : call[k].stage = "counted" /\ call[k].bare
      BY <3>1 DEF LimitOK, CountersExpire
    <3>3. k # c
      BY <1>0, <1>2, <3>2
    <3> QED
      BY <2>2, <3>2, <3>3
  <2> QED
    BY <2>1, <2>3 DEF LimitOK
<1>3. NoCall \in Counts /\ NoCall.stage # "counted"
  BY NoCallCounts
<1>4. ASSUME NEW c \in Caller, Decide(c) PROVE LimitOK'
  <2> DEFINE told == IF call[c].count <= MaxRequests
                     THEN [call[c] EXCEPT !.stage = "allowed", !.bare = FALSE] ELSE NoCall
  <2>1. call[c] \in Counts /\ call[c].count \in 0..MaxCount
    BY <1>0 DEF Counts
  <2>2. told \in Counts /\ told.stage # "counted"
    BY <1>3, <2>1 DEF Counts
  <2>3. call' = [call EXCEPT ![c] = told]
    BY <1>4 DEF Decide
  <2>4. UNCHANGED <<counter, dropped>>
          /\ expires' = (counter > 0 /\ (expires \/ SetsExpiry(c)))
    BY <1>4 DEF Decide
  <2>5. call[c].bare => SetsExpiry(c)
    BY DEF SetsExpiry
  <2> HIDE DEF told
  <2>6. SetsExpiry(c) \in BOOLEAN
    BY <2>1 DEF SetsExpiry, Counts
  <2>7. expires' \in BOOLEAN /\ (expires => expires' \/ counter' = 0)
    BY <1>0, <2>4, <2>6
  <2>8. call[c].bare => expires' \/ counter' = 0
    <3>1. counter = 0 \/ counter > 0
      BY <1>0, LimitAssumption DEF LimitAssumption
    <3>2. counter > 0 /\ SetsExpiry(c) => expires'
      BY <2>4, Zenon
    <3> QED
      BY <2>4, <2>5, <3>1, <3>2, Zenon
  <2> QED
    BY <1>0, <1>2, <2>2, <2>3, <2>4, <2>7, <2>8
<1>5. ASSUME NEW c \in Caller, LoseRedis(c) PROVE LimitOK'
  <2>1. call[c].bare => SetsExpiry(c)
    BY DEF SetsExpiry
  <2>2. SetsExpiry(c) \in BOOLEAN
    BY <1>0 DEF SetsExpiry, Counts
  <2> QED
    BY <1>0, <1>2, <1>3, <1>5, <2>1, <2>2 DEF LoseRedis
<1>6. ASSUME NEW c \in Caller, EndRefused(c) \/ Reset(c) PROVE LimitOK'
  BY <1>0, <1>2, <1>3, <1>6 DEF EndRefused, Reset
<1>7. CASE WindowEnds
  <2>1. counter' = 0 /\ expires' = FALSE /\ UNCHANGED <<call, dropped>>
    BY <1>7 DEF WindowEnds
  <2>2. 0 \in 0..MaxCount
    BY LimitAssumption DEF LimitAssumption
  <2>3. LimitTypeOK'
    BY <1>0, <2>1, <2>2 DEF LimitTypeOK
  <2>4. ~(counter' > 0)
    BY <2>1
  <2> QED
    BY <2>3, <2>4 DEF LimitOK, CountersExpire
<1>8. CASE UNCHANGED limits
  BY <1>8 DEF limits, LimitOK, LimitTypeOK, CountersExpire
<1> QED
  BY <1>1, <1>4, <1>5, <1>6, <1>7, <1>8 DEF Next, vars, SubmitForm, SignIn

(* A counter without an expiry is about to get one, or has lost Redis since its
   last request (security/ratelimit.py, the repair of a bare key). *)
THEOREM CountersEnd == Spec => []CountersExpire
<1>1. LimitOK => CountersExpire
  BY DEF LimitOK
<1> QED
  BY <1>1, LimitInitOK, LimitStep, PTL DEF Spec

----------------------------------------------------------------------------
(* The sessions: as long as no answer is lost, a token that a refresh carries
   is the one row of its family that may be live. *)
Row == [first : Nat, ended : Ended]
Stage == {"idle", "sent", "read", "ok", "failed"}
Exchanges == [stage : Stage, token : Nat, found : Ended \union {"missing"}, heard : BOOLEAN]

RowsOK ==
  /\ rows \in Seq(Row)
  /\ \A s \in 1..Len(rows) : rows[s].first <= s
  /\ jar \in 0..Len(rows)
  /\ leaving.token \in 0..Len(rows)
  /\ lost \in Nat
  /\ exchange \in [Exchange -> Exchanges]
  /\ \A x \in Exchange : exchange[x].token <= Len(rows)
  /\ \A x, y \in Exchange : exchange[x].heard /\ exchange[y].heard => x = y

OthersEnded(t) ==
  \A s \in 1..Len(rows) : s # t /\ rows[s].first = rows[t].first => rows[s].ended # "live"

(* What has been found of a row that had ended holds for good. *)
FoundOK(x) ==
  exchange[x].stage = "read" =>
    /\ exchange[x].found = "missing" <=> exchange[x].token = 0
    /\ exchange[x].found \notin {"missing", "live"} => rows[exchange[x].token].ended # "live"

Carried ==
  /\ \A x \in Exchange : exchange[x].stage # "idle" => exchange[x].heard
  /\ \A x \in Exchange : exchange[x].stage \in {"sent", "read", "ok"} /\ exchange[x].token # 0
                           => OthersEnded(exchange[x].token)
  /\ jar # 0 /\ (\A x \in Exchange : exchange[x].stage # "ok") => OthersEnded(jar)

SessionsOK ==
  /\ RowsOK
  /\ \A x \in Exchange : FoundOK(x)
  /\ lost = 0 => Carried /\ \A s \in 1..Len(rows) : rows[s].ended # "reuse_detected"

LEMMA SessionsInit == Init => SessionsOK
<1> SUFFICES ASSUME Init PROVE SessionsOK
  OBVIOUS
<1>1. /\ rows = << >> /\ jar = 0 /\ leaving = Staying /\ lost = 0
      /\ exchange = [x \in Exchange |-> NoExchange]
  BY DEF Init, FamilyInit
<1>2. Len(rows) = 0 /\ rows \in Seq(Row)
  BY <1>1
<1>3. NoExchange.stage = "idle" /\ NoExchange.token = 0 /\ NoExchange.heard = FALSE
        /\ NoExchange \in Exchanges
  BY DEF NoExchange, Stage, Ended, Exchanges
<1>4. leaving.token = 0
  BY <1>1 DEF Staying
<1> QED
  BY <1>1, <1>2, <1>3, <1>4 DEF SessionsOK, RowsOK, FoundOK, Carried

(* Rows end, and stay ended; none is lost. *)
Ends(these) ==
  /\ these \in Seq(Row) /\ Len(these) = Len(rows)
  /\ \A s \in 1..Len(rows) : /\ these[s].first = rows[s].first
                             /\ rows[s].ended # "live" => these[s].ended = rows[s].ended

LEMMA RevokedEnds ==
  ASSUME RowsOK, NEW f, NEW reason \in Ended
  PROVE  /\ Ends(Revoked(f, reason))
         /\ \A s \in 1..Len(rows) : Revoked(f, reason)[s].ended = reason =>
               rows[s].ended = reason \/ (rows[s].ended = "live" /\ rows[s].first = f)
<1> DEFINE these == Revoked(f, reason)
<1>1. rows \in Seq(Row) /\ DOMAIN rows = 1..Len(rows) /\ Len(rows) \in Nat
  BY DEF RowsOK
<1>2. \A s \in 1..Len(rows) :
         rows[s] \in Row /\ [rows[s] EXCEPT !.ended = reason] \in Row
         /\ [rows[s] EXCEPT !.ended = reason].first = rows[s].first
         /\ [rows[s] EXCEPT !.ended = reason].ended = reason
  <2> SUFFICES ASSUME NEW s \in 1..Len(rows)
               PROVE  rows[s] \in Row /\ [rows[s] EXCEPT !.ended = reason] \in Row
                      /\ [rows[s] EXCEPT !.ended = reason].first = rows[s].first
                      /\ [rows[s] EXCEPT !.ended = reason].ended = reason
    OBVIOUS
  <2>1. rows[s] \in Row
    BY <1>1
  <2> QED
    BY <2>1 DEF Row
<1>3. these = [s \in 1..Len(rows) |->
                 IF rows[s].first = f /\ Live(s) THEN [rows[s] EXCEPT !.ended = reason] ELSE rows[s]]
  BY <1>1 DEF Revoked
<1> HIDE DEF these
<1>4. these \in [1..Len(rows) -> Row]
  BY <1>2, <1>3
<1>5. these \in Seq(Row) /\ Len(these) = Len(rows)
  BY <1>1, <1>4
<1>6. \A s \in 1..Len(rows) : Live(s) <=> rows[s].ended = "live"
  BY <1>1 DEF Live
<1>7. \A s \in 1..Len(rows) : /\ these[s].first = rows[s].first
                              /\ rows[s].ended # "live" => these[s].ended = rows[s].ended
  BY <1>2, <1>3, <1>6
<1>8. \A s \in 1..Len(rows) : these[s].ended = reason =>
         rows[s].ended = reason \/ (rows[s].ended = "live" /\ rows[s].first = f)
  BY <1>3, <1>6
<1> QED
  BY <1>5, <1>7, <1>8 DEF Ends, these

LEMMA OthersStay ==
  ASSUME RowsOK, NEW t \in 1..Len(rows), OthersEnded(t), Ends(rows')
  PROVE  OthersEnded(t)'
  BY DEF RowsOK, Ends, OthersEnded

(* A step that ends sessions, or none, and refreshes that did not succeed. *)
LEMMA EndingStep ==
  ASSUME SessionsOK, Ends(rows'), jar' \in {jar, 0}, lost' = lost,
         leaving'.token \in 0..Len(rows),
         exchange' \in [Exchange -> Exchanges],
         \A x \in Exchange : exchange'[x] = exchange[x]
           \/ /\ exchange'[x].stage \in {"idle", "failed"} /\ exchange[x].stage # "ok"
              /\ exchange'[x].token <= Len(rows)
              /\ exchange'[x].heard => exchange[x].heard
              /\ exchange'[x].stage # "idle" => exchange'[x].heard,
         lost = 0 => \A s \in 1..Len(rows) : rows'[s].ended # "reuse_detected"
  PROVE  SessionsOK'
<1>0. RowsOK /\ Len(rows') = Len(rows) /\ Len(rows) \in Nat
  BY DEF SessionsOK, RowsOK, Ends
<1>1. \A x \in Exchange : exchange'[x].token <= Len(rows')
  BY <1>0 DEF RowsOK
<1> DEFINE Known(x) == exchange[x].token \in 0..Len(rows)
<1>7. ASSUME NEW x \in Exchange PROVE Known(x)
  <2>1. exchange[x].token \in Nat /\ exchange[x].token <= Len(rows)
    BY <1>0 DEF RowsOK, Exchanges
  <2> QED
    BY <1>0, <2>1
<1>2. \A x, y \in Exchange : exchange'[x].heard /\ exchange'[y].heard => x = y
  BY <1>0 DEF RowsOK
<1>3. RowsOK'
  <2>1. rows' \in Seq(Row) /\ \A s \in 1..Len(rows') : rows'[s].first <= s
    BY <1>0 DEF RowsOK, Ends
  <2>2. jar' \in 0..Len(rows') /\ leaving'.token \in 0..Len(rows') /\ lost' \in Nat
    BY <1>0 DEF RowsOK
  <2> QED
    BY <1>1, <1>2, <2>1, <2>2 DEF RowsOK
<1>4. ASSUME NEW x \in Exchange PROVE FoundOK(x)'
  <2>1. CASE exchange'[x].stage \in {"idle", "failed"}
    BY <2>1 DEF FoundOK
  <2>2. CASE exchange'[x] = exchange[x] /\ exchange[x].stage = "read"
    <3>1. FoundOK(x) /\ Known(x)
      BY <1>7 DEF SessionsOK
    <3>2. CASE exchange[x].found \notin {"missing", "live"}
      <4>1. exchange[x].token \in 1..Len(rows) /\ rows[exchange[x].token].ended # "live"
        BY <1>0, <2>2, <3>1, <3>2 DEF FoundOK
      <4>2. rows'[exchange[x].token].ended # "live"
        BY <4>1 DEF Ends
      <4> QED
        BY <2>2, <3>1, <3>2, <4>2 DEF FoundOK
    <3>3. CASE exchange[x].found \in {"missing", "live"}
      BY <2>2, <3>1, <3>3 DEF FoundOK
    <3> QED
      BY <3>2, <3>3
  <2> QED
    BY <2>1, <2>2 DEF FoundOK
<1>5. ASSUME lost = 0 PROVE Carried'
  <2>0. Carried
    BY <1>5 DEF SessionsOK
  <2>1. \A x \in Exchange : exchange'[x].stage # "idle" => exchange'[x].heard
    BY <2>0 DEF Carried
  <2>2. ASSUME NEW x \in Exchange, exchange'[x].stage \in {"sent", "read", "ok"},
               exchange'[x].token # 0
        PROVE  OthersEnded(exchange[x].token)'
    <3>1. exchange'[x] = exchange[x]
      BY <2>2
    <3>2. exchange[x].token \in 1..Len(rows) /\ OthersEnded(exchange[x].token)
      BY <1>7, <2>0, <2>2, <3>1 DEF Carried
    <3>3. \A t \in 1..Len(rows) : OthersEnded(t) =>
             \A s \in 1..Len(rows') : s # t /\ rows'[s].first = rows'[t].first
                                         => rows'[s].ended # "live"
      BY <1>0 DEF Ends, OthersEnded, RowsOK
    <3> QED
      BY <3>1, <3>2, <3>3 DEF OthersEnded
  <2>3. ASSUME jar' # 0, \A x \in Exchange : exchange'[x].stage # "ok"
        PROVE  OthersEnded(jar)'
    <3>1. jar' = jar /\ jar \in 1..Len(rows)
      BY <1>0, <2>3 DEF RowsOK
    <3>2. OthersEnded(jar)
      BY <2>0, <2>3, <3>1 DEF Carried
    <3> QED
      BY <1>0, <3>1, <3>2 DEF Ends, OthersEnded, RowsOK
  <2> QED
    BY <2>1, <2>2, <2>3 DEF Carried
<1>6. lost' = 0 => Carried' /\ \A s \in 1..Len(rows') : rows'[s].ended # "reuse_detected"
  BY <1>0, <1>5
<1> QED
  BY <1>3, <1>4, <1>6 DEF SessionsOK

LEMMA RowsEnds == ASSUME RowsOK PROVE Ends(rows)
  BY DEF RowsOK, Ends

(* Steps that leave the refreshes alone. *)
LEMMA QuietStep ==
  ASSUME SessionsOK, Ends(rows'), jar' \in {jar, 0}, lost' = lost, exchange' = exchange,
         leaving'.token \in 0..Len(rows),
         lost = 0 => \A s \in 1..Len(rows) : rows'[s].ended # "reuse_detected"
  PROVE  SessionsOK'
<1>1. exchange' \in [Exchange -> Exchanges]
  BY DEF SessionsOK, RowsOK
<1> QED
  BY <1>1, EndingStep

LEMMA PageStep ==
  ASSUME SessionsOK, UNCHANGED <<rows, jar, exchange, leaving, lost>>
  PROVE  SessionsOK'
<1>1. RowsOK /\ Ends(rows) /\ leaving.token \in 0..Len(rows)
  BY RowsEnds DEF SessionsOK, RowsOK
<1> QED
  BY <1>1, QuietStep DEF SessionsOK

(* A row that is appended is the first of its family, or succeeds in it. *)
LEMMA AppendRow ==
  ASSUME RowsOK, NEW these, Ends(these), NEW f \in Nat, f <= Len(rows) + 1,
         rows' = Append(these, [first |-> f, ended |-> "live"])
  PROVE  /\ rows' \in Seq(Row) /\ Len(rows') = Len(rows) + 1
         /\ \A s \in 1..Len(rows) : rows'[s] = these[s]
         /\ rows'[Len(rows) + 1].first = f /\ rows'[Len(rows) + 1].ended = "live"
         /\ \A s \in 1..Len(rows') : rows'[s].first <= s
<1>1. [first |-> f, ended |-> "live"] \in Row
  BY DEF Row, Ended
<1>2. rows' \in Seq(Row) /\ Len(rows') = Len(rows) + 1
  BY <1>1 DEF Ends, RowsOK
<1>3. \A s \in 1..Len(rows) : rows'[s] = these[s]
  BY DEF Ends, RowsOK
<1>4. rows'[Len(rows) + 1] = [first |-> f, ended |-> "live"]
  BY DEF Ends, RowsOK
<1>5. \A s \in 1..Len(rows) : rows'[s].first <= s
  BY <1>3 DEF Ends, RowsOK
<1> QED
  BY <1>2, <1>3, <1>4, <1>5 DEF RowsOK

(* A sign-in opens a family of its own. *)
LEMMA OpenStep ==
  ASSUME SessionsOK, OpenSession
  PROVE  SessionsOK'
<1> DEFINE new == Len(rows) + 1
<1>0. RowsOK /\ Len(rows) \in Nat /\ Ends(rows)
  BY RowsEnds DEF SessionsOK, RowsOK
<1>1. rows' = Append(rows, [first |-> new, ended |-> "live"]) /\ jar' = new
        /\ UNCHANGED <<exchange, leaving, lost>>
  BY DEF OpenSession
<1>2. /\ rows' \in Seq(Row) /\ Len(rows') = new
      /\ \A s \in 1..Len(rows) : rows'[s] = rows[s]
      /\ rows'[new].first = new /\ rows'[new].ended = "live"
      /\ \A s \in 1..Len(rows') : rows'[s].first <= s
  BY <1>0, <1>1, AppendRow
<1>3. \A x \in Exchange : exchange[x].token \in 0..Len(rows)
  BY <1>0 DEF RowsOK, Exchanges
<1>4. RowsOK'
  <2>1. jar' \in 0..Len(rows') /\ leaving'.token \in 0..Len(rows') /\ lost' \in Nat
    BY <1>0, <1>1, <1>2 DEF RowsOK
  <2>2. \A x \in Exchange : exchange'[x].token <= Len(rows')
    BY <1>0, <1>1, <1>2, <1>3
  <2> QED
    BY <1>0, <1>1, <1>2, <2>1, <2>2 DEF RowsOK
<1>5. ASSUME NEW x \in Exchange PROVE FoundOK(x)'
  BY <1>0, <1>1, <1>2, <1>3 DEF SessionsOK, FoundOK
<1>6. \A t \in 1..Len(rows) : OthersEnded(t) =>
         \A s \in 1..Len(rows') : s # t /\ rows'[s].first = rows'[t].first => rows'[s].ended # "live"
  <2> SUFFICES ASSUME NEW t \in 1..Len(rows), OthersEnded(t), NEW s \in 1..Len(rows'),
                      s # t, rows'[s].first = rows'[t].first
               PROVE  rows'[s].ended # "live"
    OBVIOUS
  <2>1. rows[t] \in Row /\ rows[t].first <= t /\ rows'[t] = rows[t]
    BY <1>0, <1>2 DEF RowsOK
  <2>2. rows[t].first \in Nat /\ rows[t].first # new
    BY <1>0, <2>1 DEF Row
  <2>3. s \in 1..Len(rows)
    BY <1>0, <1>2, <2>1, <2>2
  <2> QED
    BY <1>2, <2>1, <2>3 DEF OthersEnded
<1>7. OthersEnded(jar)'
  <2>1. \A s \in 1..Len(rows') : s # new => rows'[s].first <= s /\ s < new
    BY <1>0, <1>2
  <2>2. \A s \in 1..Len(rows') : s # new => rows'[s].first # new
    <3> SUFFICES ASSUME NEW s \in 1..Len(rows'), s # new PROVE rows'[s].first # new
      OBVIOUS
    <3>1. rows'[s] \in Row
      BY <1>2
    <3>2. rows'[s].first \in Nat
      BY <3>1 DEF Row
    <3> QED
      BY <1>0, <2>1, <3>2
  <2> QED
    BY <1>1, <1>2, <2>2 DEF OthersEnded
<1>8. lost = 0 => Carried'
  <2> SUFFICES ASSUME lost = 0 PROVE Carried'
    OBVIOUS
  <2>1. ASSUME NEW x \in Exchange, exchange[x].stage \in {"sent", "read", "ok"},
               exchange[x].token # 0
        PROVE  OthersEnded(exchange[x].token)'
    BY <1>1, <1>3, <1>6, <2>1 DEF SessionsOK, Carried, OthersEnded
  <2> QED
    BY <1>1, <1>7, <2>1 DEF SessionsOK, Carried
<1>9. lost = 0 => \A s \in 1..Len(rows') : rows'[s].ended # "reuse_detected"
  BY <1>0, <1>2 DEF SessionsOK
<1> QED
  BY <1>1, <1>4, <1>5, <1>8, <1>9 DEF SessionsOK

(* A refresh that begins is the only one, and carries the page's token. *)
LEMMA StartStep ==
  ASSUME SessionsOK, NEW c \in Call, NEW x \in Exchange, StartRefresh(c, x)
  PROVE  SessionsOK'
<1> DEFINE sent == [stage |-> "sent", token |-> jar, found |-> "missing", heard |-> TRUE]
<1>0. RowsOK /\ jar \in 0..Len(rows) /\ Len(rows) \in Nat
  BY DEF SessionsOK, RowsOK
<1>1. /\ exchange' = [exchange EXCEPT ![x] = sent] /\ exchange[x] = NoExchange
      /\ \A y \in Exchange : ~exchange[y].heard
      /\ UNCHANGED <<rows, jar, leaving, lost>>
  BY DEF StartRefresh, MayRefresh, InFlight
<1>2. sent \in Exchanges
  BY <1>0 DEF Exchanges, Stage
<1>3. \A y \in Exchange : exchange'[y] = IF y = x THEN sent ELSE exchange[y]
  BY <1>0, <1>1 DEF RowsOK
<1>4. RowsOK'
  BY <1>0, <1>1, <1>2, <1>3 DEF RowsOK
<1>5. ASSUME NEW y \in Exchange PROVE FoundOK(y)'
  BY <1>1, <1>3 DEF SessionsOK, FoundOK
<1>6. ASSUME lost = 0 PROVE Carried'
  <2>0. Carried
    BY <1>6 DEF SessionsOK
  <2>1. \A y \in Exchange : y # x => exchange'[y].stage = "idle"
    BY <1>1, <1>3, <2>0 DEF Carried
  <2>2. \A y \in Exchange : exchange[y].stage # "ok"
    BY <1>1, <2>0 DEF Carried
  <2>3. jar # 0 => OthersEnded(jar)
    BY <2>0, <2>2 DEF Carried
  <2>4. jar # 0 => OthersEnded(jar)'
    BY <1>1, <2>3 DEF OthersEnded
  <2>5. ASSUME NEW y \in Exchange, exchange'[y].stage \in {"sent", "read", "ok"},
               exchange'[y].token # 0
        PROVE  OthersEnded(exchange[y].token)'
    <3>1. y = x /\ exchange'[y].token = jar
      BY <1>3, <2>1, <2>5
    <3>2. OthersEnded(jar)'
      BY <2>4, <2>5, <3>1
    <3> QED
      BY <1>1, <3>1, <3>2 DEF OthersEnded
  <2> QED
    BY <1>1, <1>3, <2>1, <2>4, <2>5 DEF Carried
<1> QED
  BY <1>1, <1>4, <1>5, <1>6 DEF SessionsOK

LEMMA FindStep ==
  ASSUME SessionsOK, NEW x \in Exchange, FindSession(x)
  PROVE  SessionsOK'
<1> DEFINE t == exchange[x].token
<1> DEFINE found == IF t = 0 THEN "missing" ELSE rows[t].ended
<1>0. RowsOK /\ Len(rows) \in Nat
  BY DEF SessionsOK, RowsOK
<1>1. exchange[x].stage = "sent" /\ UNCHANGED <<rows, jar, leaving, lost>>
        /\ exchange' = [exchange EXCEPT ![x].stage = "read", ![x].found = found]
  BY DEF FindSession
<1>2. exchange[x] \in Exchanges /\ t \in 0..Len(rows)
  BY <1>0 DEF RowsOK, Exchanges
<1>3. found \in Ended \union {"missing"} /\ (found = "missing" <=> t = 0)
  <2>1. t # 0 => rows[t] \in Row
    BY <1>0, <1>2 DEF RowsOK
  <2>2. t # 0 => rows[t].ended \in Ended
    BY <2>1 DEF Row
  <2> QED
    BY <2>2 DEF Ended
<1>4. PICK read \in Exchanges :
         /\ exchange' = [exchange EXCEPT ![x] = read]
         /\ read.stage = "read" /\ read.token = t /\ read.found = found
         /\ read.heard = exchange[x].heard
  <2> DEFINE read == [exchange[x] EXCEPT !.stage = "read", !.found = found]
  <2> HIDE DEF found
  <2>1. /\ read \in Exchanges /\ read.stage = "read" /\ read.token = t /\ read.found = found
        /\ read.heard = exchange[x].heard
    BY <1>2, <1>3 DEF Exchanges, Stage
  <2>2. exchange' = [exchange EXCEPT ![x] = read]
    BY <1>1
  <2> QED
    BY <2>1, <2>2
<1>5. \A y \in Exchange : exchange'[y] = IF y = x THEN read ELSE exchange[y]
  BY <1>0, <1>4 DEF RowsOK
<1>6. RowsOK'
  BY <1>0, <1>1, <1>2, <1>4, <1>5 DEF RowsOK
<1>7. ASSUME NEW y \in Exchange PROVE FoundOK(y)'
  <2>1. CASE y = x
    <3>1. exchange'[y].token = t /\ exchange'[y].found = found /\ rows' = rows
      BY <1>1, <1>4, <1>5, <2>1
    <3>2. found \notin {"missing", "live"} => rows[t].ended # "live"
      BY <1>3
    <3> HIDE DEF found
    <3> QED
      BY <1>3, <3>1, <3>2 DEF FoundOK
  <2>2. CASE y # x
    BY <1>1, <1>5, <2>2 DEF SessionsOK, FoundOK
  <2> QED
    BY <2>1, <2>2
<1>8. ASSUME lost = 0 PROVE Carried'
  <2>0. Carried
    BY <1>8 DEF SessionsOK
  <2>1. ASSUME NEW y \in Exchange, exchange'[y].stage \in {"sent", "read", "ok"},
               exchange'[y].token # 0
        PROVE  OthersEnded(exchange[y].token)'
    <3>1. exchange'[y].token = exchange[y].token /\ exchange[y].stage \in {"sent", "read", "ok"}
      BY <1>1, <1>4, <1>5, <2>1
    <3> QED
      BY <1>1, <2>0, <2>1, <3>1 DEF Carried, OthersEnded
  <2>2. \A y \in Exchange : exchange'[y].stage # "idle" => exchange'[y].heard
    BY <1>1, <1>4, <1>5, <2>0 DEF Carried
  <2>3. \A y \in Exchange : exchange'[y].stage # "ok" <=> exchange[y].stage # "ok"
    BY <1>1, <1>4, <1>5
  <2>4. jar # 0 /\ (\A y \in Exchange : exchange[y].stage # "ok") => OthersEnded(jar)'
    BY <1>1, <2>0 DEF Carried, OthersEnded
  <2> QED
    BY <1>1, <2>1, <2>2, <2>3, <2>4 DEF Carried
<1> QED
  BY <1>1, <1>6, <1>7, <1>8 DEF SessionsOK

(* How the server's last step leaves the refresh. *)
LEMMA Answered ==
  ASSUME RowsOK, NEW x \in Exchange, NEW stage \in {"ok", "failed"}, Answer(x, stage),
         Len(rows') \in Nat
  PROVE  /\ exchange' \in [Exchange -> Exchanges]
         /\ \A y \in Exchange : y # x => exchange'[y] = exchange[y]
         /\ exchange'[x] = NoExchange
              \/ /\ exchange'[x].stage = stage /\ exchange'[x].token = Len(rows')
                 /\ exchange'[x].heard /\ exchange[x].heard
<1> DEFINE answer == IF exchange[x].heard
                     THEN [exchange[x] EXCEPT !.stage = stage, !.token = Len(rows')]
                     ELSE NoExchange
<1>1. exchange[x] \in Exchanges
  BY DEF RowsOK
<1>2. NoExchange \in Exchanges
  BY DEF NoExchange, Exchanges, Stage, Ended
<1>3. exchange[x].heard => /\ answer \in Exchanges
                           /\ answer.stage = stage /\ answer.token = Len(rows') /\ answer.heard
  BY <1>1 DEF Exchanges, Stage
<1>4. exchange' = [exchange EXCEPT ![x] = answer]
  BY DEF Answer
<1>5. ~exchange[x].heard => answer = NoExchange
  OBVIOUS
<1> HIDE DEF answer
<1>6. \A y \in Exchange : exchange'[y] = IF y = x THEN answer ELSE exchange[y]
  BY <1>4 DEF RowsOK
<1>7. exchange' \in [Exchange -> Exchanges]
  BY <1>2, <1>3, <1>4, <1>5 DEF RowsOK
<1> QED
  BY <1>3, <1>5, <1>6, <1>7

(* A rotation ends the row that it replaces, whatever was committed since it
   was read as live. *)
LEMMA RotateStep ==
  ASSUME SessionsOK, NEW x \in Exchange, RotateSession(x)
  PROVE  SessionsOK'
<1> DEFINE t == exchange[x].token
<1> DEFINE new == Len(rows) + 1
<1> DEFINE these == [rows EXCEPT ![t].ended = "rotated"]
<1>0. RowsOK /\ Len(rows) \in Nat
  BY DEF SessionsOK, RowsOK
<1>1. /\ exchange[x].stage = "read" /\ exchange[x].found = "live" /\ Answer(x, "ok")
      /\ rows' = Append(these, [first |-> rows[t].first, ended |-> "live"])
      /\ UNCHANGED <<jar, leaving, lost>>
  BY DEF RotateSession
<1>2. \A y \in Exchange : exchange[y].token \in 0..Len(rows)
  BY <1>0 DEF RowsOK, Exchanges
<1>3. t \in 1..Len(rows) /\ rows[t] \in Row /\ rows[t].first \in Nat /\ rows[t].first <= t
  <2>1. t # 0
    BY <1>1 DEF SessionsOK, FoundOK
  <2>2. t \in 1..Len(rows) /\ rows[t] \in Row /\ rows[t].first <= t
    BY <1>0, <1>2, <2>1 DEF RowsOK
  <2> QED
    BY <2>2 DEF Row
<1>4. PICK row \in Row : /\ row.first = rows[t].first /\ row.ended = "rotated"
                         /\ these = [rows EXCEPT ![t] = row]
  <2> DEFINE row == [rows[t] EXCEPT !.ended = "rotated"]
  <2>1. row \in Row /\ row.first = rows[t].first /\ row.ended = "rotated"
    BY <1>3 DEF Row, Ended
  <2> QED
    BY <2>1
<1> HIDE DEF these
<1>5. these \in Seq(Row) /\ Len(these) = Len(rows)
        /\ \A s \in 1..Len(rows) : these[s] = IF s = t THEN row ELSE rows[s]
  BY <1>0, <1>3, <1>4 DEF RowsOK
<1>6. \A s \in 1..Len(rows) : /\ these[s].first = rows[s].first
                              /\ these[s].ended = "live" => s # t /\ rows[s].ended = "live"
                              /\ these[s].ended = "reuse_detected" => rows[s].ended = "reuse_detected"
  BY <1>4, <1>5
<1>7. /\ rows' \in Seq(Row) /\ Len(rows') = new
      /\ \A s \in 1..Len(rows) : rows'[s] = these[s]
      /\ rows'[new].first = rows[t].first /\ rows'[new].ended = "live"
  <2>1. [first |-> rows[t].first, ended |-> "live"] \in Row
    BY <1>3 DEF Row, Ended
  <2> QED
    BY <1>0, <1>1, <1>5, <2>1
<1>8. \A s \in 1..Len(rows') : rows'[s].first <= s
  BY <1>0, <1>3, <1>6, <1>7 DEF RowsOK
<1>9. /\ exchange' \in [Exchange -> Exchanges]
      /\ \A y \in Exchange : y # x => exchange'[y] = exchange[y]
      /\ exchange'[x] = NoExchange
           \/ /\ exchange'[x].stage = "ok" /\ exchange'[x].token = new
              /\ exchange'[x].heard /\ exchange[x].heard
  BY <1>0, <1>1, <1>7, Answered
<1>10. NoExchange.stage = "idle" /\ NoExchange.token = 0 /\ NoExchange.heard = FALSE
  BY DEF NoExchange
<1>11. RowsOK'
  <2>1. \A y \in Exchange : exchange'[y].token <= Len(rows')
    BY <1>0, <1>2, <1>7, <1>9, <1>10
  <2>2. \A y, z \in Exchange : exchange'[y].heard /\ exchange'[z].heard => y = z
    BY <1>0, <1>9, <1>10 DEF RowsOK
  <2>3. jar' \in 0..Len(rows') /\ leaving'.token \in 0..Len(rows') /\ lost' \in Nat
    BY <1>0, <1>1, <1>7 DEF RowsOK
  <2> QED
    BY <1>7, <1>8, <1>9, <2>1, <2>2, <2>3 DEF RowsOK
<1>12. ASSUME NEW y \in Exchange PROVE FoundOK(y)'
  <2>1. CASE exchange'[y].stage = "read" /\ exchange'[y].found \notin {"missing", "live"}
    <3>1. exchange'[y] = exchange[y]
      BY <1>9, <1>10, <2>1
    <3>2. FoundOK(y) /\ exchange[y].token \in 0..Len(rows)
      BY <1>2 DEF SessionsOK
    <3>3. exchange[y].token \in 1..Len(rows) /\ rows[exchange[y].token].ended # "live"
      BY <2>1, <3>1, <3>2 DEF FoundOK
    <3>4. rows'[exchange[y].token].ended # "live"
      BY <1>6, <1>7, <3>3
    <3> QED
      BY <2>1, <3>1, <3>2, <3>4 DEF FoundOK
  <2>2. CASE ~(exchange'[y].stage = "read" /\ exchange'[y].found \notin {"missing", "live"})
    BY <1>9, <1>10, <2>2 DEF SessionsOK, FoundOK
  <2> QED
    BY <2>1, <2>2
<1>13. ASSUME lost = 0 PROVE Carried'
  <2>0. Carried /\ OthersEnded(t)
    BY <1>1, <1>3, <1>13 DEF SessionsOK, Carried
  <2>1. exchange[x].heard
    BY <1>1, <2>0 DEF Carried
  <2>2. \A y \in Exchange : y # x => exchange'[y].stage = "idle"
    BY <1>0, <1>9, <2>0, <2>1 DEF Carried, RowsOK
  <2>3. \A s \in 1..Len(rows') : s # new /\ rows'[s].first = rows'[new].first
                                    => rows'[s].ended # "live"
    BY <1>0, <1>6, <1>7, <2>0 DEF OthersEnded
  <2>4. ASSUME NEW y \in Exchange, exchange'[y].stage \in {"sent", "read", "ok"}
        PROVE  \A s \in 1..Len(rows') :
                  s # exchange'[y].token /\ rows'[s].first = rows'[exchange'[y].token].first
                     => rows'[s].ended # "live"
    BY <1>9, <1>10, <2>2, <2>3, <2>4
  <2>5. \A y \in Exchange : exchange'[y].stage # "idle" => exchange'[y].heard
    BY <1>9, <1>10, <2>2
  <2>6. (\A y \in Exchange : exchange'[y].stage # "ok") => exchange'[x] = NoExchange
    BY <1>9
  <2>7. exchange'[x] # NoExchange
    <3>1. exchange' = [exchange EXCEPT ![x] = [exchange[x] EXCEPT !.stage = "ok",
                                                                  !.token = Len(rows')]]
      BY <1>1, <2>1 DEF Answer
    <3>2. exchange[x] \in Exchanges
      BY <1>0 DEF RowsOK
    <3>3. [exchange[x] EXCEPT !.stage = "ok", !.token = Len(rows')].stage = "ok"
      BY <3>2 DEF Exchanges
    <3>4. exchange'[x].stage = "ok"
      BY <1>0, <3>1, <3>3 DEF RowsOK
    <3> QED
      BY <1>10, <3>4
  <2> QED
    BY <2>4, <2>5, <2>6, <2>7 DEF Carried, OthersEnded
<1>14. lost = 0 => \A s \in 1..Len(rows') : rows'[s].ended # "reuse_detected"
  BY <1>0, <1>6, <1>7 DEF SessionsOK
<1> QED
  BY <1>1, <1>11, <1>12, <1>13, <1>14 DEF SessionsOK

(* A refresh whose token had ended ends the family, in which nothing else was
   live: reuse ends no session, unless an answer was lost. *)
LEMMA RefuseStep ==
  ASSUME SessionsOK, NEW x \in Exchange, RefuseRefresh(x)
  PROVE  SessionsOK'
<1> DEFINE t == exchange[x].token
<1>0. RowsOK /\ Len(rows) \in Nat /\ FoundOK(x)
  BY DEF SessionsOK, RowsOK
<1>1. exchange[x].stage = "read" /\ Answer(x, "failed") /\ UNCHANGED <<jar, leaving, lost>>
  BY DEF RefuseRefresh
<1>2. exchange[x] \in Exchanges /\ t \in 0..Len(rows)
  BY <1>0 DEF RowsOK, Exchanges
<1>3. \/ rows' = rows
      \/ t # 0 /\ rows' = Revoked(rows[t].first, "revoked")
      \/ /\ t # 0 /\ rows[t].ended # "live"
         /\ rows' = Revoked(rows[t].first, "reuse_detected")
  BY <1>0, <1>1 DEF RefuseRefresh, FoundOK
<1>4. Ends(rows') /\ (lost = 0 => \A s \in 1..Len(rows) : rows'[s].ended # "reuse_detected")
  <2>1. CASE rows' = rows
    BY <1>0, <2>1, RowsEnds DEF SessionsOK
  <2>2. CASE rows' = Revoked(rows[t].first, "revoked")
    <3> DEFINE f == rows[t].first
    <3>0. "revoked" \in Ended
      BY DEF Ended
    <3>1. Ends(Revoked(f, "revoked"))
            /\ \A s \in 1..Len(rows) : Revoked(f, "revoked")[s].ended = "revoked" =>
                 rows[s].ended = "revoked" \/ (rows[s].ended = "live" /\ rows[s].first = f)
      BY <1>0, <3>0, RevokedEnds
    <3>2. \A s \in 1..Len(rows) : rows'[s].ended = "reuse_detected" => rows[s].ended = "reuse_detected"
      <4> SUFFICES ASSUME NEW s \in 1..Len(rows), rows'[s].ended = "reuse_detected"
                   PROVE  rows[s].ended = "reuse_detected"
        OBVIOUS
      <4>1. rows'[s] = rows[s] \/ rows'[s] = [rows[s] EXCEPT !.ended = "revoked"]
        BY <1>0, <2>2 DEF Revoked, RowsOK
      <4>2. rows[s] \in Row
        BY <1>0 DEF RowsOK
      <4>3. [rows[s] EXCEPT !.ended = "revoked"].ended = "revoked"
        BY <4>2 DEF Row
      <4> QED
        BY <4>1, <4>3
    <3> QED
      BY <2>2, <3>1, <3>2 DEF SessionsOK
  <2>3. CASE t # 0 /\ rows[t].ended # "live" /\ rows' = Revoked(rows[t].first, "reuse_detected")
    <3> DEFINE f == rows[t].first
    <3>0. "reuse_detected" \in Ended
      BY DEF Ended
    <3>1. Ends(Revoked(f, "reuse_detected"))
            /\ \A s \in 1..Len(rows) : Revoked(f, "reuse_detected")[s].ended = "reuse_detected" =>
                 rows[s].ended = "reuse_detected" \/ (rows[s].ended = "live" /\ rows[s].first = f)
      BY <1>0, <3>0, RevokedEnds
    <3>2. ASSUME lost = 0, NEW s \in 1..Len(rows)
          PROVE  ~(rows[s].ended = "live" /\ rows[s].first = f)
      <4>1. OthersEnded(t)
        BY <1>1, <2>3, <3>2 DEF SessionsOK, Carried
      <4> QED
        BY <2>3, <4>1 DEF OthersEnded
    <3> QED
      BY <2>3, <3>1, <3>2 DEF SessionsOK
  <2> QED
    BY <1>3, <2>1, <2>2, <2>3
<1>5. /\ exchange' \in [Exchange -> Exchanges]
      /\ \A y \in Exchange : y # x => exchange'[y] = exchange[y]
      /\ exchange'[x] = NoExchange
           \/ /\ exchange'[x].stage = "failed" /\ exchange'[x].token = Len(rows')
              /\ exchange'[x].heard /\ exchange[x].heard
  BY <1>0, <1>1, <1>4, Answered DEF Ends
<1>6. NoExchange.stage = "idle" /\ NoExchange.token = 0 /\ NoExchange.heard = FALSE
  BY DEF NoExchange
<1>7. \A y \in Exchange : exchange'[y] = exchange[y]
         \/ /\ exchange'[y].stage \in {"idle", "failed"} /\ exchange[y].stage # "ok"
            /\ exchange'[y].token <= Len(rows)
            /\ exchange'[y].heard => exchange[y].heard
            /\ exchange'[y].stage # "idle" => exchange'[y].heard
  BY <1>0, <1>1, <1>4, <1>5, <1>6 DEF Ends
<1>8. leaving'.token \in 0..Len(rows) /\ jar' = jar /\ lost' = lost
  BY <1>0, <1>1 DEF RowsOK
<1> QED
  BY <1>4, <1>5, <1>7, <1>8, EndingStep

LEMMA ReceiveStep ==
  ASSUME SessionsOK, NEW x \in Exchange, ReceiveRefresh(x)
  PROVE  SessionsOK'
<1>0. RowsOK /\ Len(rows) \in Nat
  BY DEF SessionsOK, RowsOK
<1>1. /\ exchange[x].stage \in {"ok", "failed"}
      /\ jar' = IF exchange[x].stage = "ok" THEN exchange[x].token ELSE jar
      /\ exchange' = [exchange EXCEPT ![x] = NoExchange]
      /\ UNCHANGED <<rows, leaving, lost>>
  BY DEF ReceiveRefresh
<1>2. \A y \in Exchange : exchange[y].token \in 0..Len(rows)
  BY <1>0 DEF RowsOK, Exchanges
<1>3. NoExchange.stage = "idle" /\ NoExchange.token = 0 /\ NoExchange.heard = FALSE
        /\ NoExchange \in Exchanges
  BY DEF NoExchange, Exchanges, Stage, Ended
<1>4. \A y \in Exchange : exchange'[y] = IF y = x THEN NoExchange ELSE exchange[y]
  BY <1>0, <1>1 DEF RowsOK
<1>5. RowsOK'
  BY <1>0, <1>1, <1>2, <1>3, <1>4 DEF RowsOK
<1>6. ASSUME NEW y \in Exchange PROVE FoundOK(y)'
  BY <1>1, <1>3, <1>4 DEF SessionsOK, FoundOK
<1>7. ASSUME lost = 0 PROVE Carried'
  <2>0. Carried
    BY <1>7 DEF SessionsOK
  <2>1. ASSUME NEW y \in Exchange, exchange'[y].stage \in {"sent", "read", "ok"},
               exchange'[y].token # 0
        PROVE  OthersEnded(exchange[y].token)'
    BY <1>1, <1>3, <1>4, <2>0, <2>1 DEF Carried, OthersEnded
  <2>2. \A y \in Exchange : y # x => exchange[y].stage = "idle"
    BY <1>0, <1>1, <2>0 DEF Carried, RowsOK
  <2>3. jar' # 0 => OthersEnded(jar')
    <3>1. CASE exchange[x].stage = "ok"
      BY <1>1, <2>0, <3>1 DEF Carried
    <3>2. CASE exchange[x].stage = "failed"
      BY <1>1, <2>0, <2>2, <3>2 DEF Carried
    <3> QED
      BY <1>1, <3>1, <3>2
  <2>4. jar' # 0 => OthersEnded(jar)'
    BY <1>1, <2>3 DEF OthersEnded
  <2>5. \A y \in Exchange : exchange'[y].stage # "idle" => exchange'[y].heard
    BY <1>3, <1>4, <2>0 DEF Carried
  <2>6. \A y \in Exchange : exchange'[y].stage \in {"sent", "read", "ok"} /\ exchange'[y].token # 0
           => exchange'[y] = exchange[y]
    BY <1>3, <1>4
  <2> QED
    BY <2>1, <2>4, <2>5, <2>6 DEF Carried, OthersEnded
<1> QED
  BY <1>1, <1>5, <1>6, <1>7 DEF SessionsOK

(* From the first lost answer on, only what the rows are is kept. *)
LEMMA LoseStep ==
  ASSUME SessionsOK, NEW x \in Exchange, LoseAnswer(x)
  PROVE  SessionsOK'
<1>0. RowsOK /\ Len(rows) \in Nat /\ lost \in Nat
  BY DEF SessionsOK, RowsOK
<1>1. /\ lost' = lost + 1 /\ jar' = jar /\ UNCHANGED <<rows, leaving>>
      /\ exchange' = [exchange EXCEPT ![x] = IF exchange[x].stage \in {"ok", "failed"}
                                             THEN NoExchange
                                             ELSE [exchange[x] EXCEPT !.heard = FALSE]]
  BY DEF LoseAnswer
<1>2. NoExchange.stage = "idle" /\ NoExchange.token = 0 /\ NoExchange.heard = FALSE
        /\ NoExchange \in Exchanges
  BY DEF NoExchange, Exchanges, Stage, Ended
<1> DEFINE unheard == [exchange[x] EXCEPT !.heard = FALSE]
<1>3. /\ unheard \in Exchanges /\ unheard.heard = FALSE
      /\ unheard.stage = exchange[x].stage
      /\ unheard.token = exchange[x].token /\ unheard.found = exchange[x].found
  <2>1. exchange[x] \in Exchanges
    BY <1>0 DEF RowsOK
  <2> QED
    BY <2>1 DEF Exchanges
<1> HIDE DEF unheard
<1>4. PICK left \in Exchanges :
         /\ exchange' = [exchange EXCEPT ![x] = left] /\ left.heard = FALSE
         /\ left = NoExchange \/ left = unheard
  BY <1>1, <1>2, <1>3 DEF unheard
<1>5. \A y \in Exchange : exchange'[y] = IF y = x THEN left ELSE exchange[y]
  BY <1>0, <1>4 DEF RowsOK
<1>6. RowsOK'
  <2>1. \A y \in Exchange : exchange'[y].token <= Len(rows)
    BY <1>0, <1>2, <1>3, <1>4, <1>5 DEF RowsOK
  <2>2. lost' \in Nat /\ jar' \in 0..Len(rows) /\ leaving'.token \in 0..Len(rows)
    BY <1>0, <1>1 DEF RowsOK
  <2>3. exchange' \in [Exchange -> Exchanges]
    BY <1>0, <1>4 DEF RowsOK
  <2>4. \A y, z \in Exchange : exchange'[y].heard /\ exchange'[z].heard => y = z
    BY <1>0, <1>4, <1>5 DEF RowsOK
  <2>5. rows' \in Seq(Row) /\ \A s \in 1..Len(rows') : rows'[s].first <= s
    BY <1>0, <1>1 DEF RowsOK
  <2> QED
    BY <1>1, <2>1, <2>2, <2>3, <2>4, <2>5 DEF RowsOK
<1>7. ASSUME NEW y \in Exchange PROVE FoundOK(y)'
  BY <1>1, <1>2, <1>3, <1>4, <1>5 DEF SessionsOK, FoundOK
<1>8. lost' # 0
  BY <1>0, <1>1
<1> QED
  BY <1>6, <1>7, <1>8 DEF SessionsOK

LEMMA RevokeStep ==
  ASSUME SessionsOK, NEW f, NEW reason \in {"signed_out", "revoked"}, rows' = Revoked(f, reason),
         jar' = jar, lost' = lost, exchange' = exchange, leaving'.token = leaving.token
  PROVE  SessionsOK'
<1>0. RowsOK /\ reason \in Ended
  BY DEF SessionsOK, Ended
<1>1. Ends(rows')
  BY <1>0, RevokedEnds
<1>2. \A s \in 1..Len(rows) : rows'[s].ended = "reuse_detected" => rows[s].ended = "reuse_detected"
  <2> SUFFICES ASSUME NEW s \in 1..Len(rows), rows'[s].ended = "reuse_detected"
               PROVE  rows[s].ended = "reuse_detected"
    OBVIOUS
  <2>1. rows'[s] = rows[s] \/ rows'[s] = [rows[s] EXCEPT !.ended = reason]
    BY <1>0 DEF Revoked, RowsOK
  <2>2. rows[s] \in Row
    BY <1>0 DEF RowsOK
  <2>3. [rows[s] EXCEPT !.ended = reason].ended = reason
    BY <2>2 DEF Row
  <2> QED
    BY <2>1, <2>3
<1>3. leaving'.token \in 0..Len(rows)
  BY <1>0 DEF RowsOK
<1> QED
  BY <1>1, <1>2, <1>3, QuietStep DEF SessionsOK

LEMMA SessionsStep == SessionsOK /\ [Next]_vars => SessionsOK'
<1> SUFFICES ASSUME SessionsOK, [Next]_vars PROVE SessionsOK'
  OBVIOUS
<1>0. RowsOK /\ Ends(rows)
  BY RowsEnds DEF SessionsOK
<1>1. CASE UNCHANGED family
  BY <1>1, PageStep DEF family
<1>2. CASE \E c \in Call : Send(c) \/ Serve(c) \/ Refuse(c) \/ AwaitRefresh(c)
  BY <1>2, PageStep DEF Send, Serve, Refuse, AwaitRefresh
<1>3. CASE Reload
  BY <1>3, PageStep DEF Reload
<1>4. CASE SendSignOut
  <2>1. leaving'.token = jar /\ UNCHANGED <<rows, jar, exchange, lost>>
    BY <1>4 DEF SendSignOut
  <2> QED
    BY <1>0, <2>1, QuietStep DEF SessionsOK, RowsOK
<1>5. CASE SignOut
  <2>1. leaving'.token = leaving.token
    <3>1. leaving' = [leaving EXCEPT !.stage = "done"]
      BY <1>5 DEF SignOut
    <3> QED
      BY <3>1
  <2>2. UNCHANGED <<jar, exchange, lost>>
    BY <1>5 DEF SignOut
  <2>3. rows' = rows \/ rows' = Revoked(rows[leaving.token].first, "signed_out")
    BY <1>5 DEF SignOut
  <2>4. CASE rows' = rows
    BY <1>0, <2>1, <2>2, <2>4, QuietStep DEF SessionsOK, RowsOK
  <2> QED
    BY <2>1, <2>2, <2>3, <2>4, RevokeStep
<1>6. CASE ReceiveSignOut
  <2>1. jar' = 0 /\ leaving'.token = 0 /\ UNCHANGED <<rows, exchange, lost>>
    BY <1>6 DEF ReceiveSignOut, Staying
  <2>2. 0 \in 0..Len(rows)
    BY <1>0 DEF RowsOK
  <2> QED
    BY <1>0, <2>1, <2>2, QuietStep DEF SessionsOK
<1>7. CASE RevokeElsewhere
  BY <1>7, RevokeStep DEF RevokeElsewhere
<1>8. CASE \E x \in Exchange : FindSession(x) \/ RotateSession(x) \/ RefuseRefresh(x)
                                 \/ ReceiveRefresh(x) \/ LoseAnswer(x)
  BY <1>8, FindStep, RotateStep, RefuseStep, ReceiveStep, LoseStep
<1>9. CASE \E c \in Call, x \in Exchange : StartRefresh(c, x)
  BY <1>9, StartStep
<1> QED
  BY <1>1, <1>2, <1>3, <1>4, <1>5, <1>6, <1>7, <1>8, <1>9, OpenStep
  DEF Next, FamilyNext, SignIn, vars

(* Calls of one page that are refused side by side end no session for reuse: a
   session ends so only after an answer was lost (sessions.py rotate_session
   and refresh, api.js refreshOnce). *)
THEOREM ReuseIsAReplay == Spec => []OnlyReplaysAreReuse
<1>1. SessionsOK => OnlyReplaysAreReuse
  <2> SUFFICES ASSUME SessionsOK, NEW s \in DOMAIN rows, rows[s].ended = "reuse_detected"
               PROVE  lost > 0
    BY DEF OnlyReplaysAreReuse
  <2>1. s \in 1..Len(rows) /\ lost \in Nat
    BY DEF SessionsOK, RowsOK
  <2> QED
    BY <2>1 DEF SessionsOK
<1> QED
  BY <1>1, SessionsInit, SessionsStep, PTL DEF Spec

----------------------------------------------------------------------------
(* How many ends a family has: an end may be added by a refresh that       *)
(* nobody hears of any more, and by the one the page awaits, if its row    *)
(* has ended since it was read as live.                                    *)
LiveOf(f) == {s \in 1..Len(rows) : rows[s].first = f /\ rows[s].ended = "live"}

Unheard == {x \in Exchange : exchange[x].stage \in {"sent", "read"} /\ ~exchange[x].heard}

Pending(x) ==
  exchange[x].heard /\ exchange[x].stage = "read" /\ exchange[x].found = "live"

Stale(f) ==
  \E x \in Exchange : /\ Pending(x)
                      /\ rows[exchange[x].token].first = f
                      /\ rows[exchange[x].token].ended # "live"

FewEnds(f) ==
  Cardinality(LiveOf(f)) + Cardinality(Unheard) + (IF Stale(f) THEN 1 ELSE 0) <= 1 + lost

EndsOK ==
  /\ Cardinality(Unheard) <= lost
  /\ \A f \in Nat : FewEnds(f)

LEMMA RowSets ==
  ASSUME NEW n \in Nat, NEW live \in SUBSET (1..n)
  PROVE  IsFiniteSet(live) /\ Cardinality(live) \in Nat
<1>1. IsFiniteSet(1..n)
  BY FS_Interval
<1>2. IsFiniteSet(live)
  BY <1>1, FS_Subset
<1> QED
  BY <1>2, FS_CardinalityType

LEMMA ExchangeSets ==
  ASSUME NEW these
  PROVE  LET unheard == {x \in Exchange : these[x].stage \in {"sent", "read"} /\ ~these[x].heard}
         IN  IsFiniteSet(unheard) /\ Cardinality(unheard) \in Nat
<1> DEFINE unheard == {x \in Exchange : these[x].stage \in {"sent", "read"} /\ ~these[x].heard}
<1>1. unheard \subseteq Exchange
  OBVIOUS
<1> HIDE DEF unheard
<1>2. IsFiniteSet(unheard)
  BY <1>1, FS_Subset, FamilyAssumption DEF FamilyAssumption
<1>3. Cardinality(unheard) \in Nat
  BY <1>2, FS_CardinalityType
<1> QED
  BY <1>2, <1>3 DEF unheard

LEMMA EndCounts ==
  ASSUME RowsOK, RowsOK', NEW f
  PROVE  /\ IsFiniteSet(LiveOf(f)) /\ Cardinality(LiveOf(f)) \in Nat
         /\ IsFiniteSet(LiveOf(f)') /\ Cardinality(LiveOf(f)') \in Nat
         /\ IsFiniteSet(Unheard) /\ Cardinality(Unheard) \in Nat
         /\ IsFiniteSet(Unheard') /\ Cardinality(Unheard') \in Nat
         /\ lost \in Nat /\ lost' \in Nat
<1>1. Len(rows) \in Nat /\ Len(rows') \in Nat /\ lost \in Nat /\ lost' \in Nat
  BY DEF RowsOK
<1>2. LiveOf(f) \subseteq 1..Len(rows) /\ LiveOf(f)' \subseteq 1..Len(rows')
  BY DEF LiveOf
<1>3. IsFiniteSet(LiveOf(f)) /\ Cardinality(LiveOf(f)) \in Nat
  BY <1>1, <1>2, RowSets
<1>4. IsFiniteSet(LiveOf(f)') /\ Cardinality(LiveOf(f)') \in Nat
  BY <1>1, <1>2, RowSets
<1> QED
  BY <1>1, <1>3, <1>4, ExchangeSets DEF Unheard

(* Where sessions end and no refresh succeeds: one that turns stale does so
   because a live row of its family ends. *)
LEMMA EndingEnds ==
  ASSUME SessionsOK, SessionsOK', EndsOK, Ends(rows'), lost' = lost,
         Unheard' \subseteq Unheard,
         \A x \in Exchange : Pending(x)' =>
            \/ exchange'[x] = exchange[x]
            \/ rows'[exchange'[x].token].ended = "live"
  PROVE  EndsOK'
<1>0. RowsOK /\ RowsOK' /\ Len(rows') = Len(rows)
  BY DEF SessionsOK, Ends
<1>1. Cardinality(Unheard') <= Cardinality(Unheard)
  BY <1>0, FS_Subset, EndCounts
<1>2. ASSUME NEW f \in Nat PROVE FewEnds(f)'
  <2>1. FewEnds(f)
    BY DEF EndsOK
  <2>2. LiveOf(f)' \subseteq LiveOf(f)
    BY <1>0 DEF LiveOf, Ends
  <2>3. Cardinality(LiveOf(f)') <= Cardinality(LiveOf(f))
    BY <1>0, <2>2, FS_Subset, EndCounts
  <2>4. CASE Stale(f)' => Stale(f)
    BY <1>0, <1>1, <2>1, <2>3, <2>4, EndCounts DEF FewEnds
  <2>5. CASE Stale(f)' /\ ~Stale(f)
    <3>1. PICK x \in Exchange : /\ Pending(x)'
                                /\ rows'[exchange'[x].token].first = f
                                /\ rows'[exchange'[x].token].ended # "live"
      BY <2>5 DEF Stale
    <3>2. PICK t : t = exchange[x].token
      OBVIOUS
    <3>3. exchange'[x] = exchange[x]
      BY <3>1
    <3>4. t \in 1..Len(rows)
      <4>1. exchange[x].stage = "read" /\ exchange[x].found = "live"
        BY <3>1, <3>3 DEF Pending
      <4>2. t # 0
        BY <3>2, <4>1 DEF SessionsOK, FoundOK
      <4>3. t \in Nat /\ t <= Len(rows)
        BY <1>0, <3>2 DEF RowsOK, Exchanges
      <4> QED
        BY <1>0, <4>2, <4>3 DEF RowsOK
    <3>5. rows[t].first = f
      BY <3>1, <3>2, <3>3, <3>4 DEF Ends
    <3>6. rows[t].ended = "live"
      BY <2>5, <3>1, <3>2, <3>3, <3>5 DEF Stale, Pending
    <3>7. t \in LiveOf(f) /\ t \notin LiveOf(f)'
      BY <3>1, <3>2, <3>3, <3>4, <3>5, <3>6 DEF LiveOf
    <3>8. Cardinality(LiveOf(f)') <= Cardinality(LiveOf(f)) - 1
      <4>1. LiveOf(f)' \subseteq LiveOf(f) \ {t}
        BY <2>2, <3>7
      <4>2. IsFiniteSet(LiveOf(f) \ {t})
              /\ Cardinality(LiveOf(f) \ {t}) = Cardinality(LiveOf(f)) - 1
        BY <1>0, <3>7, FS_RemoveElement, EndCounts
      <4> QED
        BY <4>1, <4>2, FS_Subset
    <3> QED
      BY <1>0, <1>1, <2>1, <2>5, <3>8, EndCounts DEF FewEnds
  <2> QED
    BY <2>4, <2>5
<1>3. Cardinality(Unheard') <= lost'
  BY <1>0, <1>1, EndCounts DEF EndsOK
<1> QED
  BY <1>2, <1>3 DEF EndsOK

(* A sign-in begins a family, which has one end. *)
LEMMA OpenEnds ==
  ASSUME SessionsOK, SessionsOK', EndsOK, OpenSession
  PROVE  EndsOK'
<1> DEFINE new == Len(rows) + 1
<1>0. RowsOK /\ RowsOK' /\ Len(rows) \in Nat /\ Ends(rows)
  BY RowsEnds DEF SessionsOK, RowsOK
<1>1. rows' = Append(rows, [first |-> new, ended |-> "live"]) /\ UNCHANGED <<exchange, lost>>
  BY DEF OpenSession
<1>2. /\ Len(rows') = new
      /\ \A s \in 1..Len(rows) : rows'[s] = rows[s]
      /\ rows'[new].first = new /\ rows'[new].ended = "live"
  BY <1>0, <1>1, AppendRow
<1>3. \A s \in 1..Len(rows) : rows[s].first # new
  <2> SUFFICES ASSUME NEW s \in 1..Len(rows) PROVE rows[s].first # new
    OBVIOUS
  <2>1. rows[s].first <= s /\ rows[s] \in Row
    BY <1>0 DEF RowsOK
  <2> QED
    BY <1>0, <2>1 DEF Row
<1>4. ASSUME NEW x \in Exchange, Pending(x) PROVE exchange[x].token \in 1..Len(rows)
  <2>1. exchange[x].token # 0
    BY <1>4 DEF SessionsOK, FoundOK, Pending
  <2>2. exchange[x].token \in Nat /\ exchange[x].token <= Len(rows)
    BY <1>0 DEF RowsOK, Exchanges
  <2> QED
    BY <1>0, <2>1, <2>2
<1>5. \A f : Stale(f)' => Stale(f) /\ f # new
  BY <1>1, <1>2, <1>3, <1>4 DEF Stale, Pending
<1>6. Unheard' = Unheard
  BY <1>1 DEF Unheard
<1>7. ASSUME NEW f \in Nat PROVE FewEnds(f)'
  <2>1. CASE f = new
    <3>1. LiveOf(f)' = {new}
      BY <1>0, <1>2, <1>3, <2>1 DEF LiveOf
    <3>2. Cardinality(LiveOf(f)') = 1
      BY <3>1, FS_Singleton
    <3>3. ~Stale(f)'
      BY <1>5, <2>1
    <3> QED
      BY <1>0, <1>1, <1>6, <3>2, <3>3, EndCounts DEF FewEnds, EndsOK
  <2>2. CASE f # new
    <3>1. LiveOf(f)' = LiveOf(f)
      BY <1>0, <1>2, <2>2 DEF LiveOf
    <3>2. FewEnds(f) /\ (Stale(f)' => Stale(f)) /\ lost' = lost
      BY <1>1, <1>5 DEF EndsOK
    <3>3. (IF Stale(f)' THEN 1 ELSE 0) <= (IF Stale(f) THEN 1 ELSE 0)
      BY <3>2
    <3> QED
      BY <1>0, <1>6, <3>1, <3>2, <3>3, EndCounts DEF FewEnds
  <2> QED
    BY <2>1, <2>2
<1> QED
  BY <1>1, <1>6, <1>7 DEF EndsOK

(* An answer that is lost may leave the server at work. *)
LEMMA LoseEnds ==
  ASSUME SessionsOK, SessionsOK', EndsOK, NEW x \in Exchange, LoseAnswer(x)
  PROVE  EndsOK'
<1>0. RowsOK /\ RowsOK'
  BY DEF SessionsOK
<1>1. /\ lost' = lost + 1 /\ rows' = rows
      /\ \A y \in Exchange : y # x => exchange'[y] = exchange[y]
  BY <1>0 DEF LoseAnswer, RowsOK
<1>2. ~exchange'[x].heard
  <2>1. exchange' = [exchange EXCEPT ![x] = IF exchange[x].stage \in {"ok", "failed"}
                                            THEN NoExchange
                                            ELSE [exchange[x] EXCEPT !.heard = FALSE]]
    BY DEF LoseAnswer
  <2>2. exchange[x] \in Exchanges /\ ~NoExchange.heard
    BY <1>0 DEF RowsOK, NoExchange
  <2>3. ~[exchange[x] EXCEPT !.heard = FALSE].heard
    BY <2>2 DEF Exchanges
  <2> QED
    BY <1>0, <2>1, <2>2, <2>3 DEF RowsOK
<1>3. Unheard' \subseteq Unheard \union {x}
  BY <1>1 DEF Unheard
<1>4. Cardinality(Unheard') <= Cardinality(Unheard) + 1
  <2>0. IsFiniteSet(Unheard) /\ Cardinality(Unheard) \in Nat
    BY <1>0, EndCounts
  <2>1. IsFiniteSet(Unheard \union {x})
          /\ Cardinality(Unheard \union {x}) <= Cardinality(Unheard) + 1
    <3> HIDE DEF Unheard
    <3>1. PICK these : these = Unheard
      OBVIOUS
    <3>2. IsFiniteSet(these \union {x})
            /\ Cardinality(these \union {x}) = IF x \in these THEN Cardinality(these)
                                               ELSE Cardinality(these) + 1
      BY <2>0, <3>1, FS_AddElement
    <3> QED
      BY <2>0, <3>1, <3>2
  <2>2. Cardinality(Unheard \union {x}) \in Nat
    BY <2>1, FS_CardinalityType
  <2>3. Cardinality(Unheard') <= Cardinality(Unheard \union {x})
    BY <1>3, <2>1, FS_Subset
  <2> QED
    BY <1>0, <2>0, <2>1, <2>2, <2>3, EndCounts
<1>5. \A f : LiveOf(f)' = LiveOf(f)
  BY <1>1 DEF LiveOf
<1>6. \A f : Stale(f)' => Stale(f)
  BY <1>1, <1>2 DEF Stale, Pending
<1>7. ASSUME NEW f \in Nat PROVE FewEnds(f)'
  <2>1. FewEnds(f)
    BY DEF EndsOK
  <2> QED
    BY <1>0, <1>1, <1>4, <1>5, <1>6, <2>1, EndCounts DEF FewEnds
<1>8. Cardinality(Unheard') <= lost'
  BY <1>0, <1>1, <1>4, EndCounts DEF EndsOK
<1> QED
  BY <1>7, <1>8 DEF EndsOK

(* A rotation adds an end, and either the row it replaces was one, or one that
   might be added has been. *)
LEMMA RotateEnds ==
  ASSUME SessionsOK, SessionsOK', EndsOK, NEW x \in Exchange, RotateSession(x)
  PROVE  EndsOK'
<1>0. RowsOK /\ RowsOK' /\ Len(rows) \in Nat
  BY DEF SessionsOK, RowsOK
<1>1. PICK t : t = exchange[x].token
  OBVIOUS
<1>2. PICK new \in Nat : new = Len(rows) + 1
  BY <1>0
<1>3. /\ exchange[x].stage = "read" /\ exchange[x].found = "live" /\ Answer(x, "ok")
      /\ rows' = Append([rows EXCEPT ![t].ended = "rotated"],
                        [first |-> rows[t].first, ended |-> "live"])
      /\ lost' = lost
  BY <1>1 DEF RotateSession
<1>4. ASSUME NEW y \in Exchange, exchange[y].stage = "read", exchange[y].found = "live"
      PROVE  exchange[y].token \in 1..Len(rows)
  <2>1. exchange[y].token # 0
    BY <1>4 DEF SessionsOK, FoundOK
  <2>2. exchange[y].token \in Nat /\ exchange[y].token <= Len(rows)
    BY <1>0 DEF RowsOK, Exchanges
  <2> QED
    BY <1>0, <2>1, <2>2
<1>5. t \in 1..Len(rows) /\ rows[t] \in Row /\ rows[t].first \in Nat
  <2>1. t \in 1..Len(rows)
    BY <1>1, <1>3, <1>4
  <2>2. rows[t] \in Row
    BY <1>0, <2>1 DEF RowsOK
  <2> QED
    BY <2>1, <2>2 DEF Row
<1>6. PICK f0 \in Nat : f0 = rows[t].first
  BY <1>5
<1>7. PICK row \in Row : /\ row.first = f0 /\ row.ended = "rotated"
                         /\ rows' = Append([rows EXCEPT ![t] = row],
                                           [first |-> f0, ended |-> "live"])
  <2> DEFINE row == [rows[t] EXCEPT !.ended = "rotated"]
  <2>1. row \in Row /\ row.first = f0 /\ row.ended = "rotated"
    BY <1>5, <1>6 DEF Row, Ended
  <2> QED
    BY <1>3, <1>6, <2>1
<1>8. /\ Len(rows') = new
      /\ \A s \in 1..Len(rows) : rows'[s] = IF s = t THEN row ELSE rows[s]
      /\ rows'[new].first = f0 /\ rows'[new].ended = "live"
  <2> DEFINE these == [rows EXCEPT ![t] = row]
             succeeds == [first |-> f0, ended |-> "live"]
  <2>1. /\ these \in Seq(Row) /\ Len(these) = Len(rows)
        /\ \A s \in 1..Len(rows) : these[s] = IF s = t THEN row ELSE rows[s]
    BY <1>0, <1>5, <1>7, <1>2 DEF RowsOK
  <2>2. succeeds \in Row /\ succeeds.first = f0 /\ succeeds.ended = "live"
    BY <1>5 DEF Row, Ended
  <2>3. rows' = Append(these, succeeds)
    BY <1>7
  <2> HIDE DEF these, succeeds
  <2> QED
    BY <1>0, <1>2, <2>1, <2>2, <2>3
<1>9. /\ \A y \in Exchange : y # x => exchange'[y] = exchange[y]
      /\ exchange'[x].stage \in {"idle", "ok"}
  BY <1>0, <1>3, <1>8, <1>2, Answered DEF NoExchange
<1>10. \A f \in Nat : LiveOf(f)' = IF f = f0 THEN (LiveOf(f) \ {t}) \union {new} ELSE LiveOf(f)
  BY <1>0, <1>5, <1>7, <1>8, <1>2, <1>6 DEF LiveOf
<1>11. new \notin LiveOf(f0) /\ (t \in LiveOf(f0) <=> rows[t].ended = "live")
  BY <1>0, <1>5, <1>2, <1>6 DEF LiveOf
<1>12. Unheard' = Unheard \ {x} /\ (x \in Unheard <=> ~exchange[x].heard)
  BY <1>3, <1>9 DEF Unheard
<1>13. Cardinality(Unheard') = IF exchange[x].heard THEN Cardinality(Unheard)
                               ELSE Cardinality(Unheard) - 1
  BY <1>0, <1>12, FS_RemoveElement, EndCounts
<1>14. Cardinality(LiveOf(f0)') = IF rows[t].ended = "live" THEN Cardinality(LiveOf(f0))
                                  ELSE Cardinality(LiveOf(f0)) + 1
  <2> DEFINE rest == LiveOf(f0) \ {t}
  <2>0. IsFiniteSet(LiveOf(f0)) /\ Cardinality(LiveOf(f0)) \in Nat
    BY <1>0, EndCounts
  <2>1. IsFiniteSet(rest) /\ Cardinality(rest) = IF rows[t].ended = "live"
                                                 THEN Cardinality(LiveOf(f0)) - 1
                                                 ELSE Cardinality(LiveOf(f0))
    BY <1>11, <2>0, FS_RemoveElement
  <2>2. new \notin rest
    BY <1>11
  <2> HIDE DEF rest
  <2>3. Cardinality(rest \union {new}) = Cardinality(rest) + 1
    BY <2>1, <2>2, FS_AddElement
  <2>4. LiveOf(f0)' = rest \union {new}
    BY <1>10 DEF rest
  <2> QED
    BY <2>0, <2>1, <2>3, <2>4
<1>15. ASSUME NEW f \in Nat, Stale(f)', ~Stale(f)
       PROVE  f = f0 /\ rows[t].ended = "live" /\ ~exchange[x].heard
  <2>1. PICK y \in Exchange : /\ Pending(y)'
                              /\ rows'[exchange'[y].token].first = f
                              /\ rows'[exchange'[y].token].ended # "live"
    BY <1>15 DEF Stale
  <2>2. y # x /\ exchange'[y] = exchange[y]
    BY <1>9, <2>1 DEF Pending
  <2>3. exchange[y].token \in 1..Len(rows) /\ Pending(y)
    BY <1>4, <2>1, <2>2 DEF Pending
  <2>4. ~exchange[x].heard
    BY <1>0, <2>2, <2>3 DEF RowsOK, Pending
  <2>5. exchange[y].token = t
    BY <1>8, <1>15, <2>1, <2>2, <2>3 DEF Stale
  <2>6. f = f0
    BY <1>5, <1>7, <1>8, <2>1, <2>2, <2>5
  <2>7. rows[t].ended = "live"
    BY <1>6, <1>15, <2>3, <2>5, <2>6 DEF Stale
  <2> QED
    BY <2>4, <2>6, <2>7
<1>16. exchange[x].heard => ~Stale(f0)' /\ (rows[t].ended # "live" => Stale(f0))
  <2> SUFFICES ASSUME exchange[x].heard
               PROVE  ~Stale(f0)' /\ (rows[t].ended # "live" => Stale(f0))
    OBVIOUS
  <2>1. \A y \in Exchange : ~Pending(y)'
    BY <1>0, <1>9 DEF RowsOK, Pending
  <2>2. Pending(x)
    BY <1>3 DEF Pending
  <2> QED
    BY <1>1, <1>6, <2>1, <2>2 DEF Stale
<1>17. ASSUME NEW f \in Nat PROVE FewEnds(f)'
  <2>0. FewEnds(f) /\ FewEnds(f0)
    BY DEF EndsOK
  <2>1. /\ Cardinality(LiveOf(f)) \in Nat /\ Cardinality(LiveOf(f)') \in Nat
        /\ Cardinality(Unheard) \in Nat /\ Cardinality(Unheard') \in Nat
        /\ lost \in Nat
    BY <1>0, EndCounts
  <2>2. CASE f # f0
    <3>1. LiveOf(f)' = LiveOf(f) /\ (Stale(f)' => Stale(f))
      BY <1>10, <1>15, <2>2
    <3>2. Cardinality(Unheard') <= Cardinality(Unheard)
      BY <1>13, <2>1
    <3>3. (IF Stale(f)' THEN 1 ELSE 0) <= (IF Stale(f) THEN 1 ELSE 0)
      BY <3>1
    <3> QED
      BY <1>3, <2>0, <2>1, <3>1, <3>2, <3>3 DEF FewEnds
  <2>3. CASE f = f0 /\ exchange[x].heard
    <3>1. Cardinality(Unheard') = Cardinality(Unheard) /\ ~Stale(f)'
      BY <1>13, <1>16, <2>3
    <3>2. Cardinality(LiveOf(f)') <= Cardinality(LiveOf(f)) + (IF Stale(f) THEN 1 ELSE 0)
      BY <1>14, <1>16, <2>1, <2>3
    <3> QED
      BY <1>3, <2>0, <2>1, <3>1, <3>2 DEF FewEnds
  <2>4. CASE f = f0 /\ ~exchange[x].heard
    <3>1. Cardinality(Unheard') = Cardinality(Unheard) - 1
      BY <1>13, <2>4
    <3>2. CASE rows[t].ended = "live"
      <4>1. Cardinality(LiveOf(f)') = Cardinality(LiveOf(f))
        BY <1>14, <2>4, <3>2
      <4> QED
        BY <1>3, <2>0, <2>1, <3>1, <4>1 DEF FewEnds
    <3>3. CASE rows[t].ended # "live"
      <4>1. Cardinality(LiveOf(f)') = Cardinality(LiveOf(f)) + 1
        BY <1>14, <2>4, <3>3
      <4>2. Stale(f)' => Stale(f)
        BY <1>15, <3>3
      <4>3. (IF Stale(f)' THEN 1 ELSE 0) <= (IF Stale(f) THEN 1 ELSE 0)
        BY <4>2
      <4> QED
        BY <1>3, <2>0, <2>1, <3>1, <4>1, <4>3 DEF FewEnds
    <3> QED
      BY <3>2, <3>3
  <2> QED
    BY <2>2, <2>3, <2>4
<1>18. Cardinality(Unheard') <= lost'
  <2>1. Cardinality(Unheard) \in Nat /\ lost \in Nat /\ Cardinality(Unheard) <= lost
    BY <1>0, EndCounts DEF EndsOK
  <2> QED
    BY <1>3, <1>13, <2>1
<1> QED
  BY <1>17, <1>18 DEF EndsOK

LEMMA EndsInit == Init => EndsOK
<1> SUFFICES ASSUME Init PROVE EndsOK
  OBVIOUS
<1>1. rows = << >> /\ lost = 0 /\ exchange = [x \in Exchange |-> NoExchange]
  BY DEF Init, FamilyInit
<1>2. Unheard = {} /\ \A f : LiveOf(f) = {} /\ ~Stale(f)
  BY <1>1 DEF Unheard, LiveOf, Stale, Pending, NoExchange
<1>3. Cardinality(Unheard) = 0 /\ \A f : Cardinality(LiveOf(f)) = 0
  BY <1>2, FS_EmptySet
<1> QED
  BY <1>1, <1>2, <1>3 DEF EndsOK, FewEnds

LEMMA EndsStep == SessionsOK /\ SessionsOK' /\ EndsOK /\ [Next]_vars => EndsOK'
<1> SUFFICES ASSUME SessionsOK, SessionsOK', EndsOK, [Next]_vars PROVE EndsOK'
  OBVIOUS
<1>0. RowsOK /\ RowsOK' /\ Ends(rows)
  BY RowsEnds DEF SessionsOK
<1>1. ASSUME exchange' = exchange, lost' = lost, Ends(rows') PROVE EndsOK'
  BY <1>1, EndingEnds DEF Unheard
<1>2. CASE \/ UNCHANGED family
           \/ \E c \in Call : Send(c) \/ Serve(c) \/ Refuse(c) \/ AwaitRefresh(c)
           \/ Reload \/ SendSignOut \/ ReceiveSignOut
  BY <1>0, <1>1, <1>2 DEF family, Send, Serve, Refuse, AwaitRefresh, Reload, SendSignOut,
     ReceiveSignOut
<1>3. ASSUME NEW f, NEW reason \in Ended, rows' = Revoked(f, reason) PROVE Ends(rows')
  BY <1>0, <1>3, RevokedEnds
<1>4. CASE SignOut \/ RevokeElsewhere
  <2>1. "signed_out" \in Ended /\ "revoked" \in Ended
    BY DEF Ended
  <2>2. Ends(rows')
    BY <1>0, <1>3, <1>4, <2>1 DEF SignOut, RevokeElsewhere
  <2> QED
    BY <1>1, <1>4, <2>2 DEF SignOut, RevokeElsewhere
<1>5. ASSUME NEW x \in Exchange, FindSession(x) PROVE EndsOK'
  <2> DEFINE t == exchange[x].token
             found == IF t = 0 THEN "missing" ELSE rows[t].ended
             read == [exchange[x] EXCEPT !.stage = "read", !.found = found]
  <2>1. exchange[x].stage = "sent" /\ rows' = rows /\ lost' = lost
          /\ exchange' = [exchange EXCEPT ![x] = read]
    BY <1>5 DEF FindSession
  <2>2. /\ read.stage = "read" /\ read.found = found /\ read.token = t
        /\ read.heard = exchange[x].heard
    <3> HIDE DEF found
    <3>1. exchange[x] \in Exchanges
      BY <1>0 DEF RowsOK
    <3> QED
      BY <3>1 DEF Exchanges
  <2>3. found = "live" => rows[t].ended = "live"
    OBVIOUS
  <2> HIDE DEF read, found
  <2>4. \A y \in Exchange : exchange'[y] = IF y = x THEN read ELSE exchange[y]
    BY <1>0, <2>1 DEF RowsOK
  <2>5. Unheard' \subseteq Unheard
    BY <2>1, <2>2, <2>4 DEF Unheard
  <2>6. \A y \in Exchange : Pending(y)' => exchange'[y] = exchange[y]
                                             \/ rows'[exchange'[y].token].ended = "live"
    BY <2>1, <2>2, <2>3, <2>4 DEF Pending
  <2> QED
    BY <1>0, <2>1, <2>5, <2>6, EndingEnds
<1>6. ASSUME NEW x \in Exchange, exchange'[x].stage \notin {"sent", "read"},
             \A y \in Exchange : y # x => exchange'[y] = exchange[y],
             Ends(rows'), lost' = lost
      PROVE  EndsOK'
  <2>1. Unheard' \subseteq Unheard
    BY <1>6 DEF Unheard
  <2>2. \A y \in Exchange : Pending(y)' => exchange'[y] = exchange[y]
    BY <1>6 DEF Pending
  <2> QED
    BY <1>6, <2>1, <2>2, EndingEnds
<1>7. ASSUME NEW x \in Exchange, RefuseRefresh(x) PROVE EndsOK'
  <2>1. "reuse_detected" \in Ended /\ "revoked" \in Ended
    BY DEF Ended
  <2>2. Ends(rows')
    BY <1>0, <1>3, <1>7, <2>1 DEF RefuseRefresh
  <2>3. Answer(x, "failed") /\ lost' = lost /\ Len(rows') \in Nat
    BY <1>0, <1>7 DEF RefuseRefresh, RowsOK
  <2>4. /\ \A y \in Exchange : y # x => exchange'[y] = exchange[y]
        /\ exchange'[x].stage \in {"idle", "failed"}
    BY <1>0, <2>3, Answered DEF NoExchange
  <2> QED
    BY <1>6, <2>2, <2>3, <2>4
<1>8. ASSUME NEW x \in Exchange, ReceiveRefresh(x) PROVE EndsOK'
  <2>1. /\ exchange' = [exchange EXCEPT ![x] = NoExchange]
        /\ rows' = rows /\ lost' = lost
    BY <1>8 DEF ReceiveRefresh
  <2>2. /\ \A y \in Exchange : y # x => exchange'[y] = exchange[y]
        /\ exchange'[x].stage = "idle"
    BY <1>0, <2>1 DEF RowsOK, NoExchange
  <2> QED
    BY <1>0, <1>6, <2>1, <2>2
<1>9. ASSUME NEW c \in Call, NEW x \in Exchange, StartRefresh(c, x) PROVE EndsOK'
  <2> DEFINE sent == [stage |-> "sent", token |-> jar, found |-> "missing", heard |-> TRUE]
  <2>1. exchange' = [exchange EXCEPT ![x] = sent] /\ rows' = rows /\ lost' = lost
    BY <1>9 DEF StartRefresh
  <2>2. \A y \in Exchange : exchange'[y] = IF y = x THEN sent ELSE exchange[y]
    BY <1>0, <2>1 DEF RowsOK
  <2>3. Unheard' \subseteq Unheard
    BY <2>2 DEF Unheard
  <2>4. \A y \in Exchange : Pending(y)' => exchange'[y] = exchange[y]
    BY <2>2 DEF Pending
  <2> QED
    BY <1>0, <2>1, <2>3, <2>4, EndingEnds
<1> QED
  BY <1>2, <1>4, <1>5, <1>7, <1>8, <1>9, OpenEnds, LoseEnds, RotateEnds
  DEF Next, FamilyNext, SignIn, vars

(* A family has one live end, and at most one more for every answer that was
   lost, whatever is revoked or signed out while refreshes are under way. *)
THEOREM EndsAreFew == Spec => []OneLiveEnd
<1>1. SessionsOK /\ EndsOK => OneLiveEnd
  <2> SUFFICES ASSUME SessionsOK, EndsOK, NEW f \in DOMAIN rows
               PROVE  Cardinality({s \in DOMAIN rows : rows[s].first = f /\ Live(s)}) <= 1 + lost
    BY DEF OneLiveEnd
  <2>1. /\ DOMAIN rows = 1..Len(rows) /\ Len(rows) \in Nat /\ lost \in Nat
        /\ f \in Nat
    BY DEF SessionsOK, RowsOK
  <2>2. {s \in DOMAIN rows : rows[s].first = f /\ Live(s)} = LiveOf(f)
    BY <2>1 DEF LiveOf, Live
  <2>3. LiveOf(f) \subseteq 1..Len(rows)
    BY DEF LiveOf
  <2>4. Cardinality(LiveOf(f)) \in Nat
    BY <2>1, <2>3, RowSets
  <2>5. Cardinality(Unheard) \in Nat
    BY ExchangeSets DEF Unheard
  <2>6. FewEnds(f)
    BY <2>1 DEF EndsOK
  <2>7. Cardinality(LiveOf(f)) <= 1 + lost
    BY <2>1, <2>4, <2>5, <2>6 DEF FewEnds
  <2> QED
    BY <2>2, <2>7
<1>2. SessionsOK /\ SessionsOK' /\ EndsOK /\ [Next]_vars => EndsOK'
  BY EndsStep
<1> QED
  BY <1>1, <1>2, SessionsInit, SessionsStep, EndsInit, PTL DEF Spec
=============================================================================
