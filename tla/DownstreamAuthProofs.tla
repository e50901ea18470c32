------------------------ MODULE DownstreamAuthProofs ------------------------
(***************************************************************************)
(* Theorems about DownstreamAuth, for any number of overlapping            *)
(* operations, logins, requests and grants: its types, that the code of a  *)
(* login is sent once, that overlapping refreshes leave no refresh token   *)
(* behind that is used up, and that what an administrator is told agrees   *)
(* with what is stored.                                                    *)
(***************************************************************************)
EXTENDS DownstreamAuth, TLAPS

(* What an operation becomes when its request is sent, when it asks for a  *)
(* refresh, and when something it may have read is changed.                *)
Sent(x) == [x EXCEPT !.at = "posting", !.sent = 0, !.got = 0]
Refreshing(x, r) == [x EXCEPT !.at = "refreshing", !.sent = r]
Late(x) == [x EXCEPT !.overtaken = TRUE]

LEMMA Fields ==
  ASSUME NEW x \in Op
  PROVE  /\ x # NoOp
         /\ Sent(x) \in Op /\ Sent(x).at = "posting"
         /\ Sent(x).conf = x.conf /\ Sent(x).overtaken = x.overtaken
         /\ x.conf \in Modes /\ x.overtaken \in BOOLEAN
         /\ x.sent \in 0..MaxGrants /\ x.got \in 0..MaxGrants
<1>1. 0 \in 0..MaxGrants
  BY BoundsAssumption
<1>2. QED BY <1>1, NoneAssumption DEF Op, Sent

LEMMA LateFields ==
  ASSUME NEW x \in Op
  PROVE  /\ Late(x) \in Op /\ Late(x).overtaken = TRUE /\ Late(x).at = x.at
         /\ Late(x).sent = x.sent /\ Late(x).got = x.got /\ Late(x).conf = x.conf
BY DEF Op, Late

LEMMA RefreshingFields ==
  ASSUME NEW x \in Op, NEW r \in 0..MaxGrants
  PROVE  /\ Refreshing(x, r) \in Op /\ Refreshing(x, r).at = "refreshing"
         /\ Refreshing(x, r).sent = r
         /\ Refreshing(x, r).conf = x.conf /\ Refreshing(x, r).overtaken = x.overtaken
BY DEF Op, Refreshing

Holding(x, at, r) == [x EXCEPT !.at = at, !.got = r]

LEMMA Begun ==
  ASSUME NEW kind \in {"call", "probe", "begin", "complete"}, NEW c \in Modes,
         NEW at \in {"posting", "discovering", "exchanging"}, NEW n \in {1, Posts}
  PROVE  [kind |-> kind, at |-> at, conf |-> c, left |-> n, sent |-> 0, got |-> 0,
          overtaken |-> FALSE] \in Op
<1>1. 0 \in 0..MaxGrants /\ n \in 1..Posts
  BY BoundsAssumption
<1>2. QED BY <1>1 DEF Op

LEMMA Fewer ==
  ASSUME NEW x \in Op, x.left > 1
  PROVE  /\ [x EXCEPT !.left = @ - 1] \in Op
         /\ [x EXCEPT !.left = @ - 1].conf = x.conf
         /\ [x EXCEPT !.left = @ - 1].overtaken = x.overtaken
<1>1. x.left \in 1..Posts /\ x.left - 1 \in 1..Posts
  BY BoundsAssumption DEF Op
<1>2. QED BY <1>1 DEF Op

LEMMA DefaultFacts ==
  ASSUME TypeOK, NEW c
  PROVE  /\ DefaultState(c) \in State /\ DefaultState(c).status \in {"None", "Configured"}
         /\ Current(c) \in State
<1>1. DefaultState(c) \in State /\ DefaultState(c).status \in {"None", "Configured"}
  BY DEF DefaultState, State, Statuses
<1>2. Current(c) \in State
  BY <1>1 DEF Current, TypeOK
<1>3. QED BY <1>1, <1>2

LEMMA Saying ==
  ASSUME TypeOK, NEW c, NEW status \in Statuses
  PROVE  Said(c, status) \in State /\ Said(c, status).status = status
<1>1. Current(c) \in State
  BY DefaultFacts
<1>2. QED BY <1>1 DEF Said, State

LEMMA AuthorizedFacts ==
  ASSUME TypeOK
  PROVE  /\ Authorized \in State \cup {NoState}
         /\ state # NoState => Authorized \in State /\ Authorized.status = "Authorized"
<1>1. "Authorized" \in Statuses
  BY DEF Statuses
<1>2. Said(conf, "Authorized") \in State /\ Said(conf, "Authorized").status = "Authorized"
  BY <1>1, Saying
<1>3. QED BY <1>2 DEF Authorized

(* Whatever the configuration says of the server, a request is sent or     *)
(* not, a refresh is started, and a status is reported or none is.         *)
LEMMA Resolved ==
  ASSUME TypeOK, NEW o \in Ops, NEW x \in Op, ResolveAuthHeaders(o, x)
  PROVE  /\ \E y \in Op \cup {NoOp} :
              /\ op' = [op EXCEPT ![o] = y]
              /\ y # NoOp =>
                   /\ y.conf = x.conf /\ y.overtaken = x.overtaken
                   /\ y.at \in {"posting", "refreshing"}
                   /\ y.at = "posting" /\ x.conf = "oauth" => Stored # NoTokens
                   /\ y.at = "refreshing" => /\ Stored # NoTokens /\ ~Stored.fresh
                                             /\ y.sent = Stored.refresh /\ Stored.refresh # 0
         /\ \/ UNCHANGED <<state, clean>>
            \/ \E status \in Statuses :
                 /\ state' = Said(x.conf, status) /\ clean' = ~x.overtaken
                 /\ status # "RefreshFailed"
                 /\ status = "Authorized" => x.conf = "legacy"
<1> DEFINE next == \E y \in Op \cup {NoOp} :
              /\ op' = [op EXCEPT ![o] = y]
              /\ y # NoOp =>
                   /\ y.conf = x.conf /\ y.overtaken = x.overtaken
                   /\ y.at \in {"posting", "refreshing"}
                   /\ y.at = "posting" /\ x.conf = "oauth" => Stored # NoTokens
                   /\ y.at = "refreshing" => /\ Stored # NoTokens /\ ~Stored.fresh
                                             /\ y.sent = Stored.refresh /\ Stored.refresh # 0
           said == \E status \in Statuses :
                 /\ state' = Said(x.conf, status) /\ clean' = ~x.overtaken
                 /\ status # "RefreshFailed"
                 /\ status = "Authorized" => x.conf = "legacy"
<1>1. ASSUME Send(o, x), x.conf = "oauth" => Stored # NoTokens PROVE next
  <2>1. op' = [op EXCEPT ![o] = Sent(x)]
    BY <1>1 DEF Send, Sent
  <2>2. QED BY <1>1, <2>1, Fields
<1>2. ASSUME Leave(o) PROVE next
  BY <1>2 DEF Leave
<1>3. ASSUME Announce(x) PROVE UNCHANGED <<state, clean>> \/ said
  BY <1>3 DEF Announce, Report, Silent, Statuses
<1>4. ASSUME NEW status \in Statuses \ {"Authorized", "RefreshFailed"}, Report(x, status) PROVE said
  BY <1>4 DEF Report
<1>5. {"AuthRequired", "Misconfigured", "Configured"} \subseteq Statuses \ {"Authorized", "RefreshFailed"}
  BY DEF Statuses
<1>6. CASE EnsureFresh(o, x)
  <2>1. Stored # NoTokens
    BY <1>6 DEF EnsureFresh
  <2>2. CASE Stored.fresh /\ Send(o, x) /\ Announce(x)
    BY <1>1, <1>3, <2>1, <2>2
  <2>3. CASE Leave(o) /\ Report(x, "AuthRequired")
    BY <1>2, <1>4, <1>5, <2>3
  <2>4. CASE /\ ~Stored.fresh /\ Stored.refresh # 0 /\ Announce(x)
             /\ op' = [op EXCEPT ![o] = [x EXCEPT !.at = "refreshing", !.sent = Stored.refresh]]
    <3>1. Stored.refresh \in 0..MaxGrants
      BY <2>1, BoundsAssumption DEF Stored, TypeOK, Tokens
    <3>2. next
      <4>1. op' = [op EXCEPT ![o] = Refreshing(x, Stored.refresh)]
        BY <2>4 DEF Refreshing
      <4>2. /\ Refreshing(x, Stored.refresh) \in Op
            /\ Refreshing(x, Stored.refresh).at = "refreshing"
            /\ Refreshing(x, Stored.refresh).sent = Stored.refresh
        BY <3>1, RefreshingFields
      <4>3. /\ Refreshing(x, Stored.refresh).conf = x.conf
            /\ Refreshing(x, Stored.refresh).overtaken = x.overtaken
        BY <3>1, RefreshingFields
      <4>4. QED BY <2>1, <2>4, <4>1, <4>2, <4>3
    <3>3. QED BY <1>3, <2>4, <3>2
  <2>5. QED BY <1>6, <2>2, <2>3, <2>4 DEF EnsureFresh
<1>7. CASE ResolveBearer(o, x)
  <2>1. x.conf # "oauth"
    BY <1>7 DEF ResolveBearer
  <2>2. Send(o, x) \/ Leave(o)
    BY <1>7 DEF ResolveBearer
  <2>3. \E status \in {"AuthRequired", "Misconfigured", "Configured"} : Report(x, status)
    BY <1>7 DEF ResolveBearer
  <2>4. QED BY <1>1, <1>2, <1>4, <1>5, <2>1, <2>2, <2>3
<1>8. CASE x.conf \in {"open", "none", "legacy"} /\ Send(o, x) /\ Announce(x)
  BY <1>1, <1>3, <1>8
<1>9. CASE x.conf = "oauth" /\ Leave(o) /\ Report(x, "AuthRequired")
  BY <1>2, <1>4, <1>5, <1>9
<1>10. QED BY <1>6, <1>7, <1>8, <1>9 DEF ResolveAuthHeaders

-----------------------------------------------------------------------------
(* One login: its code is sent when its state parameter is spent.          *)
SpentOnce ==
    \A f \in Flows :
        /\ exchanges[f] \in {0, 1}
        /\ flow[f] \in {"unused", "pending"} => exchanges[f] = 0

(* The operations that hold an answer of the authorization server.         *)
Outstanding == {o \in Ops : At(o, "refreshed") \/ At(o, "exchanged")}

(* Where refresh tokens are rotated, the one that operation o is going to  *)
(* store is known to nobody else.                                          *)
Private(o) ==
    rotating /\ op[o].got # 0 =>
        /\ op[o].got \notin spent
        /\ tokens # NoTokens => tokens.refresh # op[o].got
        /\ \A p \in Ops : At(p, "refreshing") => op[p].sent # op[o].got
        /\ \A p \in Outstanding : p # o => op[p].got # op[o].got

(* Grants: no refresh token is stored that is used up, unless its          *)
(* successor is on its way or lost.                                        *)
GrantsKept ==
    /\ KeptInStep
    /\ ~rotating => spent = {}
    /\ tokens # NoTokens => tokens.refresh \in 0..newest
    /\ \A o \in Ops : At(o, "refreshing") => op[o].sent \in 1..newest
    /\ \A o \in Outstanding : op[o].got \in 0..newest /\ Private(o)

(* What an operation that was not overtaken has read is still so.          *)
UpToDate ==
    \A o \in Ops : op[o] # NoOp /\ ~op[o].overtaken =>
        /\ op[o].conf = conf
        /\ managed /\ conf = "oauth" /\ op[o].at = "posting" => tokens # NoTokens
        /\ managed /\ op[o].at \in {"refreshing", "refreshed"} => tokens # NoTokens /\ ~tokens.fresh

AuthInv == TypeOK /\ SpentOnce /\ GrantsKept /\ UpToDate /\ StatusTruthful

LEMMA AuthInit == ASSUME Init PROVE AuthInv
<1>1. TypeOK
  <2>1. DefaultState(conf) \in State
    BY ConfigsAssumption DEF Init, DefaultState, State, Statuses
  <2>2. 0 \in 0..MaxGrants
    BY BoundsAssumption
  <2>3. QED BY <2>1, <2>2 DEF Init, TypeOK
<1>2. SpentOnce
  BY DEF Init, SpentOnce
<1>3. GrantsKept /\ UpToDate
  BY DEF Init, GrantsKept, KeptInStep, UpToDate, Outstanding, At
<1>4. StatusTruthful
  BY DEF Init, StatusTruthful, DefaultState
<1>5. QED BY <1>1, <1>2, <1>3, <1>4 DEF AuthInv

(* Only a login that is begun, or expires, or is completed, changes what   *)
(* is known of it.                                                         *)
LEMMA SpentKept == ASSUME SpentOnce, UNCHANGED <<flow, exchanges>> PROVE SpentOnce'
BY DEF SpentOnce

(* A step that neither issues a grant nor stores one.                      *)
LEMMA GrantsUntouched ==
  ASSUME GrantsKept, UNCHANGED <<rotating, newest, spent>>, lost \subseteq lost',
         tokens' # NoTokens => tokens # NoTokens /\ tokens'.refresh = tokens.refresh,
         \A o \in Ops : At(o, "refreshed") =>
            \/ op'[o] # NoOp /\ op'[o].at = "refreshed" /\ op'[o].sent = op[o].sent
            \/ op[o].sent \in spent => op[o].sent \in lost',
         \A o \in Outstanding' : o \in Outstanding /\ op'[o].got = op[o].got,
         \A o \in Ops : op'[o] # NoOp /\ op'[o].at = "refreshing" =>
            \/ At(o, "refreshing") /\ op'[o].sent = op[o].sent
            \/ tokens # NoTokens /\ op'[o].sent = tokens.refresh /\ tokens.refresh # 0
  PROVE  GrantsKept'
<1>1. KeptInStep'
  <2> SUFFICES ASSUME tokens' # NoTokens, tokens'.refresh \in spent', tokens'.refresh \notin lost'
               PROVE  \E o \in Ops : At(o, "refreshed")' /\ op'[o].sent = tokens'.refresh
    BY DEF KeptInStep
  <2>1. tokens # NoTokens /\ tokens'.refresh = tokens.refresh /\ tokens.refresh \in spent
    OBVIOUS
  <2>2. PICK o \in Ops : At(o, "refreshed") /\ op[o].sent = tokens.refresh
    BY <2>1 DEF GrantsKept, KeptInStep
  <2>3. op'[o] # NoOp /\ op'[o].at = "refreshed" /\ op'[o].sent = op[o].sent
    BY <2>1, <2>2
  <2>4. QED BY <2>1, <2>2, <2>3 DEF At
<1>2. tokens' # NoTokens => tokens'.refresh \in 0..newest'
  BY DEF GrantsKept
<1>3. \A o \in Ops : At(o, "refreshing")' => op'[o].sent \in 1..newest'
  <2> SUFFICES ASSUME NEW o \in Ops, op'[o] # NoOp, op'[o].at = "refreshing"
               PROVE  op'[o].sent \in 1..newest
    BY DEF At
  <2>1. CASE At(o, "refreshing") /\ op'[o].sent = op[o].sent
    BY <2>1 DEF GrantsKept
  <2>2. CASE tokens # NoTokens /\ op'[o].sent = tokens.refresh /\ tokens.refresh # 0
    BY <2>2 DEF GrantsKept
  <2>3. QED BY <2>1, <2>2
<1>4. ASSUME NEW o \in Outstanding' PROVE op'[o].got \in 0..newest' /\ Private(o)'
  <2>1. o \in Outstanding /\ op'[o].got = op[o].got /\ op[o].got \in 0..newest /\ Private(o)
    BY DEF GrantsKept
  <2>2. ASSUME rotating, op[o].got # 0
        PROVE  /\ op[o].got \notin spent
               /\ tokens' # NoTokens => tokens'.refresh # op[o].got
               /\ \A p \in Ops : op'[p] # NoOp /\ op'[p].at = "refreshing" => op'[p].sent # op[o].got
               /\ \A p \in Outstanding' : p # o => op'[p].got # op[o].got
    BY <2>1, <2>2 DEF Private
  <2>3. QED BY <2>1, <2>2 DEF Private, At
<1>5. QED BY <1>1, <1>2, <1>3, <1>4 DEF GrantsKept

OpTypes == [Ops -> Op \cup {NoOp}]

(* An operation begins, goes on or ends without holding a grant.           *)
LEMMA Replaced ==
  ASSUME AuthInv, NEW o \in Ops, o \notin Outstanding, NEW y \in Op \cup {NoOp},
         op' = [op EXCEPT ![o] = y], UNCHANGED <<server, credentials, grants, lost>>,
         y # NoOp => y.at \notin {"refreshed", "exchanged"},
         y # NoOp /\ y.at = "refreshing" =>
            tokens # NoTokens /\ y.sent = tokens.refresh /\ tokens.refresh # 0,
         y # NoOp /\ ~y.overtaken =>
            /\ y.conf = conf
            /\ managed /\ conf = "oauth" /\ y.at = "posting" => tokens # NoTokens
            /\ managed /\ y.at = "refreshing" => tokens # NoTokens /\ ~tokens.fresh
  PROVE  op' \in OpTypes /\ GrantsKept' /\ UpToDate'
<1>1. op \in OpTypes /\ UNCHANGED <<conf, managed, rotating, tokens, newest, spent, lost>>
  BY DEF AuthInv, TypeOK, OpTypes, server, credentials, grants
<1>2. op' \in OpTypes /\ op'[o] = y /\ \A p \in Ops : p # o => op'[p] = op[p]
  BY <1>1 DEF OpTypes
<1>3. o \notin Outstanding' /\ ~At(o, "refreshed")
  BY <1>2 DEF Outstanding, At
<1>4. \A p \in Outstanding' : p \in Outstanding /\ p # o /\ op'[p] = op[p]
  BY <1>2, <1>3 DEF Outstanding, At
<1>5. GrantsKept'
  <2>1. \A p \in Ops : At(p, "refreshed") => op'[p] = op[p] /\ op[p] # NoOp /\ op[p].at = "refreshed"
    BY <1>2, <1>3 DEF At
  <2>2. \A p \in Ops : op'[p] # NoOp /\ op'[p].at = "refreshing" =>
          \/ At(p, "refreshing") /\ op'[p].sent = op[p].sent
          \/ tokens # NoTokens /\ op'[p].sent = tokens.refresh /\ tokens.refresh # 0
    BY <1>2 DEF At
  <2>3. GrantsKept
    BY DEF AuthInv
  <2>4. QED BY <1>1, <1>4, <2>1, <2>2, <2>3, GrantsUntouched
<1>6. UpToDate'
  BY <1>1, <1>2 DEF UpToDate, AuthInv
<1>7. QED BY <1>2, <1>5, <1>6

(* Somebody changes what operations may have read.                         *)
LEMMA AllOvertaken ==
  ASSUME AuthInv, op' = Overtaken, UNCHANGED <<rotating, grants, lost>>,
         tokens' \in {tokens, NoTokens}
  PROVE  op' \in OpTypes /\ GrantsKept' /\ UpToDate'
<1>1. \A o \in Ops : op[o] # NoOp =>
        /\ op'[o] \in Op /\ op'[o] # NoOp /\ op'[o].overtaken /\ op'[o].at = op[o].at
        /\ op'[o].sent = op[o].sent /\ op'[o].got = op[o].got
  <2>1. \A o \in Ops : op[o] # NoOp => op[o] \in Op /\ op'[o] = Late(op[o])
    BY DEF AuthInv, TypeOK, Overtaken, Late
  <2>2. ASSUME NEW o \in Ops, op[o] # NoOp
        PROVE  /\ op'[o] \in Op /\ op'[o].overtaken = TRUE /\ op'[o].at = op[o].at
               /\ op'[o].sent = op[o].sent /\ op'[o].got = op[o].got
    <3>1. op[o] \in Op /\ op'[o] = Late(op[o])
      BY <2>1, <2>2
    <3>2. Late(op[o]) \in Op /\ Late(op[o]).overtaken = TRUE /\ Late(op[o]).at = op[o].at
      BY <3>1, LateFields
    <3>3. Late(op[o]).sent = op[o].sent /\ Late(op[o]).got = op[o].got
      BY <3>1, LateFields
    <3>4. QED BY <3>1, <3>2, <3>3
  <2>3. QED BY <2>2, NoneAssumption
<1>2. \A o \in Ops : op[o] = NoOp => op'[o] = NoOp
  BY DEF Overtaken
<1>3. op' \in OpTypes
  <2>1. \A o \in Ops : op'[o] \in Op \cup {NoOp}
    BY <1>1, <1>2
  <2>2. op' = [o \in Ops |-> op'[o]]
    BY DEF Overtaken
  <2>3. QED BY <2>1, <2>2 DEF OpTypes
<1>4. /\ \A o \in Outstanding' : o \in Outstanding /\ op'[o].got = op[o].got
      /\ \A o \in Ops : At(o, "refreshed") =>
            op'[o] # NoOp /\ op'[o].at = "refreshed" /\ op'[o].sent = op[o].sent
      /\ \A o \in Ops : op'[o] # NoOp /\ op'[o].at = "refreshing" =>
            At(o, "refreshing") /\ op'[o].sent = op[o].sent
  BY <1>1, <1>2 DEF Outstanding, At
<1>5. GrantsKept /\ UNCHANGED <<rotating, newest, spent, lost>>
  BY DEF AuthInv, grants
<1>6. GrantsKept'
  BY <1>4, <1>5, GrantsUntouched
<1>7. UpToDate'
  BY <1>1, <1>2 DEF UpToDate
<1>8. QED BY <1>3, <1>6, <1>7

(* Nothing is said, or something that is neither "Authorized" nor          *)
(* "RefreshFailed" of an OAuth server.                                     *)
LEMMA Told ==
  ASSUME AuthInv, UNCHANGED <<server, credentials>>,
         \/ UNCHANGED <<state, clean>>
         \/ state' = NoState
         \/ ~clean'
         \/ conf # "oauth"
         \/ state'.status \notin {"Authorized", "RefreshFailed"}
  PROVE  StatusTruthful'
BY DEF AuthInv, StatusTruthful, server, credentials

-----------------------------------------------------------------------------
LEMMA ResolvedKeeps ==
  ASSUME AuthInv, NEW o \in Ops, o \notin Outstanding, NEW x \in Op,
         ~x.overtaken => x.conf = conf, ResolveAuthHeaders(o, x),
         UNCHANGED <<server, credentials, flow, grants, exchanges, lost>>
  PROVE  AuthInv'
<1>1. TypeOK /\ SpentOnce
  BY DEF AuthInv
<1>2. PICK y \in Op \cup {NoOp} :
        /\ op' = [op EXCEPT ![o] = y]
        /\ y # NoOp =>
             /\ y.conf = x.conf /\ y.overtaken = x.overtaken
             /\ y.at \in {"posting", "refreshing"}
             /\ y.at = "posting" /\ x.conf = "oauth" => Stored # NoTokens
             /\ y.at = "refreshing" => /\ Stored # NoTokens /\ ~Stored.fresh
                                       /\ y.sent = Stored.refresh /\ Stored.refresh # 0
  BY <1>1, Resolved
<1>3. managed => Stored = tokens
  BY DEF Stored
<1>4. op' \in OpTypes /\ GrantsKept' /\ UpToDate'
  <2>1. y # NoOp => y.at \notin {"refreshed", "exchanged"}
    BY <1>2
  <2>2. y # NoOp /\ ~y.overtaken =>
            /\ y.conf = conf
            /\ managed /\ conf = "oauth" /\ y.at = "posting" => tokens # NoTokens
            /\ managed /\ y.at = "refreshing" => tokens # NoTokens /\ ~tokens.fresh
    BY <1>2, <1>3
  <2>3. y # NoOp /\ y.at = "refreshing" =>
            tokens # NoTokens /\ y.sent = tokens.refresh /\ tokens.refresh # 0
    BY <1>2 DEF Stored
  <2>4. QED BY <1>2, <2>1, <2>2, <2>3, Replaced
<1>5. \/ UNCHANGED <<state, clean>>
      \/ \E status \in Statuses :
           /\ state' = Said(x.conf, status) /\ clean' = ~x.overtaken
           /\ status # "RefreshFailed"
           /\ status = "Authorized" => x.conf = "legacy"
  BY <1>1, Resolved
<1>6. StatusTruthful' /\ state' \in State \cup {NoState} /\ clean' \in BOOLEAN
  <2>1. CASE UNCHANGED <<state, clean>>
    BY <1>1, <2>1, Told DEF TypeOK
  <2>2. ASSUME NEW status \in Statuses, state' = Said(x.conf, status), clean' = ~x.overtaken,
               status # "RefreshFailed", status = "Authorized" => x.conf = "legacy"
        PROVE  StatusTruthful' /\ state' \in State \cup {NoState} /\ clean' \in BOOLEAN
    <3>1. x.conf \in Modes /\ x.overtaken \in BOOLEAN
      BY Fields
    <3>2. state' \in State /\ state'.status = status
      BY <1>1, <2>2, <3>1, Saying
    <3>3. ~clean' \/ conf # "oauth" \/ state'.status \notin {"Authorized", "RefreshFailed"}
      BY <2>2, <3>1, <3>2
    <3>4. QED BY <2>2, <3>1, <3>2, <3>3, Told
  <2>3. QED BY <1>5, <2>1, <2>2
<1>7. TypeOK'
  BY <1>1, <1>4, <1>6 DEF TypeOK, OpTypes, server, credentials, grants
<1>8. QED BY <1>1, <1>4, <1>6, <1>7, SpentKept DEF AuthInv

LEMMA ModeFacts == ASSUME TypeOK PROVE conf \in Modes
BY ConfigsAssumption DEF TypeOK

LEMMA BeginUseKeeps ==
  ASSUME AuthInv, NEW o \in Ops, NEW kind \in {"call", "probe"}, BeginUse(o, kind)
  PROVE  AuthInv'
<1> DEFINE n == IF kind = "call" THEN Posts ELSE 1
           x == [kind |-> kind, at |-> "posting", conf |-> conf, left |-> n, sent |-> 0, got |-> 0,
                 overtaken |-> FALSE]
<1>1. x \in Op
  BY ModeFacts, Begun DEF AuthInv
<1>2. x.conf = conf
  OBVIOUS
<1>3. ResolveAuthHeaders(o, x)
  BY DEF BeginUse
<1>4. o \notin Outstanding
  BY DEF BeginUse, Idle, Outstanding, At
<1>5. UNCHANGED <<server, credentials, flow, grants, exchanges, lost>>
  BY DEF BeginUse
<1> HIDE DEF x
<1>6. QED BY <1>1, <1>2, <1>3, <1>4, <1>5, ResolvedKeeps

(* An operation ends, and says something harmless or nothing.              *)
LEMMA LeavingKeeps ==
  ASSUME AuthInv, NEW o \in Ops, o \notin Outstanding, Leave(o),
         UNCHANGED <<server, credentials, grants, lost>>,
         state' \in State \cup {NoState}, clean' \in BOOLEAN, StatusTruthful',
         flow' \in [Flows -> {"unused", "pending", "expired", "gone"}],
         exchanges' \in [Flows -> Nat], SpentOnce'
  PROVE  AuthInv'
<1>1. op' = [op EXCEPT ![o] = NoOp]
  BY DEF Leave
<1>2. op' \in OpTypes /\ GrantsKept' /\ UpToDate'
  BY <1>1, Replaced
<1>3. TypeOK'
  BY <1>2 DEF TypeOK, OpTypes, server, credentials, grants, AuthInv
<1>4. QED BY <1>2, <1>3 DEF AuthInv

LEMMA PostingFacts ==
  ASSUME TypeOK, NEW o \in Ops, NEW place, At(o, place)
  PROVE  /\ op[o] \in Op /\ op[o].at = place
         /\ place \notin {"refreshed", "exchanged"} => o \notin Outstanding
BY DEF TypeOK, At, Outstanding

LEMMA PostAnsweredKeeps ==
  ASSUME AuthInv, NEW o \in Ops, PostAnswered(o) PROVE AuthInv'
<1>1. /\ op[o] \in Op /\ op[o].at = "posting" /\ o \notin Outstanding /\ TypeOK
      /\ op[o] # NoOp
  BY PostingFacts DEF PostAnswered, AuthInv, At
<1>2. UNCHANGED <<server, credentials, flow, grants, exchanges, lost>>
  BY DEF PostAnswered
<1>3. CASE op[o].left > 1 /\ ResolveAuthHeaders(o, [op[o] EXCEPT !.left = @ - 1])
  <2> DEFINE x == [op[o] EXCEPT !.left = @ - 1]
  <2>1. x \in Op /\ x.conf = op[o].conf /\ x.overtaken = op[o].overtaken
    BY <1>1, <1>3, Fewer
  <2>2. ~x.overtaken => x.conf = conf
    BY <1>1, <2>1 DEF AuthInv, UpToDate
  <2>3. ResolveAuthHeaders(o, x)
    BY <1>3
  <2> HIDE DEF x
  <2>4. QED BY <1>1, <1>2, <2>1, <2>2, <2>3, ResolvedKeeps
<1>4. CASE /\ Leave(o) /\ state' = Authorized
           /\ clean' = IF state = NoState THEN clean ELSE ~op[o].overtaken
  <2>1. state' \in State \cup {NoState} /\ clean' \in BOOLEAN
    BY <1>1, <1>4, AuthorizedFacts, Fields DEF TypeOK
  <2>2. StatusTruthful'
    <3>1. CASE state = NoState
      BY <1>2, <1>4, <3>1, Told DEF Authorized
    <3>2. CASE state # NoState
      <4>1. state'.status = "Authorized" /\ clean' = ~op[o].overtaken
        BY <1>1, <1>4, <3>2, AuthorizedFacts
      <4>2. ~op[o].overtaken /\ managed /\ conf = "oauth" => tokens # NoTokens
        BY <1>1 DEF AuthInv, UpToDate
      <4>3. QED BY <1>2, <4>1, <4>2 DEF StatusTruthful, server, credentials
    <3>3. QED BY <3>1, <3>2
  <2>3. SpentOnce'
    BY <1>2, SpentKept DEF AuthInv
  <2>4. QED BY <1>1, <1>2, <1>4, <2>1, <2>2, <2>3, LeavingKeeps DEF TypeOK
<1>5. CASE Leave(o) /\ Silent
  BY <1>1, <1>2, <1>5, LeavingKeeps, SpentKept, Told DEF Silent, TypeOK, AuthInv
<1>6. QED BY <1>3, <1>4, <1>5 DEF PostAnswered

LEMMA UnauthorizedKeeps == ASSUME AuthInv, NEW o \in Ops, HandleUnauthorized(o) PROVE AuthInv'
<1>1. /\ op[o] \in Op /\ o \notin Outstanding /\ TypeOK /\ Leave(o)
      /\ UNCHANGED <<server, credentials, flow, grants, exchanges, lost>>
  BY PostingFacts DEF HandleUnauthorized, AuthInv
<1>2. SpentOnce'
  BY <1>1, SpentKept DEF AuthInv
<1>3. CASE Silent
  BY <1>1, <1>2, <1>3, LeavingKeeps, Told DEF Silent, TypeOK
<1>4. CASE /\ \E named \in BOOLEAN : state' = [status |-> "AuthRequired", as |-> named]
           /\ clean' = ~op[o].overtaken
  <2>1. state' \in State /\ state'.status = "AuthRequired"
    BY <1>4 DEF State, Statuses
  <2>2. clean' \in BOOLEAN
    BY <1>1, <1>4, Fields
  <2>3. StatusTruthful'
    BY <1>1, <2>1, Told
  <2>4. QED BY <1>1, <1>2, <2>1, <2>2, <2>3, LeavingKeeps DEF TypeOK
<1>5. QED BY <1>3, <1>4 DEF HandleUnauthorized

LEMMA PostFailedKeeps == ASSUME AuthInv, NEW o \in Ops, PostFailed(o) PROVE AuthInv'
<1>1. /\ op[o] \in Op /\ o \notin Outstanding /\ TypeOK /\ Leave(o)
      /\ UNCHANGED <<server, state, credentials, flow, grants, exchanges, clean, lost>>
  BY PostingFacts DEF PostFailed, AuthInv
<1>2. SpentOnce' /\ StatusTruthful'
  BY <1>1, SpentKept, Told DEF AuthInv
<1>3. QED BY <1>1, <1>2, LeavingKeeps DEF TypeOK

-----------------------------------------------------------------------------
(* A grant is issued.  Where refresh tokens are rotated, what it brings is *)
(* new, and what it was asked with is used up.                             *)
LEMMA GrantKeeps ==
  ASSUME AuthInv, NEW o \in Ops, NEW from, NEW to, NEW r \in 0..newest',
         \/ from = "refreshing" /\ to = "refreshed"
         \/ from = "exchanging" /\ to = "exchanged",
         At(o, from), newest' \in newest..MaxGrants,
         op' = [op EXCEPT ![o].at = to, ![o].got = r],
         rotating /\ r # 0 => r > newest,
         \/ spent' = spent
         \/ rotating /\ to = "refreshed" /\ spent' = spent \cup {op[o].sent},
         UNCHANGED <<server, state, credentials, flow, exchanges, clean, lost>>
  PROVE  AuthInv'
<1> DEFINE y == Holding(op[o], to, r)
<1>1. /\ op[o] \in Op /\ op[o].at = from /\ op[o] # NoOp /\ TypeOK /\ op \in OpTypes
      /\ to \in {"refreshed", "exchanged"} /\ (to = "refreshed" => from = "refreshing")
      /\ from \notin {"refreshed", "exchanged"} /\ o \notin Outstanding
  BY PostingFacts DEF AuthInv, At, TypeOK, OpTypes
<1>2. /\ r \in 0..MaxGrants /\ newest \in Nat /\ newest' \in Nat /\ newest <= newest'
      /\ newest' \in 0..MaxGrants
  BY <1>1, BoundsAssumption DEF TypeOK
<1>3. /\ y \in Op /\ y.at = to /\ y.got = r /\ y.sent = op[o].sent /\ y.conf = op[o].conf
      /\ y.overtaken = op[o].overtaken
  <2>1. /\ op[o] \in Op /\ to \in {"refreshed", "exchanged"} /\ r \in 0..MaxGrants
    BY <1>1, <1>2
  <2>2. /\ Holding(op[o], to, r) \in Op
        /\ Holding(op[o], to, r).at = to /\ Holding(op[o], to, r).got = r
        /\ Holding(op[o], to, r).sent = op[o].sent
        /\ Holding(op[o], to, r).conf = op[o].conf
        /\ Holding(op[o], to, r).overtaken = op[o].overtaken
    BY <2>1 DEF Op, Holding
  <2>3. QED BY <2>2
<1>4. op' = [op EXCEPT ![o] = y]
  BY <1>1 DEF OpTypes, Holding
<1> HIDE DEF y
<1>5. /\ op' \in OpTypes /\ op'[o] = y /\ y # NoOp
      /\ \A p \in Ops : p # o => op'[p] = op[p]
  BY <1>1, <1>3, <1>4, NoneAssumption DEF OpTypes
<1>6. to = "refreshed" => op[o].sent \in 1..newest
  BY <1>1 DEF AuthInv, GrantsKept, At
<1>7. spent \subseteq 1..newest /\ spent' \subseteq 1..newest /\ spent \subseteq spent'
  BY <1>1, <1>6 DEF TypeOK
<1>8. TypeOK'
  BY <1>2, <1>5, <1>7 DEF AuthInv, TypeOK, OpTypes, server, credentials
<1>9. GrantsKept'
  <2>1. UNCHANGED <<rotating, tokens, lost>> /\ GrantsKept
    BY DEF AuthInv, server, credentials
  <2>2. /\ \A p \in Outstanding' : p # o => p \in Outstanding /\ op'[p] = op[p]
        /\ \A p \in Ops : At(p, "refreshing")' => At(p, "refreshing") /\ op'[p] = op[p]
    BY <1>1, <1>3, <1>5 DEF Outstanding, At
  <2>3. KeptInStep'
    <3> SUFFICES ASSUME tokens # NoTokens, tokens.refresh \in spent', tokens.refresh \notin lost
                 PROVE  \E p \in Ops : At(p, "refreshed")' /\ op'[p].sent = tokens.refresh
      BY <2>1 DEF KeptInStep
    <3>1. CASE tokens.refresh \in spent
      <4>1. PICK p \in Ops : At(p, "refreshed") /\ op[p].sent = tokens.refresh
        BY <2>1, <3>1 DEF GrantsKept, KeptInStep
      <4>2. p # o
        BY <1>1, <4>1 DEF At
      <4>3. QED BY <1>5, <4>1, <4>2 DEF At
    <3>2. CASE tokens.refresh \notin spent
      <4>1. tokens.refresh = op[o].sent /\ to = "refreshed"
        BY <3>2
      <4>2. At(o, "refreshed")' /\ op'[o].sent = op[o].sent
        BY <1>3, <1>5, <4>1 DEF At
      <4>3. QED BY <4>1, <4>2
    <3>3. QED BY <3>1, <3>2
  <2>4. ~rotating => spent' = {}
    BY <2>1 DEF GrantsKept
  <2>5. tokens # NoTokens => tokens.refresh \in 0..newest'
    BY <1>2, <2>1 DEF GrantsKept
  <2>6. \A p \in Ops : At(p, "refreshing")' => op'[p].sent \in 1..newest'
    <3> SUFFICES ASSUME NEW p \in Ops, At(p, "refreshing")' PROVE op'[p].sent \in 1..newest'
      OBVIOUS
    <3>1. op'[p] = op[p] /\ op[p].sent \in 1..newest
      BY <2>1, <2>2 DEF GrantsKept
    <3>2. QED BY <1>2, <3>1
  <2>7. ASSUME NEW p \in Outstanding' PROVE op'[p].got \in 0..newest' /\ Private(p)'
    <3>1. CASE p = o
      <4>1. op'[p].got = r
        BY <1>3, <1>5, <3>1
      <4>2. ASSUME rotating, r # 0
            PROVE  /\ r \notin spent'
                   /\ tokens # NoTokens => tokens.refresh # r
                   /\ \A q \in Ops : At(q, "refreshing")' => op'[q].sent # r
                   /\ \A q \in Outstanding' : q # o => op'[q].got # r
        <5>1. r > newest /\ r \in Nat
          BY <1>2, <4>2
        <5>2. r \notin spent' /\ (tokens # NoTokens => tokens.refresh # r)
          BY <1>2, <1>7, <2>1, <5>1 DEF GrantsKept
        <5>3. ASSUME NEW q \in Ops, At(q, "refreshing")' PROVE op'[q].sent # r
          <6>1. op'[q] = op[q] /\ op[q].sent \in 1..newest
            BY <2>1, <2>2, <5>3 DEF GrantsKept
          <6>2. QED BY <1>2, <5>1, <6>1
        <5>4. ASSUME NEW q \in Outstanding', q # o PROVE op'[q].got # r
          <6>1. op'[q].got = op[q].got /\ op[q].got \in 0..newest
            BY <2>1, <2>2, <5>4 DEF GrantsKept
          <6>2. op[q].got # r
            BY <1>2, <5>1, <6>1
          <6>3. QED BY <6>1, <6>2
        <5>5. QED BY <5>2, <5>3, <5>4
      <4>3. QED BY <2>1, <3>1, <4>1, <4>2 DEF Private
    <3>2. CASE p # o
      <4>1. p \in Outstanding /\ op'[p] = op[p] /\ op[p].got \in 0..newest /\ Private(p)
        BY <2>1, <2>2, <3>2 DEF GrantsKept
      <4>2. ASSUME rotating, op[p].got # 0
            PROVE  /\ op[p].got \notin spent'
                   /\ tokens # NoTokens => tokens.refresh # op[p].got
                   /\ \A q \in Ops : At(q, "refreshing")' => op'[q].sent # op[p].got
                   /\ \A q \in Outstanding' : q # p => op'[q].got # op[p].got
        <5>1. op[p].got \notin spent'
          BY <1>1, <4>1, <4>2 DEF Private
        <5>2. tokens # NoTokens => tokens.refresh # op[p].got
          BY <4>1, <4>2 DEF Private
        <5>3. \A q \in Ops : At(q, "refreshing")' => op'[q].sent # op[p].got
          BY <2>2, <4>1, <4>2 DEF Private
        <5>4. ASSUME NEW q \in Outstanding', q # p PROVE op'[q].got # op[p].got
          <6>1. CASE q = o
            <7>1. op'[q].got = r
              BY <1>3, <1>5, <6>1
            <7>2. CASE r = 0
              BY <4>2, <7>1, <7>2
            <7>3. CASE r # 0
              BY <1>2, <4>1, <4>2, <7>1, <7>3
            <7>4. QED BY <7>2, <7>3
          <6>2. CASE q # o
            BY <2>2, <4>1, <4>2, <5>4, <6>2 DEF Private
          <6>3. QED BY <6>1, <6>2
        <5>5. QED BY <5>1, <5>2, <5>3, <5>4
      <4>3. op'[p].got \in 0..newest'
        BY <1>2, <4>1
      <4>4. QED BY <2>1, <4>1, <4>2, <4>3 DEF Private
    <3>3. QED BY <3>1, <3>2
  <2>8. QED BY <2>1, <2>3, <2>4, <2>5, <2>6, <2>7 DEF GrantsKept
<1>10. UpToDate'
  BY <1>1, <1>3, <1>5 DEF UpToDate, AuthInv, server, credentials
<1>11. SpentOnce' /\ StatusTruthful'
  BY SpentKept, Told DEF AuthInv
<1>12. QED BY <1>8, <1>9, <1>10, <1>11 DEF AuthInv

(* A grant is stored, by an operation that goes on or ends: every other    *)
(* one is overtaken.                                                       *)
LEMMA StoreKeeps ==
  ASSUME AuthInv, NEW o \in Ops, o \in Outstanding, NEW fresh \in BOOLEAN,
         Store(o, fresh), NEW y \in Op \cup {NoOp}, op' = [Overtaken EXCEPT ![o] = y],
         y # NoOp => y.at = "posting" /\ y.conf = op[o].conf /\ y.overtaken = op[o].overtaken,
         UNCHANGED <<server, flow, grants, exchanges>>
  PROVE  AuthInv'
<1>1. /\ TypeOK /\ op[o] \in Op /\ op[o] # NoOp
      /\ op[o].overtaken \in BOOLEAN /\ op[o].got \in 0..MaxGrants
  <2>1. TypeOK /\ op[o] \in Op
    BY DEF AuthInv, TypeOK, Outstanding, At
  <2>2. QED BY <2>1, Fields
<1>2. \A p \in Ops : p # o =>
        /\ op[p] = NoOp => op'[p] = NoOp
        /\ op[p] # NoOp =>
             /\ op'[p] \in Op /\ op'[p] # NoOp /\ op'[p].overtaken /\ op'[p].at = op[p].at
             /\ op'[p].sent = op[p].sent /\ op'[p].got = op[p].got
  <2>1. \A p \in Ops : p # o /\ op[p] = NoOp => op'[p] = NoOp
    BY DEF Overtaken
  <2>2. ASSUME NEW p \in Ops, p # o, op[p] # NoOp
        PROVE  /\ op'[p] \in Op /\ op'[p].overtaken = TRUE /\ op'[p].at = op[p].at
               /\ op'[p].sent = op[p].sent /\ op'[p].got = op[p].got
    <3>1. op[p] \in Op /\ op'[p] = Late(op[p])
      BY <1>1, <2>2 DEF Overtaken, Late, TypeOK
    <3>2. Late(op[p]) \in Op /\ Late(op[p]).overtaken = TRUE /\ Late(op[p]).at = op[p].at
      BY <3>1, LateFields
    <3>3. Late(op[p]).sent = op[p].sent /\ Late(op[p]).got = op[p].got
      BY <3>1, LateFields
    <3>4. QED BY <3>1, <3>2, <3>3
  <2>3. QED BY <2>1, <2>2, NoneAssumption
<1>3. op'[o] = y
  BY DEF Overtaken
<1>4. op' \in OpTypes
  <2>1. \A p \in Ops : op'[p] \in Op \cup {NoOp}
    BY <1>2, <1>3
  <2>2. op' = [p \in Ops |-> op'[p]]
    BY DEF Overtaken
  <2>3. QED BY <2>1, <2>2 DEF OpTypes
<1>5. /\ tokens' = [refresh |-> op[o].got, fresh |-> fresh]
      /\ state' = Authorized /\ secret' = secret /\ lost' = lost
      /\ clean' = IF state = NoState THEN clean ELSE ~op[o].overtaken
      /\ UNCHANGED <<conf, managed, rotating, newest, spent>>
  BY DEF Store, server, grants
<1>6. op[o].got \in 0..newest /\ Private(o) /\ GrantsKept
  BY DEF AuthInv, GrantsKept
<1>7. tokens' \in Tokens /\ tokens' # NoTokens /\ tokens'.refresh = op[o].got
  <2>1. tokens' \in Tokens
    BY <1>1, <1>5 DEF Tokens
  <2>2. QED BY <1>5, <2>1, NoneAssumption
<1>8. TypeOK'
  <2>1. state' \in State \cup {NoState} /\ clean' \in BOOLEAN
    BY <1>1, <1>5, AuthorizedFacts DEF TypeOK
  <2>2. QED BY <1>1, <1>4, <1>5, <1>7, <2>1 DEF TypeOK, OpTypes
<1>9. o \notin Outstanding' /\ ~At(o, "refreshing")'
  BY <1>3 DEF Outstanding, At
<1>10. /\ \A p \in Outstanding' : p # o /\ p \in Outstanding /\ op'[p].got = op[p].got
       /\ \A p \in Ops : At(p, "refreshing")' => At(p, "refreshing") /\ op'[p].sent = op[p].sent
  BY <1>2, <1>9 DEF Outstanding, At
<1>11. GrantsKept'
  <2>1. op[o].got \notin spent
    <3>1. spent \subseteq 1..newest /\ newest \in Nat
      BY <1>1, BoundsAssumption DEF TypeOK
    <3>2. QED BY <1>6, <3>1 DEF GrantsKept, Private
  <2>2. KeptInStep'
    BY <1>5, <1>7, <2>1 DEF KeptInStep
  <2>3. ASSUME NEW p \in Outstanding' PROVE op'[p].got \in 0..newest' /\ Private(p)'
    <3>1. /\ p # o /\ p \in Outstanding /\ op'[p].got = op[p].got
          /\ op[p].got \in 0..newest /\ Private(p)
      BY <1>6, <1>10 DEF GrantsKept
    <3>2. ASSUME rotating, op[p].got # 0
          PROVE  /\ op[p].got \notin spent
                 /\ op[o].got # op[p].got
                 /\ \A q \in Ops : At(q, "refreshing")' => op'[q].sent # op[p].got
                 /\ \A q \in Outstanding' : q # p => op'[q].got # op[p].got
      BY <1>10, <3>1, <3>2 DEF Private
    <3>3. QED BY <1>5, <1>7, <3>1, <3>2 DEF Private
  <2>4. \A p \in Ops : At(p, "refreshing")' => op'[p].sent \in 1..newest'
    BY <1>5, <1>6, <1>10 DEF GrantsKept
  <2>5. QED BY <1>5, <1>6, <1>7, <2>2, <2>3, <2>4 DEF GrantsKept
<1>12. UpToDate'
  <2> SUFFICES ASSUME NEW p \in Ops, op'[p] # NoOp, ~op'[p].overtaken
               PROVE  /\ op'[p].conf = conf'
                      /\ op'[p].at = "posting" => tokens' # NoTokens
                      /\ op'[p].at \notin {"refreshing", "refreshed"}
    BY DEF UpToDate
  <2>1. p = o
    BY <1>2
  <2>2. QED BY <1>1, <1>3, <1>7, <2>1 DEF UpToDate, AuthInv, server
<1>13. StatusTruthful'
  <2>1. state' # NoState => state'.status = "Authorized"
    BY <1>1, <1>5, AuthorizedFacts DEF Authorized
  <2>2. QED BY <1>7, <2>1 DEF StatusTruthful
<1>14. SpentOnce'
  BY SpentKept DEF AuthInv
<1>15. QED BY <1>8, <1>11, <1>12, <1>13, <1>14 DEF AuthInv

LEMMA RefreshedKeeps == ASSUME AuthInv, NEW o \in Ops, Refreshed(o) PROVE AuthInv'
<1>1. o \in Outstanding /\ op[o] \in Op
  BY DEF Refreshed, Outstanding, At, AuthInv, TypeOK
<1>2. PICK fresh \in BOOLEAN : Store(o, fresh)
  BY DEF Refreshed
<1>3. UNCHANGED <<server, flow, grants, exchanges>> /\ op' = [Overtaken EXCEPT ![o] = Sent(op[o])]
  BY DEF Refreshed, Sent
<1>4. /\ Sent(op[o]) \in Op /\ Sent(op[o]).at = "posting"
      /\ Sent(op[o]).conf = op[o].conf /\ Sent(op[o]).overtaken = op[o].overtaken
  BY <1>1, Fields
<1>5. QED BY <1>1, <1>2, <1>3, <1>4, StoreKeeps

LEMMA CompletedKeeps == ASSUME AuthInv, NEW o \in Ops, CompletedOAuth(o) PROVE AuthInv'
<1>1. o \in Outstanding
  BY DEF CompletedOAuth, Outstanding
<1>2. Store(o, TRUE)
  BY DEF CompletedOAuth
<1>3. op' = [Overtaken EXCEPT ![o] = NoOp] /\ UNCHANGED <<server, flow, grants, exchanges>>
  BY DEF CompletedOAuth
<1>4. QED BY <1>1, <1>2, <1>3, StoreKeeps

LEMMA UnansweredFacts ==
  ASSUME TypeOK, NEW O
  PROVE  /\ lost \subseteq Unanswered(O) /\ Unanswered(O) \subseteq 0..MaxGrants
         /\ \A o \in O : At(o, "refreshed") /\ op[o].sent \in spent => op[o].sent \in Unanswered(O)
<1>1. Unanswered(O) \subseteq lost \cup spent
  BY DEF Unanswered
<1>2. 1..newest \subseteq 0..MaxGrants /\ spent \subseteq 1..newest /\ lost \subseteq 0..MaxGrants
  BY BoundsAssumption DEF TypeOK
<1>3. Unanswered(O) \subseteq 0..MaxGrants
  BY <1>1, <1>2
<1>4. QED BY <1>3 DEF Unanswered

(* An operation gives up, perhaps with an answer on its way.               *)
LEMMA LossKeeps ==
  ASSUME AuthInv, NEW o \in Ops, Leave(o), UNCHANGED <<server, credentials, grants>>,
         lost' = Unanswered({o}) \/ (lost' = lost /\ ~At(o, "refreshed"))
  PROVE  op' \in OpTypes /\ GrantsKept' /\ UpToDate' /\ lost' \subseteq 0..MaxGrants
<1>1. /\ op \in OpTypes /\ op' = [op EXCEPT ![o] = NoOp] /\ TypeOK /\ GrantsKept
      /\ UNCHANGED <<conf, managed, rotating, tokens, newest, spent>>
  BY DEF AuthInv, TypeOK, OpTypes, Leave, server, credentials, grants
<1>2. op' \in OpTypes /\ op'[o] = NoOp /\ \A p \in Ops : p # o => op'[p] = op[p]
  BY <1>1 DEF OpTypes
<1>3. /\ lost \subseteq lost' /\ lost' \subseteq 0..MaxGrants
      /\ At(o, "refreshed") /\ op[o].sent \in spent => op[o].sent \in lost'
  <2>1. CASE lost' = Unanswered({o})
    BY <1>1, <2>1, UnansweredFacts
  <2>2. CASE lost' = lost /\ ~At(o, "refreshed")
    BY <1>1, <2>2 DEF TypeOK
  <2>3. QED BY <2>1, <2>2
<1>4. GrantsKept'
  <2>1. \A p \in Ops : At(p, "refreshed") =>
            \/ op'[p] # NoOp /\ op'[p].at = "refreshed" /\ op'[p].sent = op[p].sent
            \/ op[p].sent \in spent => op[p].sent \in lost'
    BY <1>2, <1>3 DEF At
  <2>2. \A p \in Outstanding' : p \in Outstanding /\ op'[p].got = op[p].got
    BY <1>2 DEF Outstanding, At
  <2>3. \A p \in Ops : op'[p] # NoOp /\ op'[p].at = "refreshing" =>
            At(p, "refreshing") /\ op'[p].sent = op[p].sent
    BY <1>2 DEF At
  <2>4. QED BY <1>1, <1>3, <2>1, <2>2, <2>3, GrantsUntouched
<1>5. UpToDate'
  BY <1>1, <1>2 DEF UpToDate, AuthInv
<1>6. QED BY <1>2, <1>3, <1>4, <1>5

LEMMA RefreshFailedKeeps == ASSUME AuthInv, NEW o \in Ops, RefreshFailed(o) PROVE AuthInv'
<1>1. /\ op[o] \in Op /\ op[o] # NoOp /\ op[o].at \in {"refreshing", "refreshed"}
      /\ TypeOK /\ Leave(o) /\ Report(op[o], "RefreshFailed")
      /\ lost' = Unanswered({o})
      /\ UNCHANGED <<server, credentials, flow, grants, exchanges>>
  BY DEF RefreshFailed, AuthInv, TypeOK, At
<1>2. op[o].overtaken \in BOOLEAN
  BY <1>1, Fields
<1>3. state' \in State /\ clean' = ~op[o].overtaken
  <2>1. "RefreshFailed" \in Statuses
    BY DEF Statuses
  <2>2. QED BY <1>1, <2>1, Saying DEF Report
<1>4. StatusTruthful'
  <2>1. ~op[o].overtaken /\ managed => tokens # NoTokens /\ ~tokens.fresh
    BY <1>1 DEF AuthInv, UpToDate
  <2>2. QED BY <1>1, <1>3, <2>1 DEF StatusTruthful, server, credentials
<1>5. op' \in OpTypes /\ GrantsKept' /\ UpToDate' /\ lost' \subseteq 0..MaxGrants
  BY <1>1, LossKeeps
<1>6. TypeOK'
  BY <1>1, <1>2, <1>3, <1>5 DEF TypeOK, OpTypes, server, credentials, grants
<1>7. QED BY <1>1, <1>4, <1>5, <1>6, SpentKept DEF AuthInv

LEMMA LoginFailedKeeps == ASSUME AuthInv, NEW o \in Ops, LoginFailed(o) PROVE AuthInv'
<1>1. /\ op[o] # NoOp /\ op[o].at \in {"discovering", "exchanging", "exchanged"}
      /\ TypeOK /\ Leave(o)
      /\ UNCHANGED <<server, state, credentials, flow, grants, exchanges, clean, lost>>
  BY DEF LoginFailed, AuthInv, TypeOK, At
<1>2. op' \in OpTypes /\ GrantsKept' /\ UpToDate'
  <2>1. ~At(o, "refreshed")
    BY <1>1 DEF At
  <2>2. QED BY <1>1, <2>1, LossKeeps
<1>3. TypeOK'
  BY <1>1, <1>2 DEF TypeOK, OpTypes, server, credentials, grants
<1>4. QED BY <1>1, <1>2, <1>3, SpentKept, Told DEF AuthInv

-----------------------------------------------------------------------------
FlowTypes == [Flows -> {"unused", "pending", "expired", "gone"}]

LEMMA PrunedFacts ==
  ASSUME TypeOK
  PROVE  Pruned \in FlowTypes /\ \A f \in Flows : Pruned[f] \in {flow[f], "gone"}
BY DEF TypeOK, Pruned, FlowTypes

(* The first half of a login, and the exchange of its code, begin.         *)
LEMMA StepBegins ==
  ASSUME AuthInv, NEW o \in Ops, Idle(o),
         NEW kind \in {"begin", "complete"}, NEW at \in {"discovering", "exchanging"},
         op' = [op EXCEPT ![o] = [kind |-> kind, at |-> at, conf |-> conf, left |-> 1, sent |-> 0, got |-> 0,
                                  overtaken |-> FALSE]],
         flow' \in FlowTypes, exchanges' \in [Flows -> Nat], SpentOnce',
         UNCHANGED <<server, state, credentials, grants, clean, lost>>
  PROVE  AuthInv'
<1> DEFINE y == [kind |-> kind, at |-> at, conf |-> conf, left |-> 1, sent |-> 0, got |-> 0,
                 overtaken |-> FALSE]
<1>1. y \in Op
  BY ModeFacts, Begun DEF AuthInv
<1>2. y.conf = conf /\ y.at = at
  OBVIOUS
<1>3. op' = [op EXCEPT ![o] = y]
  OBVIOUS
<1> HIDE DEF y
<1>4. o \notin Outstanding
  BY DEF Idle, Outstanding, At
<1>5. op' \in OpTypes /\ GrantsKept' /\ UpToDate'
  BY <1>1, <1>2, <1>3, <1>4, Replaced
<1>6. TypeOK'
  BY <1>5 DEF AuthInv, TypeOK, OpTypes, FlowTypes, server, credentials, grants
<1>7. QED BY <1>5, <1>6, Told DEF AuthInv

LEMMA BeginOAuthKeeps == ASSUME AuthInv, NEW o \in Ops, BeginOAuth(o) PROVE AuthInv'
<1>1. TypeOK /\ SpentOnce /\ flow' = Pruned /\ exchanges' = exchanges
  BY DEF BeginOAuth, AuthInv
<1>2. flow' \in FlowTypes /\ SpentOnce'
  BY <1>1, PrunedFacts DEF SpentOnce
<1>3. QED BY <1>1, <1>2, StepBegins DEF BeginOAuth, TypeOK

LEMMA BegunOAuthKeeps ==
  ASSUME AuthInv, NEW o \in Ops, NEW f \in Flows, BegunOAuth(o, f) PROVE AuthInv'
<1>1. /\ op[o] \in Op /\ o \notin Outstanding /\ TypeOK /\ Leave(o)
      /\ flow[f] = "unused" /\ flow' = [flow EXCEPT ![f] = "pending"]
      /\ state' = [Current(op[o].conf) EXCEPT !.status = "Configured", !.as = TRUE]
      /\ clean' = ~op[o].overtaken
      /\ UNCHANGED <<server, credentials, grants, exchanges, lost>>
  BY PostingFacts DEF BegunOAuth, AuthInv
<1>2. state' \in State /\ state'.status = "Configured"
  <2>1. Current(op[o].conf) \in State
    BY <1>1, DefaultFacts
  <2>2. QED BY <1>1, <2>1 DEF State, Statuses
<1>3. clean' \in BOOLEAN
  BY <1>1, Fields
<1>4. StatusTruthful'
  BY <1>1, <1>2, Told
<1>5. flow' \in FlowTypes /\ SpentOnce'
  BY <1>1 DEF TypeOK, FlowTypes, AuthInv, SpentOnce
<1>6. QED BY <1>1, <1>2, <1>3, <1>4, <1>5, LeavingKeeps DEF TypeOK, FlowTypes

LEMMA CompleteOAuthKeeps ==
  ASSUME AuthInv, NEW o \in Ops, NEW f \in Flows, CompleteOAuth(o, f) PROVE AuthInv'
<1>1. /\ TypeOK /\ SpentOnce /\ Idle(o) /\ flow[f] = "pending"
      /\ flow' = [Pruned EXCEPT ![f] = "gone"]
      /\ UNCHANGED <<server, state, credentials, grants, clean, lost>>
  BY DEF CompleteOAuth, AuthInv
<1>2. /\ flow' \in FlowTypes /\ flow'[f] = "gone"
      /\ \A g \in Flows : g # f => flow'[g] \in {flow[g], "gone"}
  BY <1>1, PrunedFacts DEF FlowTypes
<1>3. exchanges \in [Flows -> Nat] /\ exchanges[f] = 0
  BY <1>1 DEF TypeOK, SpentOnce
<1>4. CASE /\ exchanges' = [exchanges EXCEPT ![f] = @ + 1]
           /\ op' = [op EXCEPT ![o] = [kind |-> "complete", at |-> "exchanging",
                                       conf |-> conf, left |-> 1, sent |-> 0, got |-> 0,
                                       overtaken |-> FALSE]]
  <2>1. exchanges' \in [Flows -> Nat] /\ exchanges'[f] = 1
    BY <1>3, <1>4
  <2>2. SpentOnce'
    BY <1>1, <1>2, <1>3, <1>4, <2>1 DEF SpentOnce
  <2>3. QED BY <1>1, <1>2, <1>4, <2>1, <2>2, StepBegins
<1>5. CASE UNCHANGED <<op, exchanges>>
  <2>1. SpentOnce'
    BY <1>1, <1>2, <1>5 DEF SpentOnce
  <2>2. QED
    BY <1>1, <1>2, <1>3, <1>5, <2>1, Told
       DEF AuthInv, TypeOK, FlowTypes, server, credentials, grants, GrantsKept, KeptInStep, Private,
           UpToDate, Outstanding, At
<1>6. QED BY <1>4, <1>5 DEF CompleteOAuth

-----------------------------------------------------------------------------
(* The administrator, the configuration, time and restarts.                *)

LEMMA SaveKeeps == ASSUME AuthInv, SaveManagedBearer PROVE AuthInv'
<1>1. /\ TypeOK /\ conf = "secret" /\ op' = Overtaken /\ state' = Said(conf, "Configured")
      /\ secret' = TRUE /\ clean' = TRUE
      /\ UNCHANGED <<server, tokens, flow, grants, exchanges, lost>>
  BY DEF SaveManagedBearer, AuthInv
<1>2. op' \in OpTypes /\ GrantsKept' /\ UpToDate'
  BY <1>1, AllOvertaken DEF server
<1>3. state' \in State
  <2>1. "Configured" \in Statuses
    BY DEF Statuses
  <2>2. QED BY <1>1, <2>1, Saying
<1>4. TypeOK'
  BY <1>1, <1>2, <1>3 DEF TypeOK, OpTypes, server, grants
<1>5. StatusTruthful'
  BY <1>1 DEF StatusTruthful, server
<1>6. QED BY <1>1, <1>2, <1>4, <1>5, SpentKept DEF AuthInv

LEMMA DisconnectKeeps == ASSUME AuthInv, Disconnect PROVE AuthInv'
<1>1. /\ TypeOK /\ op' = Overtaken /\ state' = DefaultState(conf) /\ clean' = TRUE
      /\ tokens' \in {tokens, NoTokens} /\ secret' \in {secret, FALSE}
      /\ UNCHANGED <<server, flow, grants, exchanges, lost>>
  BY DEF Disconnect, AuthInv
<1>2. op' \in OpTypes /\ GrantsKept' /\ UpToDate'
  BY <1>1, AllOvertaken DEF server
<1>3. state' \in State /\ state'.status \in {"None", "Configured"}
  BY <1>1, DefaultFacts
<1>4. TypeOK'
  BY <1>1, <1>2, <1>3 DEF TypeOK, OpTypes, server, grants
<1>5. StatusTruthful'
  BY <1>3 DEF StatusTruthful
<1>6. QED BY <1>1, <1>2, <1>4, <1>5, SpentKept DEF AuthInv

LEMMA SyncKeeps == ASSUME AuthInv, NEW c \in Configs, SyncServers(c) PROVE AuthInv'
<1>1. /\ TypeOK /\ conf' = c /\ op' = Overtaken /\ clean' = (state = NoState)
      /\ state' = IF c = "absent" THEN NoState ELSE Current(c)
      /\ UNCHANGED <<managed, rotating, credentials, flow, grants, exchanges, lost>>
  BY DEF SyncServers, AuthInv
<1>2. op' \in OpTypes /\ GrantsKept' /\ UpToDate'
  BY <1>1, AllOvertaken DEF credentials
<1>3. state' \in State \cup {NoState}
  BY <1>1, DefaultFacts
<1>4. TypeOK'
  BY <1>1, <1>2, <1>3 DEF TypeOK, OpTypes, credentials, grants
<1>5. StatusTruthful'
  <2>1. state = NoState => Current(c).status \in {"None", "Configured"}
    BY <1>1, DefaultFacts DEF Current
  <2>2. QED BY <1>1, <2>1 DEF StatusTruthful
<1>6. QED BY <1>1, <1>2, <1>4, <1>5, SpentKept DEF AuthInv

LEMMA TokensExpireKeeps == ASSUME AuthInv, TokensExpire PROVE AuthInv'
<1>1. /\ TypeOK /\ tokens \in Tokens /\ tokens # NoTokens
      /\ tokens' = [tokens EXCEPT !.fresh = FALSE]
      /\ UNCHANGED <<server, state, secret, flow, op, grants, exchanges, clean, lost>>
  BY DEF TokensExpire, AuthInv, TypeOK
<1>2. tokens' \in Tokens /\ tokens'.refresh = tokens.refresh /\ ~tokens'.fresh
  BY <1>1 DEF Tokens
<1>3. tokens' # NoTokens
  BY <1>2, NoneAssumption
<1>4. TypeOK'
  BY <1>1, <1>2 DEF TypeOK, server, grants
<1>5. GrantsKept'
  BY <1>1, <1>2, <1>3 DEF AuthInv, GrantsKept, KeptInStep, Private, Outstanding, At, server, grants
<1>6. UpToDate'
  BY <1>1, <1>2, <1>3 DEF AuthInv, UpToDate, server
<1>7. StatusTruthful'
  BY <1>1, <1>2, <1>3 DEF AuthInv, StatusTruthful, server
<1>8. QED BY <1>1, <1>4, <1>5, <1>6, <1>7, SpentKept DEF AuthInv

LEMMA FlowExpiresKeeps == ASSUME AuthInv, NEW f \in Flows, FlowExpires(f) PROVE AuthInv'
<1>1. /\ TypeOK /\ SpentOnce /\ flow[f] = "pending" /\ flow' = [flow EXCEPT ![f] = "expired"]
      /\ UNCHANGED <<server, state, credentials, op, grants, exchanges, clean, lost>>
  BY DEF FlowExpires, AuthInv
<1>2. TypeOK' /\ SpentOnce'
  BY <1>1 DEF TypeOK, SpentOnce, server, credentials, grants
<1>3. GrantsKept' /\ UpToDate' /\ StatusTruthful'
  BY <1>1 DEF AuthInv, GrantsKept, KeptInStep, Private, Outstanding, At, UpToDate, StatusTruthful,
              server, credentials, grants
<1>4. QED BY <1>2, <1>3 DEF AuthInv

LEMMA RestartKeeps == ASSUME AuthInv, Restart PROVE AuthInv'
<1>1. /\ TypeOK /\ SpentOnce /\ op' = [o \in Ops |-> NoOp] /\ clean' = TRUE
      /\ state' = IF conf = "absent" THEN NoState ELSE DefaultState(conf)
      /\ flow' = [f \in Flows |-> IF flow[f] = "unused" THEN "unused" ELSE "gone"]
      /\ lost' = Unanswered(Ops)
      /\ UNCHANGED <<server, credentials, grants, exchanges>>
  BY DEF Restart, AuthInv
<1>2. state' = NoState \/ (state' \in State /\ state'.status \in {"None", "Configured"})
  BY <1>1, DefaultFacts
<1>3. TypeOK'
  <2>1. lost' \subseteq 0..MaxGrants
    BY <1>1, UnansweredFacts
  <2>2. QED BY <1>1, <1>2, <2>1 DEF TypeOK, server, credentials, grants
<1>4. SpentOnce'
  BY <1>1 DEF SpentOnce
<1>5. GrantsKept'
  <2>1. \A o \in Ops : op'[o] = NoOp
    BY <1>1
  <2>2. Outstanding' = {}
    BY <2>1 DEF Outstanding, At
  <2>3. /\ lost \subseteq lost'
        /\ \A o \in Ops : At(o, "refreshed") /\ op[o].sent \in spent => op[o].sent \in lost'
    BY <1>1 DEF Unanswered
  <2>4. GrantsKept /\ UNCHANGED <<rotating, tokens, newest, spent>>
    BY <1>1 DEF AuthInv, server, credentials, grants
  <2>5. QED BY <2>1, <2>2, <2>3, <2>4, GrantsUntouched
<1>6. UpToDate' /\ StatusTruthful'
  BY <1>1, <1>2 DEF UpToDate, StatusTruthful
<1>7. QED BY <1>3, <1>4, <1>5, <1>6 DEF AuthInv

-----------------------------------------------------------------------------
LEMMA AuthStep == ASSUME AuthInv, [Next]_vars PROVE AuthInv'
<1>1. ASSUME NEW o \in Ops, Use(o) PROVE AuthInv'
  <2>1. CASE GrantRefresh(o)
    <3>1. /\ At(o, "refreshing") /\ newest \in Nat /\ TypeOK
          /\ UNCHANGED <<server, state, credentials, flow, exchanges, clean, lost>>
      BY <2>1, BoundsAssumption DEF GrantRefresh, AuthInv, TypeOK
    <3>2. CASE /\ newest < MaxGrants /\ newest' = newest + 1
               /\ op' = [op EXCEPT ![o].at = "refreshed", ![o].got = newest']
               /\ spent' = IF rotating THEN spent \cup {op[o].sent} ELSE spent
      <4>1. newest' \in 0..newest' /\ newest' \in newest..MaxGrants /\ newest' > newest
        BY <3>1, <3>2, BoundsAssumption
      <4>2. QED BY <3>1, <3>2, <4>1, GrantKeeps
    <3>3. CASE /\ ~rotating /\ UNCHANGED grants
               /\ op' = [op EXCEPT ![o].at = "refreshed", ![o].got = op[o].sent]
      <4>1. op[o].sent \in 0..newest' /\ newest' = newest /\ spent' = spent
        BY <3>1, <3>3 DEF AuthInv, GrantsKept, grants
      <4>2. newest' \in newest..MaxGrants
        BY <3>1, <4>1, BoundsAssumption DEF TypeOK
      <4>3. QED BY <3>1, <3>3, <4>1, <4>2, GrantKeeps
    <3>4. QED BY <2>1, <3>2, <3>3 DEF GrantRefresh
  <2>2. QED
    BY <1>1, <2>1, BeginUseKeeps, PostAnsweredKeeps, UnauthorizedKeeps, PostFailedKeeps,
       RefreshedKeeps, RefreshFailedKeeps DEF Use
<1>2. ASSUME NEW o \in Ops, Login(o) PROVE AuthInv'
  <2>1. CASE GrantExchange(o)
    <3>1. /\ At(o, "exchanging") /\ newest \in Nat /\ TypeOK /\ spent' = spent
          /\ UNCHANGED <<server, state, credentials, flow, exchanges, clean, lost>>
      BY <2>1, BoundsAssumption DEF GrantExchange, AuthInv, TypeOK
    <3>2. CASE /\ newest < MaxGrants /\ newest' = newest + 1
               /\ op' = [op EXCEPT ![o].at = "exchanged", ![o].got = newest']
      <4>1. newest' \in 0..newest' /\ newest' \in newest..MaxGrants /\ newest' > newest
        BY <3>1, <3>2, BoundsAssumption
      <4>2. QED BY <3>1, <3>2, <4>1, GrantKeeps
    <3>3. CASE newest' = newest /\ op' = [op EXCEPT ![o].at = "exchanged", ![o].got = 0]
      <4>1. 0 \in 0..newest' /\ newest' \in newest..MaxGrants
        BY <3>1, <3>3, BoundsAssumption DEF TypeOK
      <4>2. QED BY <3>1, <3>3, <4>1, GrantKeeps
    <3>4. QED BY <2>1, <3>2, <3>3 DEF GrantExchange
  <2>2. QED
    BY <1>2, <2>1, BeginOAuthKeeps, BegunOAuthKeeps, CompleteOAuthKeeps, CompletedKeeps,
       LoginFailedKeeps DEF Login
<1>3. CASE UNCHANGED vars
  <2>1. /\ UNCHANGED <<conf, managed, rotating, state, secret, tokens, flow, op>>
        /\ UNCHANGED <<newest, spent, exchanges, clean, lost>>
    BY <1>3 DEF vars, server, credentials, grants
  <2>2. TypeOK' /\ SpentOnce' /\ UpToDate' /\ StatusTruthful'
    BY <2>1 DEF AuthInv, TypeOK, SpentOnce, UpToDate, StatusTruthful
  <2>3. GrantsKept'
    BY <2>1 DEF AuthInv, GrantsKept, KeptInStep, Private, Outstanding, At
  <2>4. QED BY <2>2, <2>3 DEF AuthInv
<1>4. QED
  BY <1>1, <1>2, <1>3, SaveKeeps, DisconnectKeeps, RestartKeeps, TokensExpireKeeps, SyncKeeps,
     FlowExpiresKeeps DEF Next

(* The invariant, over every interleaving of requests, refreshes, logins,  *)
(* administration, expiry and restarts.                                    *)
THEOREM AuthInvariant == Spec => []AuthInv
<1>1. Init => AuthInv
  BY AuthInit
<1>2. AuthInv /\ [Next]_vars => AuthInv'
  BY AuthStep
<1>3. QED BY <1>1, <1>2, PTL DEF Spec

(* The types are kept.                                                     *)
THEOREM AuthTypeCorrect == Spec => []TypeOK
BY AuthInvariant, PTL DEF AuthInv

(* The code of a login is sent at most once, whatever the exchange waits   *)
(* for.                                                                    *)
THEOREM CodeSentOnce == Spec => []ExchangedOnce
<1>1. AuthInv => ExchangedOnce
  BY DEF AuthInv, SpentOnce, ExchangedOnce
<1>2. QED BY <1>1, AuthInvariant, PTL

(* However refreshes, logins and disconnections overlap, the gateway never *)
(* keeps a refresh token that is used up, unless the answer that replaces  *)
(* it is on its way or was lost.                                           *)
THEOREM RefreshTokenUsable == Spec => []KeptInStep
BY AuthInvariant, PTL DEF AuthInv, GrantsKept

(* What an administrator is told of an OAuth server agrees with what is    *)
(* stored.                                                                 *)
THEOREM StatusIsTrue == Spec => []StatusTruthful
BY AuthInvariant, PTL DEF AuthInv
=============================================================================
