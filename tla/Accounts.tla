------------------------------- MODULE Accounts ------------------------------
(***************************************************************************)
(* The connected accounts (app/publishing/accounts.py, the callback and    *)
(* account routes of app/api/publishing.py) and what publishing keeps of   *)
(* them.  Each network has at most one active account, the one that is     *)
(* published to.                                                           *)
(*                                                                         *)
(* A request is a session.  As long as the code refers to a row, here to   *)
(* the one that upsert or activate is about, the identity map keeps the    *)
(* value it was loaded with, whatever a later SELECT returns, and only     *)
(* what differs from that value is written.  Between its first write and   *)
(* its commit a transaction reads nothing, and nobody sees what it has     *)
(* written: both are one step.                                             *)
(***************************************************************************)
EXTENDS Naturals, Sequences

CONSTANTS Platforms, Destinations,
          PlatformOf,    \* the network of a destination
          Exchanges,     \* the lists of destinations that a code exchange yields
          MaxInserts,    \* bound: how often a destination gets a new row
          Publications,  \* bound: the attempts of a behaviour
          Requests, NoId

(* A row is named after its destination, which never changes. *)
Ids == Destinations \X (1..MaxInserts)

ASSUME AccountsAssumption ==
    /\ PlatformOf \in [Destinations -> Platforms]
    /\ Exchanges \subseteq Seq(Destinations)
    /\ MaxInserts \in Nat
    /\ NoId \notin Ids

VARIABLES
    accounts,      \* social_accounts: is_active, by id
    gone,          \* ids of the rows that were deleted
    publications,  \* social_account_id of an attempt, and the account it uses
    requests,
    disturbed      \* history: requests in flight beside which another committed

vars == <<accounts, gone, publications, requests, disturbed>>

Nothing == [id \in {} |-> TRUE]
Idle == [op |-> "none", step |-> "none", todo |-> <<>>, platform |-> "none",
         target |-> NoId, known |-> FALSE, dirty |-> {}]

Init ==
    /\ accounts = Nothing
    /\ gone = {}
    /\ publications = Nothing
    /\ requests = [q \in Requests |-> Idle]
    /\ disturbed = {}

Platform(id) == PlatformOf[id[1]]

Active(rows, platform) == {id \in DOMAIN rows : rows[id] /\ Platform(id) = platform}

-----------------------------------------------------------------------------
(* A session reads. *)

Begin(q, request) ==
    /\ requests[q] = Idle
    /\ requests' = [requests EXCEPT ![q] = request]
    /\ UNCHANGED <<accounts, gone, publications, disturbed>>

(* social_callback has exchanged its code. *)
BeginConnect(q, list) ==
    /\ list # <<>>
    /\ Begin(q, [Idle EXCEPT !.op = "connect", !.step = "find", !.todo = list])

(* upsert looks for a row of the destination. *)
Find(q) ==
    LET dest == Head(requests[q].todo)
        existing == {id \in DOMAIN accounts : id[1] = dest}
    IN
    /\ requests[q].op = "connect" /\ requests[q].step = "find"
    /\ \E id \in IF existing = {} THEN {NoId} ELSE existing :
          requests' = [requests EXCEPT ![q].step = "deactivate", ![q].target = id,
                                       ![q].platform = PlatformOf[dest],
                                       ![q].known = id # NoId /\ accounts[id]]
    /\ UNCHANGED <<accounts, gone, publications, disturbed>>

(* activate or disconnect gets its row.  An unknown id answers 404. *)
BeginOn(q, op, id) ==
    /\ id \in DOMAIN accounts
    /\ Begin(q, [Idle EXCEPT !.op = op, !.target = id, !.platform = Platform(id),
                             !.known = accounts[id],
                             !.step = IF op = "activate" THEN "deactivate" ELSE "commit"])

(* _deactivate_platform reads the active accounts and clears the flags of all*)
(* but the target.                                                           *)
Deactivate(q) ==
    /\ requests[q].step = "deactivate"
    /\ requests' = [requests EXCEPT
                       ![q].step = "commit",
                       ![q].dirty = Active(accounts, requests[q].platform) \ {requests[q].target}]
    /\ UNCHANGED <<accounts, gone, publications, disturbed>>

(* get_active: the account that a publish request resolves. *)
BeginPublish(q, id) ==
    /\ id \in DOMAIN accounts /\ accounts[id]
    /\ Begin(q, [Idle EXCEPT !.op = "publish", !.step = "commit", !.target = id])

-----------------------------------------------------------------------------
(* A session commits. *)

(* No such index: a seeded bug. *)
AnyActive(rows) == TRUE

(* uq_social_accounts_active_platform *)
OneActiveEach(rows) ==
    \A x, y \in DOMAIN rows : rows[x] /\ rows[y] /\ Platform(x) = Platform(y) => x = y

(* No such key: a seeded bug. *)
AnyDest(dest) == TRUE

(* uq_social_accounts_platform_external *)
DestFree(dest) == \A id \in DOMAIN accounts : id[1] # dest

(* Ids are opaque and never used again: take the first that is free. *)
FreshId(dest, id) ==
    /\ id[1] = dest
    /\ id \notin DOMAIN accounts \union gone
    /\ \A n \in 1..(id[2] - 1) : <<dest, n>> \in DOMAIN accounts \union gone

(* The table with some flags cleared and one set. *)
Switched(dirty, ids) ==
    [id \in DOMAIN accounts \union ids |->
        id \in ids \/ (accounts[id] /\ id \notin dirty)]

(* After the commit, the next destination of an exchange: nothing refers to  *)
(* what the last one has loaded.                                             *)
NextDestination(q) ==
    [Idle EXCEPT !.op = "connect", !.step = "find", !.todo = Tail(requests[q].todo)]

(* The request goes on as given, or ends. *)
Committed(q, request) ==
    /\ requests' = [requests EXCEPT ![q] = request]
    /\ disturbed' = {k \in Requests : k # q /\ requests[k] # Idle}
                     \union IF request = Idle THEN {} ELSE disturbed \cap {q}

Continue(q) ==
    Committed(q, IF Len(requests[q].todo) = 1 THEN Idle ELSE NextDestination(q))

Committing(q, op) == requests[q].op = op /\ requests[q].step = "commit"

(* upsert of a destination without a row. *)
Insert(q, id) ==
    LET dest == Head(requests[q].todo) IN
    /\ Committing(q, "connect") /\ requests[q].target = NoId
    /\ FreshId(dest, id)
    /\ DestFree(dest)
    /\ requests[q].dirty \subseteq DOMAIN accounts
    /\ accounts' = Switched(requests[q].dirty, {id})
    /\ OneActiveEach(accounts')
    /\ Continue(q)
    /\ UNCHANGED <<gone, publications>>

(* A row that is found is left inactive by upsert: a seeded bug. *)
RaisedByActivate(q) ==
    {id \in {requests[q].target} : requests[q].op = "activate" /\ ~requests[q].known}

(* is_active of the target is written if the session knew it to be FALSE. *)
Raised(q) == {id \in {requests[q].target} : ~requests[q].known}

(* upsert of a destination that has a row: its token is written in any case. *)
Update(q) ==
    /\ Committing(q, "connect") /\ requests[q].target # NoId
    /\ requests[q].dirty \union {requests[q].target} \subseteq DOMAIN accounts
    /\ accounts' = Switched(requests[q].dirty, Raised(q))
    /\ OneActiveEach(accounts')
    /\ Continue(q)
    /\ UNCHANGED <<gone, publications>>

Activate(q) ==
    /\ Committing(q, "activate")
    /\ requests[q].dirty \union Raised(q) \subseteq DOMAIN accounts
    /\ accounts' = Switched(requests[q].dirty, Raised(q))
    /\ OneActiveEach(accounts')
    /\ Committed(q, Idle)
    /\ UNCHANGED <<gone, publications>>

(* social_account_id of an attempt is emptied when its account is deleted. *)
Emptied(id) ==
    [p \in DOMAIN publications |->
        [publications[p] EXCEPT !.account = IF @ = id THEN NoId ELSE @]]

(* A DELETE that finds no row any more passes. *)
Disconnect(q) ==
    LET id == requests[q].target IN
    /\ Committing(q, "disconnect")
    /\ accounts' = [k \in DOMAIN accounts \ {id} |-> accounts[k]]
    /\ gone' = gone \union {id}
    /\ publications' = Emptied(id)
    /\ Committed(q, Idle)

(* The attempt is recorded, under the foreign key; the call that follows uses*)
(* the account read at preflight.                                            *)
Claim(q, p) ==
    LET id == requests[q].target IN
    /\ Committing(q, "publish")
    /\ id \in DOMAIN accounts
    /\ p \notin DOMAIN publications
    /\ publications' = [k \in DOMAIN publications \union {p} |->
                          IF k = p THEN [account |-> id, via |-> id] ELSE publications[k]]
    /\ Committed(q, Idle)
    /\ UNCHANGED <<accounts, gone>>

(* An index, a foreign key or a missing row refuses the commit, an exchange  *)
(* or preflight refuses the request, or it dies: what it has not committed is*)
(* rolled back.                                                              *)
Abandon(q) ==
    /\ requests[q] # Idle
    /\ requests' = [requests EXCEPT ![q] = Idle]
    /\ disturbed' = disturbed \ {q}
    /\ UNCHANGED <<accounts, gone, publications>>

-----------------------------------------------------------------------------

Next ==
    \E q \in Requests :
        \/ \E list \in Exchanges : BeginConnect(q, list)
        \/ \E id \in Ids : \/ \E op \in {"activate", "disconnect"} : BeginOn(q, op, id)
                           \/ BeginPublish(q, id) \/ Insert(q, id)
        \/ Find(q) \/ Deactivate(q) \/ Update(q) \/ Activate(q) \/ Disconnect(q)
        \/ \E p \in Publications : Claim(q, p)
        \/ Abandon(q)

Spec == Init /\ [][Next]_vars

-----------------------------------------------------------------------------

OneTarget == \A p \in Platforms : \E id \in Ids \union {NoId} : Active(accounts, p) \subseteq {id}

(* Besides the types: no two rows of a network are publish targets, and what  *)
(* an exchange has yet to store is not empty.                                *)
TypeOK ==
    /\ OneTarget
    /\ DOMAIN accounts \subseteq Ids /\ \A id \in DOMAIN accounts : accounts[id] \in BOOLEAN
    /\ gone \subseteq Ids
    /\ DOMAIN publications \subseteq Publications
    /\ \A q \in Requests :
          /\ requests[q].op \in {"none", "connect", "activate", "disconnect", "publish"}
          /\ requests[q].target \in Ids \union {NoId}
          /\ requests[q].dirty \subseteq Ids
          /\ requests[q].op = "connect" => requests[q].todo # <<>>

(* Re-connecting keeps "the publication history's foreign keys pointed at    *)
(* one account": every attempt that used an account names it until it is     *)
(* deleted, and no other row is of the same destination.                     *)
HistoryNamesOneRow ==
    \A p \in DOMAIN publications :
        LET used == publications[p].via IN
        /\ publications[p].account = IF used \in gone THEN NoId ELSE used
        /\ used \notin gone => \A id \in DOMAIN accounts : id[1] = used[1] => id = used

Switches(q) == (\E id \in Ids : Insert(q, id)) \/ Update(q) \/ Activate(q)

(* The destination that the request of q is about. *)
Wanted(q) ==
    IF requests[q].op = "connect" THEN Head(requests[q].todo) ELSE requests[q].target[1]

(* Whoever connects or activates an account ends with it as the one that is  *)
(* published to, at each of the commits of an exchange, as long as no other  *)
(* request has committed since it began.                                     *)
SwitchTakesEffect ==
    [][\A q \in Requests \ disturbed : Switches(q) =>
          \E id \in Ids : id[1] = Wanted(q) /\ Active(accounts', Platform(id)) = {id}]_vars

(* An exchange stores each of its destinations once, however often Graph     *)
(* lists a Page.                                                             *)
EachDestinationOnce ==
    \A q \in Requests : \A i, j \in DOMAIN requests[q].todo :
        requests[q].todo[i] = requests[q].todo[j] => i = j

=============================================================================
