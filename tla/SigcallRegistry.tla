-------------------------- MODULE SigcallRegistry --------------------------
(***************************************************************************)
(* The registry of sigcall handlers (sigcall.rs): connections of a gateway *)
(* register names under their owner's id and from then on are sent the     *)
(* requests for these names.                                               *)
(*                                                                         *)
(* Each operation is one critical section of the registry's mutex.  What   *)
(* is spread over several is the work of others: the router looks a sender *)
(* up and uses it after the lock is released (router.rs:133-170), and a    *)
(* connection first closes and is then cleaned up after.  Two connections  *)
(* may have one owner, as after a reconnect.  A call that returns an error *)
(* leaves everything as it was, and is left out.                           *)
(***************************************************************************)
EXTENDS Integers, FiniteSets

CONSTANTS
    Names,           \* names that may be registered or called
    Reserved,        \* those that begin with "sigcall:"
    BuiltIn,         \* those whose prefix is a subsystem's, or "sigcall"
    Connections,
    Owners,
    OwnerOf,         \* the owner id each connection registers under
    NoConnection,
    QueueCapacity,
    MaxRequests      \* bound: requests the router dispatches

ASSUME NamesAreNames        == Reserved \subseteq Names /\ BuiltIn \subseteq Names
ASSUME ReservedIsBuiltIn    == Reserved \subseteq BuiltIn
ASSUME OwnersAreOwners      == OwnerOf \in [Connections -> Owners]
ASSUME NoConnectionIsNone   == NoConnection \notin Connections
ASSUME QueuesHaveRoom       == QueueCapacity \in Nat \ {0}
ASSUME RequestsBounded      == MaxRequests \in Nat

VARIABLES
    registry,   \* the connection whose sender each name has, if any
    status,     \* of each connection: open, closed (its receiver is gone), gone
    claims,     \* history: names each connection registered and has not given up
    routing,    \* the name the router dispatches a request for, and the sender
    queue,      \* number of requests in the channel of each connection
    late,       \* history: requests for a name a connection was sent after losing it
    requests    \* bound: requests dispatched

vars == <<registry, status, claims, routing, queue, late, requests>>

Idle == [name |-> "none", to |-> NoConnection]

Init ==
    /\ registry = [n \in Names |-> NoConnection]
    /\ status = [c \in Connections |-> "open"]
    /\ claims = [c \in Connections |-> {}]
    /\ routing = Idle
    /\ queue = [c \in Connections |-> 0]
    /\ late = [c \in Connections |-> [n \in Names |-> 0]]
    /\ requests = 0

Owned(n, o) == registry[n] # NoConnection /\ OwnerOf[registry[n]] = o

-----------------------------------------------------------------------------
(* Connections.                                                             *)

\* Mutant: the last registration wins.
MayRegisterAnything(c, n) == TRUE

\* The name is free, or registered by the same owner.
MayRegister(c, n) == registry[n] = NoConnection \/ Owned(n, OwnerOf[c])

\* The registry does not know which connections are open: the gateway may
\* register for one that has closed, even after it has cleaned up.
Register(c, n) ==
    /\ n \notin Reserved
    /\ MayRegister(c, n)
    /\ registry' = [registry EXCEPT ![n] = c]
    /\ claims' = [claims EXCEPT ![c] = @ \cup {n}]
    /\ late' = [late EXCEPT ![c][n] = 0]
    /\ UNCHANGED <<status, routing, queue, requests>>

Unregister(c, n) ==
    /\ Owned(n, OwnerOf[c])
    /\ registry' = [registry EXCEPT ![n] = NoConnection]
    /\ claims' = [claims EXCEPT ![c] = @ \ {n}]
    /\ UNCHANGED <<status, routing, queue, late, requests>>

\* The connection closes: its receiver is dropped, with what it holds.
Close(c) ==
    /\ status[c] = "open"
    /\ status' = [status EXCEPT ![c] = "closed"]
    /\ queue' = [queue EXCEPT ![c] = 0]
    /\ UNCHANGED <<registry, claims, routing, late, requests>>

\* Mutant: a connection leaves its registrations behind.
RetainEverything(o) == registry

\* unregister_all: what is left when owner o's registrations are removed.
RetainOthers(o) ==
    [n \in Names |-> IF Owned(n, o) THEN NoConnection ELSE registry[n]]

\* The gateway cleans up after the connection.
CleanUp(c) ==
    /\ status[c] = "closed"
    /\ status' = [status EXCEPT ![c] = "gone"]
    /\ registry' = RetainOthers(OwnerOf[c])
    /\ claims' = [claims EXCEPT ![c] = {}]
    /\ UNCHANGED <<routing, queue, late, requests>>

Receive(c) ==
    /\ status[c] = "open"
    /\ queue[c] > 0
    /\ queue' = [queue EXCEPT ![c] = @ - 1]
    /\ UNCHANGED <<registry, status, claims, routing, late, requests>>

-----------------------------------------------------------------------------
(* The router.                                                              *)

\* A built-in route comes first; without one, the name is looked up and a
\* clone of its sender kept.  A name nobody has is answered with an error.
Lookup(n) ==
    /\ requests < MaxRequests
    /\ requests' = requests + 1
    /\ routing = Idle
    /\ n \notin BuiltIn
    /\ registry[n] # NoConnection
    /\ routing' = [name |-> n, to |-> registry[n]]
    /\ UNCHANGED <<registry, status, claims, queue, late>>

\* Mutant: room is not looked at.
CanTakeAny(c) == status[c] = "open"

CanTake(c) == status[c] = "open" /\ queue[c] < QueueCapacity

\* Mutant: the router keeps the sender for the next request of that name.
DispatchCached ==
    LET n == routing.name
        c == routing.to
        stale == CanTake(c) /\ registry[n] # c
    IN  /\ routing # Idle
        /\ \/ routing' = Idle /\ UNCHANGED requests
           \/ requests < MaxRequests /\ requests' = requests + 1 /\ UNCHANGED routing
        /\ queue' = IF CanTake(c) THEN [queue EXCEPT ![c] = @ + 1] ELSE queue
        /\ late' = IF stale THEN [late EXCEPT ![c][n] = @ + 1] ELSE late
        /\ UNCHANGED <<registry, status, claims>>

\* try_send.  A request that is refused is answered with an error.
Dispatch ==
    LET n == routing.name
        c == routing.to
        stale == CanTake(c) /\ registry[n] # c
    IN  /\ routing # Idle
        /\ routing' = Idle
        /\ queue' = IF CanTake(c) THEN [queue EXCEPT ![c] = @ + 1] ELSE queue
        /\ late' = IF stale THEN [late EXCEPT ![c][n] = @ + 1] ELSE late
        /\ UNCHANGED <<registry, status, claims, requests>>

Next ==
    \/ \E c \in Connections :
        \/ Close(c) \/ CleanUp(c) \/ Receive(c)
        \/ \E n \in Names : Register(c, n) \/ Unregister(c, n)
    \/ \E n \in Names : Lookup(n)
    \/ Dispatch

Spec == Init /\ [][Next]_vars

-----------------------------------------------------------------------------
(* Properties.                                                              *)

\* A reserved name is never registered, and a queue never holds more than its
\* capacity (sigcall.rs:86-88, router.rs:170).
TypeOK ==
    /\ registry \in [Names -> Connections \cup {NoConnection}]
    /\ \A n \in Reserved : registry[n] = NoConnection
    /\ status \in [Connections -> {"open", "closed", "gone"}]
    /\ claims \in [Connections -> SUBSET Names]
    /\ routing \in {Idle} \cup [name : Names, to : Connections]
    /\ queue \in [Connections -> 0 .. QueueCapacity]
    /\ late \in [Connections -> [Names -> Nat]]
    /\ requests \in 0 .. MaxRequests

\* The first registration wins: what a connection has registered stays its own,
\* whatever others register, unregister or clean up, until it gives the name up
\* itself - or one with the same owner id acts for it, as the old connection
\* does that is cleaned up after a reconnect (sigcall.rs:95-102, 125, 145).
RegistrationStands ==
    \A c \in Connections : \A n \in claims[c] :
        \/ registry[n] = c
        \/ \E d \in Connections \ {c} : OwnerOf[d] = OwnerOf[c]

\* No name leads to a connection that has given it up, or that was cleaned up
\* after and has not registered it again: the clean-up leaves no orphaned handler
\* behind (sigcall.rs:137-146).  One that is registered later stays.
NoOrphans ==
    \A n \in Names : registry[n] # NoConnection => n \in claims[registry[n]]

\* The sender that the router looks up outlives the lock, so a connection may
\* still be sent a request for a name it has unregistered or lost - but one, and
\* no more until it registers the name again (sigcall.rs:149-156,
\* router.rs:133-170).
AtMostOneLate ==
    \A c \in Connections, n \in Names : late[c][n] <= 1
=============================================================================
