----------------------- MODULE SigcallRegistry_proofs -----------------------
(***************************************************************************)
(* The properties of SigcallRegistry, for every set of names, connections  *)
(* and owners and every length of the queues.                              *)
(*                                                                         *)
(* Of the four, only AtMostOneLate is not inductive: that nothing more is  *)
(* sent after the one late request needs that the router holds no second   *)
(* sender (LateIsOver).                                                    *)
(***************************************************************************)
EXTENDS SigcallRegistry, TLAPS

\* A connection that was sent a late request has lost the name, and the router
\* no longer holds its sender for it.
LateIsOver ==
    \A c \in Connections, n \in Names :
        late[c][n] # 0 =>
            late[c][n] = 1 /\ registry[n] # c /\ routing # [name |-> n, to |-> c]

IInv == TypeOK /\ RegistrationStands /\ NoOrphans /\ LateIsOver

-----------------------------------------------------------------------------

\* It holds in the beginning.
LEMMA InitIInv == Init => IInv
<1> SUFFICES ASSUME Init PROVE IInv
    OBVIOUS
<1> USE NamesAreNames, QueuesHaveRoom, RequestsBounded DEF Init
<1>1. TypeOK
    BY DEF TypeOK
<1>2. RegistrationStands
    BY DEF RegistrationStands
<1>3. NoOrphans
    BY DEF NoOrphans
<1>4. LateIsOver
    BY DEF LateIsOver
<1> QED
    BY <1>1, <1>2, <1>3, <1>4 DEF IInv

\* A connection registers a name that is free or its owner's: another loses it
\* only to one of its owner.
LEMMA RegisterIInv ==
    ASSUME IInv, NEW c \in Connections, NEW n \in Names, Register(c, n)
    PROVE  IInv'
<1> USE DEF IInv, Register
<1>1. TypeOK'
    BY DEF TypeOK
<1>2. RegistrationStands'
    <2> SUFFICES ASSUME NEW x \in Connections, NEW m \in claims'[x], registry'[m] # x
                 PROVE  \E d \in Connections \ {x} : OwnerOf[d] = OwnerOf[x]
        BY DEF RegistrationStands
    <2>1. CASE m = n
        <3>1. x # c
            BY <2>1 DEF TypeOK
        <3>2. m \in claims[x]
            BY <3>1 DEF TypeOK
        <3>3. registry[n] = x \/ \E d \in Connections \ {x} : OwnerOf[d] = OwnerOf[x]
            BY <2>1, <3>2 DEF RegistrationStands
        <3>4. registry[n] = x => OwnerOf[c] = OwnerOf[x]
            BY NoConnectionIsNone DEF MayRegister, Owned
        <3> QED
            BY <3>1, <3>3, <3>4
    <2>2. CASE m # n
        <3>1. m \in claims[x] /\ registry'[m] = registry[m]
            BY <2>2 DEF TypeOK
        <3> QED
            BY <3>1 DEF RegistrationStands
    <2> QED
        BY <2>1, <2>2
<1>3. NoOrphans'
    BY NoConnectionIsNone DEF NoOrphans, TypeOK
<1>4. LateIsOver'
    <2> SUFFICES ASSUME NEW x \in Connections, NEW m \in Names, late'[x][m] # 0
                 PROVE  late'[x][m] = 1 /\ registry'[m] # x /\ routing' # [name |-> m, to |-> x]
        BY DEF LateIsOver
    <2>1. ~(x = c /\ m = n)
        BY DEF TypeOK
    <2>2. late'[x][m] = late[x][m]
        BY <2>1 DEF TypeOK
    <2>3. late[x][m] = 1 /\ registry[m] # x /\ routing # [name |-> m, to |-> x]
        BY <2>2 DEF LateIsOver
    <2>4. registry'[m] # x
        BY <2>1, <2>3 DEF TypeOK
    <2> QED
        BY <2>2, <2>3, <2>4
<1> QED
    BY <1>1, <1>2, <1>3, <1>4

\* Giving up a name keeps it.
LEMMA UnregisterIInv ==
    ASSUME IInv, NEW c \in Connections, NEW n \in Names, Unregister(c, n)
    PROVE  IInv'
<1> USE DEF IInv, Unregister
<1>1. TypeOK'
    BY DEF TypeOK
<1>2. RegistrationStands'
    <2> SUFFICES ASSUME NEW x \in Connections, NEW m \in claims'[x], registry'[m] # x
                 PROVE  \E d \in Connections \ {x} : OwnerOf[d] = OwnerOf[x]
        BY DEF RegistrationStands
    <2>1. m \in claims[x] /\ ~(m = n /\ x = c)
        BY DEF TypeOK
    <2>2. CASE m = n /\ registry[n] = x
        BY <2>1, <2>2 DEF Owned
    <2>3. CASE ~(m = n /\ registry[n] = x)
        <3>1. registry[m] # x
            BY <2>1, <2>3 DEF TypeOK
        <3> QED
            BY <2>1, <3>1 DEF RegistrationStands
    <2> QED
        BY <2>2, <2>3
<1>3. NoOrphans'
    <2> SUFFICES ASSUME NEW m \in Names, registry'[m] # NoConnection
                 PROVE  m \in claims'[registry'[m]]
        BY DEF NoOrphans
    <2>1. m # n /\ registry'[m] = registry[m]
        BY DEF TypeOK
    <2>2. m \in claims[registry[m]] /\ registry[m] \in Connections
        BY <2>1 DEF NoOrphans, TypeOK
    <2> QED
        BY <2>1, <2>2 DEF TypeOK
<1>4. LateIsOver'
    BY NoConnectionIsNone DEF LateIsOver, TypeOK
<1> QED
    BY <1>1, <1>2, <1>3, <1>4

\* A connection that closes keeps it.
LEMMA CloseIInv ==
    ASSUME IInv, NEW c \in Connections, Close(c)
    PROVE  IInv'
BY QueuesHaveRoom DEF IInv, Close, TypeOK, RegistrationStands, NoOrphans, LateIsOver

\* Cleaning up takes every name of the owner away, so none leads to the
\* connection; others of the same owner may lose theirs.
LEMMA CleanUpIInv ==
    ASSUME IInv, NEW c \in Connections, CleanUp(c)
    PROVE  IInv'
<1> USE DEF IInv, CleanUp
<1>1. \A m \in Names : registry'[m] = IF Owned(m, OwnerOf[c]) THEN NoConnection ELSE registry[m]
    BY DEF RetainOthers
<1>2. TypeOK'
    <2>1. registry' \in [Names -> Connections \cup {NoConnection}]
        BY DEF TypeOK, RetainOthers
    <2>2. \A m \in Reserved : registry'[m] = NoConnection
        BY <1>1, NamesAreNames DEF TypeOK
    <2> QED
        BY <2>1, <2>2 DEF TypeOK
<1>3. RegistrationStands'
    <2> SUFFICES ASSUME NEW x \in Connections, NEW m \in claims'[x], registry'[m] # x
                 PROVE  \E d \in Connections \ {x} : OwnerOf[d] = OwnerOf[x]
        BY DEF RegistrationStands
    <2>1. x # c /\ m \in claims[x] /\ m \in Names
        BY DEF TypeOK
    <2>2. CASE registry[m] = x
        <3>1. Owned(m, OwnerOf[c])
            BY <1>1, <2>1, <2>2
        <3> QED
            BY <2>1, <2>2, <3>1 DEF Owned
    <2>3. CASE registry[m] # x
        BY <2>1, <2>3 DEF RegistrationStands
    <2> QED
        BY <2>2, <2>3
<1>4. NoOrphans'
    <2> SUFFICES ASSUME NEW m \in Names, registry'[m] # NoConnection
                 PROVE  m \in claims'[registry'[m]]
        BY DEF NoOrphans
    <2>1. registry'[m] = registry[m] /\ ~Owned(m, OwnerOf[c])
        BY <1>1
    <2>2. registry[m] # c /\ registry[m] \in Connections
        BY <2>1 DEF Owned, TypeOK
    <2>3. m \in claims[registry[m]]
        BY <2>1 DEF NoOrphans
    <2> QED
        BY <2>1, <2>2, <2>3 DEF TypeOK
<1>5. LateIsOver'
    BY <1>1, NoConnectionIsNone DEF LateIsOver
<1> QED
    BY <1>2, <1>3, <1>4, <1>5

\* A request that is received keeps it.
LEMMA ReceiveIInv ==
    ASSUME IInv, NEW c \in Connections, Receive(c)
    PROVE  IInv'
<1>1. queue' \in [Connections -> 0 .. QueueCapacity]
    BY QueuesHaveRoom DEF IInv, TypeOK, Receive
<1> QED
    BY <1>1 DEF IInv, Receive, TypeOK, RegistrationStands, NoOrphans, LateIsOver

\* The sender looked up is the registered one, whose owner has not lost the name.
LEMMA LookupIInv ==
    ASSUME IInv, NEW n \in Names, Lookup(n)
    PROVE  IInv'
<1> USE DEF IInv, Lookup
<1>1. TypeOK'
    BY RequestsBounded DEF TypeOK
<1>2. RegistrationStands' /\ NoOrphans'
    BY DEF RegistrationStands, NoOrphans
<1>3. LateIsOver'
    BY DEF LateIsOver
<1> QED
    BY <1>1, <1>2, <1>3

\* The request sent makes the count one if it is late, and the sender is gone.
LEMMA DispatchIInv ==
    ASSUME IInv, Dispatch
    PROVE  IInv'
<1> DEFINE n == routing.name
           c == routing.to
<1> USE DEF IInv
<1>1. n \in Names /\ c \in Connections /\ routing = [name |-> n, to |-> c]
    BY DEF Dispatch, TypeOK
<1>2. routing' = Idle /\ registry' = registry /\ status' = status /\ claims' = claims
      /\ requests' = requests
    BY DEF Dispatch
<1>3. queue' \in [Connections -> 0 .. QueueCapacity]
    BY <1>1, QueuesHaveRoom DEF Dispatch, CanTake, TypeOK
<1>4. \/ late' = late
      \/ late' = [late EXCEPT ![c][n] = @ + 1] /\ registry[n] # c
    BY DEF Dispatch
<1>5. late[c][n] = 0
    BY <1>1 DEF LateIsOver
<1>6. late' \in [Connections -> [Names -> Nat]]
    <2>1. late \in [Connections -> [Names -> Nat]]
        BY DEF TypeOK
    <2>2. [late[c] EXCEPT ![n] = @ + 1] \in [Names -> Nat]
        BY <1>1, <2>1
    <2> QED
        BY <1>1, <1>4, <2>1, <2>2
<1>7. TypeOK'
    BY <1>2, <1>3, <1>6 DEF TypeOK
<1>8. RegistrationStands' /\ NoOrphans'
    BY <1>2 DEF RegistrationStands, NoOrphans
<1>9. LateIsOver'
    <2> SUFFICES ASSUME NEW x \in Connections, NEW m \in Names, late'[x][m] # 0
                 PROVE  late'[x][m] = 1 /\ registry'[m] # x /\ routing' # [name |-> m, to |-> x]
        BY DEF LateIsOver
    <2>1. routing' # [name |-> m, to |-> x]
        BY <1>2, NoConnectionIsNone DEF Idle
    <2>2. CASE x = c /\ m = n
        <3>1. late'[x][m] = 1 /\ registry[n] # c
            BY <1>1, <1>4, <1>5, <2>2 DEF TypeOK
        <3> QED
            BY <1>2, <2>1, <2>2, <3>1
    <2>3. CASE ~(x = c /\ m = n)
        <3>1. late'[x][m] = late[x][m]
            BY <1>1, <1>4, <2>3 DEF TypeOK
        <3> QED
            BY <1>2, <2>1, <3>1 DEF LateIsOver
    <2> QED
        BY <2>2, <2>3
<1> QED
    BY <1>7, <1>8, <1>9

\* Every step keeps it.
LEMMA StepIInv == IInv /\ [Next]_vars => IInv'
<1> SUFFICES ASSUME IInv, [Next]_vars PROVE IInv'
    OBVIOUS
<1>1. ASSUME NEW c \in Connections, NEW n \in Names, Register(c, n) PROVE IInv'
    BY <1>1, RegisterIInv
<1>2. ASSUME NEW c \in Connections, NEW n \in Names, Unregister(c, n) PROVE IInv'
    BY <1>2, UnregisterIInv
<1>3. ASSUME NEW c \in Connections, Close(c) PROVE IInv'
    BY <1>3, CloseIInv
<1>4. ASSUME NEW c \in Connections, CleanUp(c) PROVE IInv'
    BY <1>4, CleanUpIInv
<1>5. ASSUME NEW c \in Connections, Receive(c) PROVE IInv'
    BY <1>5, ReceiveIInv
<1>6. ASSUME NEW n \in Names, Lookup(n) PROVE IInv'
    BY <1>6, LookupIInv
<1>7. CASE Dispatch
    BY <1>7, DispatchIInv
<1>8. CASE UNCHANGED vars
    BY <1>8 DEF vars, IInv, TypeOK, RegistrationStands, NoOrphans, LateIsOver
<1> QED
    BY <1>1, <1>2, <1>3, <1>4, <1>5, <1>6, <1>7, <1>8 DEF Next

\* It holds throughout.
LEMMA Invariant == Spec => []IInv
BY InitIInv, StepIInv, PTL DEF Spec

-----------------------------------------------------------------------------

\* Every reachable registry is type-correct, has no reserved name in it, and no
\* queue is longer than its capacity (sigcall.rs:86-88).
THEOREM TypeCorrect == Spec => []TypeOK
<1>1. IInv => TypeOK
    BY DEF IInv
<1> QED
    BY Invariant, <1>1, PTL

\* What a connection whose owner id is its own has registered stays registered
\* until it gives it up, whatever other owners do (sigcall.rs:95-102).
THEOREM RegistrationStandsCorrect == Spec => []RegistrationStands
<1>1. IInv => RegistrationStands
    BY DEF IInv
<1> QED
    BY Invariant, <1>1, PTL

\* After its clean-up no name leads to a connection (sigcall.rs:137-146).
THEOREM NoOrphansCorrect == Spec => []NoOrphans
<1>1. IInv => NoOrphans
    BY DEF IInv
<1> QED
    BY Invariant, <1>1, PTL

\* After a connection loses a name, one request for it may still arrive, and no
\* second (sigcall.rs:149-156, router.rs:133-170).
THEOREM AtMostOneLateCorrect == Spec => []AtMostOneLate
<1>1. IInv => AtMostOneLate
    BY DEF IInv, LateIsOver, AtMostOneLate, TypeOK
<1> QED
    BY Invariant, <1>1, PTL
=============================================================================
