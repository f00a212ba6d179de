---------------------- MODULE RpcProviderManager_proofs ----------------------
(***************************************************************************)
(* Proofs about RpcProviderManager, for any number of providers and of     *)
(* callers: type correctness, and what the rotation of the shared index    *)
(* and the timers guarantee to one call.                                   *)
(***************************************************************************)
EXTENDS RpcProviderManager, TLAPS

(***************************************************************************)
(* How many rotations ago the index left provider p, if it is now at i.    *)
(* The provider the index is at now was left N rotations ago.              *)
(***************************************************************************)
Behind(i, p) == IF p < i THEN i - p ELSE (i - p) + N

(***************************************************************************)
(* While nobody disturbs it, a call has tried exactly the providers the    *)
(* index has left since it began, and the one it waits for.                *)
(***************************************************************************)
LeftSince(c) == {p \in Providers : Behind(currentProviderIndex, p) <= call[c].attempts}

Rotation(c) ==
    ~ call[c].disturbed =>
        /\ call[c].pc = "delay" => call[c].tried = LeftSince(c)
        /\ call[c].pc = "waiting" =>
               call[c].tried = LeftSince(c) \cup {currentProviderIndex}
        /\ call[c].pc = "rejected" => call[c].tried = Providers

RotationInv == \A c \in Callers : Rotation(c)

(***************************************************************************)
(* A turn of the loop is taken only with attempts left, which is what      *)
(* keeps `attempts` within the number of providers.                        *)
(***************************************************************************)
TypeInv == /\ TypeOK
           /\ \A c \in Callers : call[c].pc = "waiting" => call[c].attempts < N

(***************************************************************************)
(* A request in flight belongs to an attempt its call has started, and the *)
(* one of the attempt the call waits for went to that attempt's provider.  *)
(***************************************************************************)
RequestInv ==
    \A r \in inflight :
        /\ call[r.caller].pc = "waiting" =>
               /\ r.attempt <= call[r.caller].attempts
               /\ r.attempt = call[r.caller].attempts => r.provider = call[r.caller].provider
        /\ call[r.caller].pc = "delay" => r.attempt < call[r.caller].attempts

(***************************************************************************)
(* The wrap-around of the index: one past the last provider is the first.  *)
(***************************************************************************)
LEMMA NextIndexFact ==
    ASSUME NEW i \in Providers
    PROVE  NextIndex(i) = IF i = N - 1 THEN 0 ELSE i + 1
  BY NAssumption DEF Providers, NextIndex

-----------------------------------------------------------------------------

(***************************************************************************)
(* The state after a failed attempt, whichever way it failed.              *)
(***************************************************************************)
LEMMA FailAttemptEffect ==
    ASSUME TypeInv, NEW c \in Callers, call[c].pc = "waiting", FailAttempt(c)
    PROVE  /\ currentProviderIndex' = NextIndex(currentProviderIndex)
           /\ currentProviderIndex' \in Providers
           /\ call' \in [Callers -> Calls]
           /\ call'[c] = [call[c] EXCEPT !.pc = "delay", !.attempts = @ + 1]
           /\ \A d \in Callers \ {c} :
                 /\ call'[d] = [call[d] EXCEPT !.disturbed = @ \/ InCall(d)]
                 /\ call'[d].pc = call[d].pc
                 /\ call'[d].attempts = call[d].attempts
                 /\ call'[d].provider = call[d].provider
                 /\ call'[d].from = call[d].from
  <1> DEFINE failed == [call[c] EXCEPT !.pc = "delay", !.attempts = @ + 1]
             seen(d) == [call[d] EXCEPT !.disturbed = @ \/ InCall(d)]
  <1>1. currentProviderIndex' \in Providers
    BY NAssumption, NextIndexFact DEF FailAttempt, TypeInv, TypeOK, Providers
  <1>2. failed \in Calls
    <2>1. call[c] \in Calls /\ call[c].attempts < N
      BY DEF TypeInv, TypeOK
    <2>2. call[c].attempts + 1 \in 0 .. N
      BY <2>1, NAssumption DEF Calls
    <2>3. QED
      BY <2>1, <2>2 DEF Calls
  <1>3. ASSUME NEW d \in Callers
        PROVE  seen(d) \in Calls
    BY DEF TypeInv, TypeOK, Calls, InCall
  <1>4. call' = [d \in Callers |-> IF d = c THEN failed ELSE seen(d)]
    BY DEF FailAttempt
  <1>5. currentProviderIndex' = NextIndex(currentProviderIndex)
    BY DEF FailAttempt
  <1> HIDE DEF failed, seen
  <1>6. /\ call' \in [Callers -> Calls]
        /\ call'[c] = failed
        /\ \A d \in Callers \ {c} : call'[d] = seen(d)
    BY <1>2, <1>3, <1>4
  <1>7. ASSUME NEW d \in Callers \ {c}
        PROVE  /\ seen(d).pc = call[d].pc
               /\ seen(d).attempts = call[d].attempts
               /\ seen(d).provider = call[d].provider
               /\ seen(d).from = call[d].from
    <2>1. call[d] \in Calls
      BY DEF TypeInv, TypeOK
    <2>2. QED
      BY <2>1 DEF Calls, seen
  <1>8. QED
    BY <1>1, <1>5, <1>6, <1>7 DEF failed, seen

LEMMA FailAttemptTypes ==
    ASSUME TypeInv, NEW c \in Callers, call[c].pc = "waiting", FailAttempt(c),
           inflight' \subseteq Requests
    PROVE  TypeInv'
  <1>1. call'[c].pc = "delay"
    BY FailAttemptEffect DEF TypeInv, TypeOK, Calls
  <1>2. ASSUME NEW d \in Callers \ {c}
        PROVE  call'[d].pc = call[d].pc /\ call'[d].attempts = call[d].attempts
    BY FailAttemptEffect
  <1>3. QED
    BY <1>1, <1>2, FailAttemptEffect DEF TypeInv, TypeOK

(***************************************************************************)
(* One turn of the loop keeps the types, with attempts left.               *)
(***************************************************************************)
LEMMA TurnTypes ==
    ASSUME TypeInv, NEW c \in Callers, NEW before \in Calls, before.attempts < N,
           NEW others \in SUBSET inflight, Turn(c, before, others)
    PROVE  TypeInv'
  <1> DEFINE after == [before EXCEPT !.pc = "waiting",
                                     !.provider = currentProviderIndex,
                                     !.tried = @ \cup {currentProviderIndex}]
  <1>1. after \in Calls /\ after.attempts < N
    BY DEF TypeInv, TypeOK, Calls
  <1>2. call' = [call EXCEPT ![c] = after]
    BY DEF Turn
  <1>3. inflight' \subseteq Requests
    BY DEF Turn, TypeInv, TypeOK, Calls, Requests
  <1>4. currentProviderIndex' \in Providers
    BY DEF Turn, TypeInv, TypeOK
  <1> HIDE DEF after
  <1>5. QED
    BY <1>1, <1>2, <1>3, <1>4 DEF TypeInv, TypeOK

LEMMA IdleCallType == IdleCall \in Calls /\ IdleCall.attempts < N
  BY NAssumption DEF IdleCall, Calls, Providers

(***************************************************************************)
(* Type correctness: the shared index always names a configured provider   *)
(* and no call makes more attempts than there are providers.               *)
(***************************************************************************)
LEMMA TypeInvariant == Spec => []TypeInv
  <1>1. Init => TypeInv
    BY NAssumption, IdleCallType DEF Init, TypeInv, TypeOK, Providers, IdleCall
  <1>2. TypeInv /\ [Next]_vars => TypeInv'
    <2> SUFFICES ASSUME TypeInv, [Next]_vars PROVE TypeInv'
      OBVIOUS
    <2>1. ASSUME NEW c \in Callers, Enter(c) PROVE TypeInv'
      <3>1. Turn(c, IdleCall, {r \in inflight : r.caller # c})
        BY <2>1 DEF Enter
      <3>2. QED
        BY <3>1, IdleCallType, TurnTypes
    <2>2. ASSUME NEW c \in Callers, Retry(c) PROVE TypeInv'
      BY <2>2, TurnTypes DEF Retry, TypeInv, TypeOK
    <2>3. ASSUME NEW c \in Callers, Timeout(c) PROVE TypeInv'
      BY <2>3, FailAttemptTypes DEF Timeout, TypeInv, TypeOK
    <2>4. ASSUME NEW c \in Callers, GiveUp(c) PROVE TypeInv'
      BY <2>4 DEF GiveUp, TypeInv, TypeOK, Calls
    <2>5. ASSUME NEW r \in inflight, NEW answer \in Answers, ProviderAnswers(r, answer)
          PROVE  TypeInv'
      <3>1. r.caller \in Callers /\ r.provider \in Providers /\ inflight' \subseteq Requests
        BY <2>5 DEF ProviderAnswers, TypeInv, TypeOK, Requests
      <3>2. CASE /\ call' = [call EXCEPT ![r.caller].pc = "resolved",
                                         ![r.caller].from = r.provider]
                 /\ UNCHANGED currentProviderIndex
        BY <3>1, <3>2 DEF TypeInv, TypeOK, Calls
      <3>3. CASE Awaited(r.caller, r) /\ FailAttempt(r.caller)
        <4>1. call[r.caller].pc = "waiting"
          BY <3>3 DEF Awaited
        <4>2. QED
          BY <3>1, <3>3, <4>1, FailAttemptTypes
      <3>4. CASE UNCHANGED <<currentProviderIndex, call>>
        BY <3>1, <3>4 DEF TypeInv, TypeOK
      <3>5. QED
        BY <2>5, <3>2, <3>3, <3>4 DEF ProviderAnswers
    <2>6. CASE UNCHANGED vars
      BY <2>6 DEF vars, TypeInv, TypeOK
    <2>7. QED
      BY <2>1, <2>2, <2>3, <2>4, <2>5, <2>6 DEF Next, CallStep
  <1>3. QED
    BY <1>1, <1>2, PTL DEF Spec

(***************************************************************************)
(* Every variable keeps its type.                                         *)
(***************************************************************************)
THEOREM TypeCorrect == Spec => []TypeOK
  <1>1. TypeInv => TypeOK
    BY DEF TypeInv
  <1>2. QED
    BY <1>1, TypeInvariant, PTL

-----------------------------------------------------------------------------

(***************************************************************************)
(* A rotation adds the provider the index was at to the ones it has left.  *)
(***************************************************************************)
LEMMA RotateOnce ==
    ASSUME NEW i \in Providers, NEW a \in Nat
    PROVE  {p \in Providers : Behind(NextIndex(i), p) <= a + 1}
               = {p \in Providers : Behind(i, p) <= a} \cup {i}
  <1>1. ASSUME NEW p \in Providers
        PROVE  Behind(NextIndex(i), p) <= a + 1 <=> (Behind(i, p) <= a \/ p = i)
    BY NextIndexFact, NAssumption DEF Behind, Providers
  <1>2. QED
    BY <1>1

LEMMA NoneLeftYet ==
    ASSUME NEW i \in Providers
    PROVE  {p \in Providers : Behind(i, p) <= 0} = {}
  BY NAssumption DEF Behind, Providers

LEMMA AllLeft ==
    ASSUME NEW i \in Providers
    PROVE  {p \in Providers : Behind(i, p) <= N} = Providers
  BY NAssumption DEF Behind, Providers

(***************************************************************************)
(* A failed attempt keeps the rotation invariant: the failing call moves   *)
(* to the next turn, and every other call in flight becomes disturbed.     *)
(***************************************************************************)
LEMMA FailAttemptRotation ==
    ASSUME TypeInv, RotationInv, NEW c \in Callers, call[c].pc = "waiting", FailAttempt(c)
    PROVE  RotationInv'
  <1> SUFFICES ASSUME NEW d \in Callers PROVE Rotation(d)'
    BY DEF RotationInv
  <1>t. call \in [Callers -> Calls] /\ currentProviderIndex \in Providers
    BY DEF TypeInv, TypeOK
  <1>1. CASE d = c
    <2>1. /\ call'[c].pc = "delay"
          /\ call'[c].attempts = call[c].attempts + 1
          /\ call'[c].tried = call[c].tried
          /\ call'[c].disturbed = call[c].disturbed
      BY FailAttemptEffect, <1>t DEF Calls
    <2>2. CASE call[c].disturbed
      BY <1>1, <2>1, <2>2 DEF Rotation
    <2>3. CASE ~ call[c].disturbed
      <3>1. call[c].tried = LeftSince(c) \cup {currentProviderIndex}
        BY <2>3 DEF RotationInv, Rotation
      <3>2. call[c].attempts \in Nat
        BY <1>t, NAssumption DEF Calls
      <3>3. LeftSince(c)' = LeftSince(c) \cup {currentProviderIndex}
        <4>1. LeftSince(c)' = {p \in Providers : Behind(NextIndex(currentProviderIndex), p)
                                                    <= call[c].attempts + 1}
          BY <2>1, FailAttemptEffect DEF LeftSince
        <4>2. QED
          BY <1>t, <3>2, <4>1, RotateOnce DEF LeftSince
      <3>4. QED
        BY <1>1, <2>1, <3>1, <3>3 DEF Rotation
    <2>4. QED
      BY <2>2, <2>3
  <1>2. CASE d # c
    <2>1. call'[d] = [call[d] EXCEPT !.disturbed = @ \/ InCall(d)]
      BY <1>2, FailAttemptEffect
    <2>2. /\ call'[d].pc = call[d].pc
          /\ call'[d].tried = call[d].tried
          /\ call'[d].disturbed = (call[d].disturbed \/ InCall(d))
      BY <2>1, <1>t DEF Calls
    <2>3. CASE call[d].pc \in {"waiting", "delay"}
      BY <2>2, <2>3 DEF Rotation, InCall
    <2>4. CASE call[d].pc \notin {"waiting", "delay"}
      BY <2>2, <2>4 DEF Rotation, RotationInv, InCall
    <2>5. QED
      BY <2>3, <2>4
  <1>3. QED
    BY <1>1, <1>2

(***************************************************************************)
(* A turn of the loop sends a request to the provider the index is at.     *)
(***************************************************************************)
LEMMA TurnRotation ==
    ASSUME TypeInv, RotationInv, NEW c \in Callers, NEW before \in Calls,
           NEW others \in SUBSET inflight, Turn(c, before, others),
           ~ before.disturbed => before.tried =
               {p \in Providers : Behind(currentProviderIndex, p) <= before.attempts}
    PROVE  RotationInv'
  <1>t. call \in [Callers -> Calls] /\ currentProviderIndex' = currentProviderIndex
    BY DEF TypeInv, TypeOK, Turn
  <1>1. /\ call'[c].pc = "waiting"
        /\ call'[c].attempts = before.attempts
        /\ call'[c].tried = before.tried \cup {currentProviderIndex}
        /\ call'[c].disturbed = before.disturbed
    BY <1>t DEF Turn, Calls
  <1>2. Rotation(c)'
    BY <1>1, <1>t DEF Rotation, LeftSince
  <1>3. ASSUME NEW d \in Callers, d # c PROVE Rotation(d)'
    <2>1. call'[d] = call[d]
      BY <1>t, <1>3 DEF Turn
    <2>2. QED
      BY <2>1, <1>t DEF RotationInv, Rotation, LeftSince
  <1>4. QED
    BY <1>2, <1>3 DEF RotationInv

(***************************************************************************)
(* The rotation invariant is inductive: it speaks of a call at every wait, *)
(* where the failure of an undisturbed call is only about the last.        *)
(***************************************************************************)
LEMMA RotationInvariant == Spec => []RotationInv
  <1>1. Init => RotationInv
    BY DEF Init, RotationInv, Rotation, IdleCall
  <1>2. TypeInv /\ RotationInv /\ [Next]_vars => RotationInv'
    <2> SUFFICES ASSUME TypeInv, RotationInv, [Next]_vars PROVE RotationInv'
      OBVIOUS
    <2>t. call \in [Callers -> Calls] /\ currentProviderIndex \in Providers
      BY DEF TypeInv, TypeOK
    <2>1. ASSUME NEW c \in Callers, Enter(c) PROVE RotationInv'
      <3>1. Turn(c, IdleCall, {r \in inflight : r.caller # c})
        BY <2>1 DEF Enter
      <3>2. IdleCall.tried = {p \in Providers : Behind(currentProviderIndex, p)
                                                   <= IdleCall.attempts}
        BY <2>t, NoneLeftYet DEF IdleCall
      <3>3. QED
        BY <3>1, <3>2, IdleCallType, TurnRotation
    <2>2. ASSUME NEW c \in Callers, Retry(c) PROVE RotationInv'
      <3>1. ~ call[c].disturbed => call[c].tried = LeftSince(c)
        BY <2>2 DEF Retry, RotationInv, Rotation
      <3>2. QED
        BY <2>2, <2>t, <3>1, TurnRotation DEF Retry, LeftSince
    <2>3. ASSUME NEW c \in Callers, Timeout(c) PROVE RotationInv'
      BY <2>3, FailAttemptRotation DEF Timeout
    <2>4. ASSUME NEW c \in Callers, GiveUp(c) PROVE RotationInv'
      <3>1. /\ call'[c].pc = "rejected"
            /\ call'[c].disturbed = call[c].disturbed
            /\ call'[c].tried = call[c].tried
            /\ \A d \in Callers \ {c} : call'[d] = call[d]
            /\ currentProviderIndex' = currentProviderIndex
        BY <2>4, <2>t DEF GiveUp, Calls
      <3>2. call[c].attempts = N
        BY <2>4, <2>t, NAssumption DEF GiveUp, Calls
      <3>3. ~ call[c].disturbed => call[c].tried = Providers
        BY <2>4, <2>t, <3>2, AllLeft DEF GiveUp, RotationInv, Rotation, LeftSince
      <3>4. Rotation(c)'
        BY <3>1, <3>3 DEF Rotation
      <3>5. ASSUME NEW d \in Callers \ {c} PROVE Rotation(d)'
        BY <3>1 DEF RotationInv, Rotation, LeftSince
      <3>6. QED
        BY <3>4, <3>5 DEF RotationInv
    <2>5. ASSUME NEW r \in inflight, NEW answer \in Answers, ProviderAnswers(r, answer)
          PROVE  RotationInv'
      <3>1. r.caller \in Callers
        BY DEF TypeInv, TypeOK, Requests
      <3>2. CASE /\ call' = [call EXCEPT ![r.caller].pc = "resolved",
                                         ![r.caller].from = r.provider]
                 /\ UNCHANGED currentProviderIndex
        <4>1. /\ call'[r.caller].pc = "resolved"
              /\ \A d \in Callers \ {r.caller} : call'[d] = call[d]
          BY <2>t, <3>1, <3>2 DEF Calls
        <4>2. ASSUME NEW d \in Callers \ {r.caller} PROVE Rotation(d)'
          BY <3>2, <4>1 DEF RotationInv, Rotation, LeftSince
        <4>3. QED
          BY <4>1, <4>2 DEF RotationInv, Rotation
      <3>3. CASE Awaited(r.caller, r) /\ FailAttempt(r.caller)
        BY <3>1, <3>3, FailAttemptRotation DEF Awaited
      <3>4. CASE UNCHANGED <<currentProviderIndex, call>>
        BY <3>4 DEF RotationInv, Rotation, LeftSince
      <3>5. QED
        BY <2>5, <3>2, <3>3, <3>4 DEF ProviderAnswers
    <2>6. CASE UNCHANGED vars
      BY <2>6 DEF vars, RotationInv, Rotation, LeftSince
    <2>7. QED
      BY <2>1, <2>2, <2>3, <2>4, <2>5, <2>6 DEF Next, CallStep
  <1>3. QED
    BY <1>1, <1>2, TypeInvariant, PTL DEF Spec

(***************************************************************************)
(* A call that gives up undisturbed has tried every configured provider,   *)
(* however many there are and whatever other callers did before it.        *)
(***************************************************************************)
THEOREM UndisturbedFailure == Spec => []UndisturbedFailureTriedAll
  <1>1. RotationInv => UndisturbedFailureTriedAll
    BY DEF RotationInv, Rotation, UndisturbedFailureTriedAll
  <1>2. QED
    BY <1>1, RotationInvariant, PTL

(***************************************************************************)
(* While undisturbed, a retry never goes to a provider the call has        *)
(* already tried.                                                          *)
(***************************************************************************)
THEOREM RetriesVisitNewProviders == Spec => NoProviderTriedTwice
  <1> DEFINE FreshRetry == \A c \in Callers :
          Retry(c) /\ ~ call[c].disturbed => currentProviderIndex \notin call[c].tried
  <1>1. TypeInv /\ RotationInv => FreshRetry
    <2> SUFFICES ASSUME TypeInv, RotationInv, NEW c \in Callers,
                        Retry(c), ~ call[c].disturbed
                 PROVE  currentProviderIndex \notin call[c].tried
      OBVIOUS
    <2>1. call[c].tried = LeftSince(c) /\ call[c].attempts < N
      BY DEF Retry, RotationInv, Rotation
    <2>2. call[c].attempts \in Nat /\ currentProviderIndex \in Providers
      BY NAssumption DEF TypeInv, TypeOK, Calls
    <2>3. Behind(currentProviderIndex, currentProviderIndex) = N
      BY <2>2, NAssumption DEF Behind, Providers
    <2>4. QED
      BY <2>1, <2>2, <2>3, NAssumption DEF LeftSince
  <1>2. QED
    BY <1>1, TypeInvariant, RotationInvariant, PTL DEF NoProviderTriedTwice

-----------------------------------------------------------------------------

(***************************************************************************)
(* After an attempt fails, what is in flight belongs to earlier attempts.  *)
(***************************************************************************)
LEMMA FailAttemptRequests ==
    ASSUME TypeInv, RequestInv, NEW c \in Callers, call[c].pc = "waiting", FailAttempt(c),
           inflight' \subseteq inflight
    PROVE  RequestInv'
  <1>1. /\ call'[c].pc = "delay"
        /\ call'[c].attempts = call[c].attempts + 1
    BY FailAttemptEffect DEF TypeInv, TypeOK, Calls
  <1>2. ASSUME NEW d \in Callers \ {c}
        PROVE  /\ call'[d].pc = call[d].pc
               /\ call'[d].attempts = call[d].attempts
               /\ call'[d].provider = call[d].provider
    BY FailAttemptEffect
  <1> SUFFICES ASSUME NEW r \in inflight'
               PROVE  /\ call'[r.caller].pc = "waiting" =>
                            /\ r.attempt <= call'[r.caller].attempts
                            /\ r.attempt = call'[r.caller].attempts
                                   => r.provider = call'[r.caller].provider
                      /\ call'[r.caller].pc = "delay" => r.attempt < call'[r.caller].attempts
    BY DEF RequestInv
  <1>3. r \in inflight /\ r \in Requests /\ r.caller \in Callers /\ r.attempt \in Nat
    BY NAssumption DEF TypeInv, TypeOK, Requests
  <1>4. CASE r.caller = c
    <2>1. r.attempt <= call[c].attempts /\ call[c].attempts \in Nat
      BY <1>3, <1>4, NAssumption DEF RequestInv, TypeInv, TypeOK, Calls
    <2>2. QED
      BY <1>1, <1>3, <1>4, <2>1
  <1>5. CASE r.caller # c
    BY <1>2, <1>3, <1>5 DEF RequestInv
  <1>6. QED
    BY <1>4, <1>5

(***************************************************************************)
(* A turn of the loop adds the request of the attempt it begins; what the  *)
(* call had in flight before is older.                                     *)
(***************************************************************************)
LEMMA TurnRequests ==
    ASSUME TypeInv, RequestInv, NEW c \in Callers, NEW before \in Calls,
           NEW others \in SUBSET inflight, Turn(c, before, others),
           \A r \in others : r.caller = c => r.attempt < before.attempts
    PROVE  RequestInv'
  <1>t. call \in [Callers -> Calls] /\ currentProviderIndex \in Providers
    BY DEF TypeInv, TypeOK
  <1>1. /\ call'[c].pc = "waiting"
        /\ call'[c].attempts = before.attempts
        /\ call'[c].provider = currentProviderIndex
        /\ \A d \in Callers \ {c} : call'[d] = call[d]
    BY <1>t DEF Turn, Calls
  <1> DEFINE request == [ caller   |-> c,
                          attempt  |-> before.attempts,
                          provider |-> currentProviderIndex ]
  <1>2. inflight' = others \cup {request}
    BY DEF Turn
  <1>3. before.attempts \in Nat
    BY NAssumption DEF Calls
  <1> SUFFICES ASSUME NEW r \in inflight'
               PROVE  /\ call'[r.caller].pc = "waiting" =>
                            /\ r.attempt <= call'[r.caller].attempts
                            /\ r.attempt = call'[r.caller].attempts
                                   => r.provider = call'[r.caller].provider
                      /\ call'[r.caller].pc = "delay" => r.attempt < call'[r.caller].attempts
    BY DEF RequestInv
  <1>4. CASE r = request
    BY <1>1, <1>3, <1>4
  <1>5. CASE r \in others
    <2>1. r \in inflight /\ r.caller \in Callers /\ r.attempt \in Nat
      BY <1>5, NAssumption DEF TypeInv, TypeOK, Requests
    <2>2. CASE r.caller = c
      BY <1>1, <1>3, <1>5, <2>1, <2>2
    <2>3. CASE r.caller # c
      BY <1>1, <2>1, <2>3 DEF RequestInv
    <2>4. QED
      BY <2>2, <2>3
  <1>6. QED
    BY <1>2, <1>4, <1>5

LEMMA RequestInvariant == Spec => []RequestInv
  <1>1. Init => RequestInv
    BY DEF Init, RequestInv
  <1>2. TypeInv /\ RequestInv /\ [Next]_vars => RequestInv'
    <2> SUFFICES ASSUME TypeInv, RequestInv, [Next]_vars PROVE RequestInv'
      OBVIOUS
    <2>t. /\ call \in [Callers -> Calls]
          /\ \A r \in inflight : r.caller \in Callers
      BY DEF TypeInv, TypeOK, Requests
    <2>1. ASSUME NEW c \in Callers, Enter(c) PROVE RequestInv'
      <3>1. Turn(c, IdleCall, {r \in inflight : r.caller # c})
        BY <2>1 DEF Enter
      <3>2. QED
        BY <3>1, IdleCallType, TurnRequests
    <2>2. ASSUME NEW c \in Callers, Retry(c) PROVE RequestInv'
      BY <2>2, <2>t, TurnRequests DEF Retry, RequestInv
    <2>3. ASSUME NEW c \in Callers, Timeout(c) PROVE RequestInv'
      BY <2>3, FailAttemptRequests DEF Timeout
    <2>4. ASSUME NEW c \in Callers, GiveUp(c) PROVE RequestInv'
      <3>1. /\ call'[c].pc = "rejected"
            /\ \A d \in Callers \ {c} : call'[d] = call[d]
            /\ inflight' = inflight
        BY <2>4, <2>t DEF GiveUp, Calls
      <3>2. QED
        BY <3>1, <2>t DEF RequestInv
    <2>5. ASSUME NEW r \in inflight, NEW answer \in Answers, ProviderAnswers(r, answer)
          PROVE  RequestInv'
      <3>1. inflight' \subseteq inflight
        BY <2>5 DEF ProviderAnswers
      <3>2. CASE call' = [call EXCEPT ![r.caller].pc = "resolved",
                                      ![r.caller].from = r.provider]
        <4>1. /\ call'[r.caller].pc = "resolved"
              /\ \A d \in Callers \ {r.caller} : call'[d] = call[d]
          BY <2>t, <3>2 DEF Calls
        <4>2. QED
          BY <2>t, <3>1, <4>1 DEF RequestInv
      <3>3. CASE Awaited(r.caller, r) /\ FailAttempt(r.caller)
        BY <2>t, <3>1, <3>3, FailAttemptRequests DEF Awaited
      <3>4. CASE UNCHANGED call
        BY <3>1, <3>4 DEF RequestInv
      <3>5. QED
        BY <2>5, <3>2, <3>3, <3>4 DEF ProviderAnswers
    <2>6. CASE UNCHANGED vars
      BY <2>6 DEF vars, RequestInv
    <2>7. QED
      BY <2>1, <2>2, <2>3, <2>4, <2>5, <2>6 DEF Next, CallStep
  <1>3. QED
    BY <1>1, <1>2, TypeInvariant, PTL DEF Spec

(***************************************************************************)
(* A late answer to an attempt that timed out is never what a call returns. *)
(***************************************************************************)
THEOREM ResolvedByTheLastAttempt == Spec => []ResolvedByLastAttempt
  <1>1. Init => ResolvedByLastAttempt
    BY DEF Init, IdleCall, ResolvedByLastAttempt
  <1>2. TypeInv /\ RequestInv /\ ResolvedByLastAttempt /\ [Next]_vars
            => ResolvedByLastAttempt'
    <2> SUFFICES ASSUME TypeInv, RequestInv, ResolvedByLastAttempt, [Next]_vars,
                        NEW c \in Callers, call'[c].pc = "resolved"
                 PROVE  call'[c].from = call'[c].provider
      BY DEF ResolvedByLastAttempt
    <2>t. /\ call \in [Callers -> Calls]
          /\ \A r \in inflight : r.caller \in Callers
      BY DEF TypeInv, TypeOK, Requests
    <2>1. CASE call'[c] = call[c]
      BY <2>1 DEF ResolvedByLastAttempt
    <2>2. ASSUME NEW d \in Callers, NEW before \in Calls, NEW others, Turn(d, before, others)
          PROVE  call'[c] = call[c]
      BY <2>2, <2>t DEF Turn, Calls
    <2>3. ASSUME NEW d \in Callers, call[d].pc = "waiting", FailAttempt(d)
          PROVE  call'[c].from = call'[c].provider
      <3>1. CASE c = d
        BY <2>3, <2>t, <3>1, FailAttemptEffect DEF Calls
      <3>2. CASE c # d
        BY <2>3, <3>2, FailAttemptEffect DEF ResolvedByLastAttempt
      <3>3. QED
        BY <3>1, <3>2
    <2>4. ASSUME NEW d \in Callers, GiveUp(d) PROVE call'[c] = call[c]
      BY <2>4, <2>t DEF GiveUp, Calls
    <2>5. ASSUME NEW r \in inflight, NEW answer \in Answers, ProviderAnswers(r, answer)
          PROVE  call'[c].from = call'[c].provider
      <3>1. CASE /\ Awaited(r.caller, r)
                 /\ call' = [call EXCEPT ![r.caller].pc = "resolved",
                                         ![r.caller].from = r.provider]
        <4>1. r.provider = call[r.caller].provider
          BY <2>t, <3>1 DEF Awaited, RequestInv
        <4>2. QED
          BY <2>t, <3>1, <4>1 DEF Calls, ResolvedByLastAttempt
      <3>2. CASE Awaited(r.caller, r) /\ FailAttempt(r.caller)
        BY <2>3, <2>t, <3>2 DEF Awaited
      <3>3. CASE UNCHANGED call
        BY <2>1, <3>3
      <3>4. QED
        BY <2>5, <3>1, <3>2, <3>3 DEF ProviderAnswers
    <2>6. CASE UNCHANGED vars
      BY <2>1, <2>6 DEF vars
    <2>7. QED
      BY <2>1, <2>2, <2>3, <2>4, <2>5, <2>6, IdleCallType, <2>t
         DEF Next, CallStep, Enter, Retry, Timeout
  <1>3. QED
    BY <1>1, <1>2, TypeInvariant, RequestInvariant, PTL DEF Spec

=============================================================================
