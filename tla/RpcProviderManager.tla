------------------------- MODULE RpcProviderManager -------------------------
(***************************************************************************)
(* JsonRpcProviderManager: a call of a JSON-RPC method over a list of      *)
(* providers.  A failed or timed out attempt moves the manager to the next *)
(* provider and, after a delay, the call tries again, once per configured  *)
(* provider at most.                                                       *)
(*                                                                         *)
(* The index of the current provider is a field of the manager, shared by  *)
(* every call in flight on it.  Calls overlap when one service handles     *)
(* several transactions at once (WalletService in concurrent mode), and    *)
(* they interleave at the two awaits of the loop: the answer of the        *)
(* provider and the delay.                                                 *)
(*                                                                         *)
(* callNumber is only logged and is left out.                              *)
(***************************************************************************)
EXTENDS Integers, FiniteSets

CONSTANTS
    N,          \* number of configured providers (rpcProviders.length)
    Callers     \* asynchronous callers sharing one manager

ASSUME NAssumption == N \in Nat \ {0}

VARIABLES
    currentProviderIndex,
    call,       \* the state of each caller's callProviderMethod
    inflight    \* requests whose provider has not answered yet

vars == <<currentProviderIndex, call, inflight>>

Providers == 0 .. N - 1

(***************************************************************************)
(* What a provider's promise can settle with.  "noLogs" is a receipt       *)
(* without logs, or no receipt at all, for getTransactionReceipt.          *)
(***************************************************************************)
Answers == {"ok", "error", "noLogs"}

(***************************************************************************)
(* A call: where it waits (pc), its local `attempts`, the provider of its  *)
(* current attempt, and the provider whose answer it resolved with.  Two   *)
(* fields record history for the properties only: `tried`, the providers   *)
(* it has sent a request to, and `disturbed`, whether another call moved   *)
(* the index meanwhile.                                                    *)
(***************************************************************************)
Calls == [ pc        : {"idle", "waiting", "delay", "resolved", "rejected"},
           attempts  : 0 .. N,
           provider  : Providers,
           from      : Providers \cup {-1},
           tried     : SUBSET Providers,
           disturbed : BOOLEAN ]

Requests == [ caller : Callers, attempt : 0 .. N, provider : Providers ]

TypeOK == /\ currentProviderIndex \in Providers
          /\ call \in [Callers -> Calls]
          /\ inflight \subseteq Requests

IdleCall == [ pc |-> "idle", attempts |-> 0, provider |-> 0, from |-> -1,
              tried |-> {}, disturbed |-> FALSE ]

Init == /\ currentProviderIndex = 0
        /\ call = [c \in Callers |-> IdleCall]
        /\ inflight = {}

-----------------------------------------------------------------------------

InCall(c) == call[c].pc \in {"waiting", "delay"}

(***************************************************************************)
(* Mutants of NextIndex: the index does not wrap; it does not move.        *)
(***************************************************************************)
NextIndexNoWrap(i) == i + 1
NextIndexStuck(i) == i

NextIndex(i) == (i + 1) % N

(***************************************************************************)
(* One turn of the while loop: read the shared index, send the request to  *)
(* that provider and start its timer.  `before` is the call as the turn    *)
(* finds it, `others` the requests it leaves in flight.                    *)
(***************************************************************************)
Turn(c, before, others) ==
    /\ call' = [call EXCEPT ![c] =
                   [before EXCEPT !.pc = "waiting",
                                  !.provider = currentProviderIndex,
                                  !.tried = @ \cup {currentProviderIndex}]]
    /\ inflight' = others \cup {[ caller   |-> c,
                                  attempt  |-> before.attempts,
                                  provider |-> currentProviderIndex ]}
    /\ UNCHANGED currentProviderIndex

(***************************************************************************)
(* A caller enters callProviderMethod; its first turn runs before anything *)
(* else can.  What its earlier call left in flight is forgotten: those     *)
(* promises settle objects nobody reads.                                   *)
(***************************************************************************)
Enter(c) ==
    /\ ~ InCall(c)
    /\ Turn(c, IdleCall, {r \in inflight : r.caller # c})

(***************************************************************************)
(* The delay is over and the loop's condition still holds.                 *)
(***************************************************************************)
Retry(c) ==
    /\ call[c].pc = "delay"
    /\ call[c].attempts < N
    /\ Turn(c, call[c], inflight)

(***************************************************************************)
(* Mutant of FailAttempt: the attempt is not counted.                      *)
(***************************************************************************)
FailAttemptUncounted(c) ==
    /\ currentProviderIndex' = NextIndex(currentProviderIndex)
    /\ call' = [d \in Callers |->
                  IF d = c
                  THEN [call[c] EXCEPT !.pc = "delay"]
                  ELSE [call[d] EXCEPT !.disturbed = @ \/ InCall(d)]]

(***************************************************************************)
(* The catch block: the shared index moves on, whatever it is by now, and  *)
(* the call waits before its next turn.                                    *)
(***************************************************************************)
FailAttempt(c) ==
    /\ currentProviderIndex' = NextIndex(currentProviderIndex)
    /\ call' = [d \in Callers |->
                  IF d = c
                  THEN [call[c] EXCEPT !.pc = "delay", !.attempts = @ + 1]
                  ELSE [call[d] EXCEPT !.disturbed = @ \/ InCall(d)]]

(***************************************************************************)
(* Mutant of Awaited: the answer to any attempt settles the call that      *)
(* waits.                                                                  *)
(***************************************************************************)
AwaitedAny(c, r) == call[c].pc = "waiting" /\ r \in inflight

(***************************************************************************)
(* The promise of an attempt is the call's own only while the call waits   *)
(* for that very attempt; once its timer has fired, resolve and reject do  *)
(* nothing.                                                                *)
(***************************************************************************)
Awaited(c, r) == call[c].pc = "waiting" /\ r.attempt = call[c].attempts

ProviderAnswers(r, answer) ==
    /\ r \in inflight
    /\ inflight' = inflight \ {r}
    /\ \/ /\ Awaited(r.caller, r)
          /\ answer = "ok"
          /\ call' = [call EXCEPT ![r.caller].pc = "resolved",
                                  ![r.caller].from = r.provider]
          /\ UNCHANGED currentProviderIndex
       \/ /\ Awaited(r.caller, r)
          /\ answer # "ok"
          /\ FailAttempt(r.caller)
       \/ /\ ~ Awaited(r.caller, r)
          /\ UNCHANGED <<currentProviderIndex, call>>

(***************************************************************************)
(* The timer of the attempt fires first; the request stays with the        *)
(* provider, which may still answer.                                       *)
(***************************************************************************)
Timeout(c) ==
    /\ call[c].pc = "waiting"
    /\ FailAttempt(c)
    /\ UNCHANGED inflight

(***************************************************************************)
(* Mutant of GiveUp: one attempt short.                                    *)
(***************************************************************************)
GiveUpEarly(c) ==
    /\ call[c].pc = "delay"
    /\ call[c].attempts >= N - 1
    /\ call' = [call EXCEPT ![c].pc = "rejected"]
    /\ UNCHANGED <<currentProviderIndex, inflight>>

(***************************************************************************)
(* The loop's condition fails after the last delay: ALL_PROVIDERS_FAILED.  *)
(***************************************************************************)
GiveUp(c) ==
    /\ call[c].pc = "delay"
    /\ call[c].attempts >= N
    /\ call' = [call EXCEPT ![c].pc = "rejected"]
    /\ UNCHANGED <<currentProviderIndex, inflight>>

CallStep(c) == Retry(c) \/ Timeout(c) \/ GiveUp(c)

Next == \/ \E c \in Callers : Enter(c) \/ CallStep(c)
        \/ \E r \in inflight, answer \in Answers : ProviderAnswers(r, answer)

(***************************************************************************)
(* The program's own steps are eventually taken: timers fire and the event *)
(* loop runs continuations.  Nothing is assumed of the providers.          *)
(***************************************************************************)
Spec == Init /\ [][Next]_vars /\ \A c \in Callers : WF_vars(CallStep(c))

-----------------------------------------------------------------------------

(***************************************************************************)
(* A call nobody disturbed that gives up has tried every configured        *)
(* provider: the rotation starting at its first provider visits them all.  *)
(***************************************************************************)
UndisturbedFailureTriedAll ==
    \A c \in Callers :
        call[c].pc = "rejected" /\ ~ call[c].disturbed => call[c].tried = Providers

(***************************************************************************)
(* The value a call resolves with comes from the provider of its last      *)
(* attempt, never from a late answer to an attempt that had timed out.     *)
(***************************************************************************)
ResolvedByLastAttempt ==
    \A c \in Callers :
        call[c].pc = "resolved" => call[c].from = call[c].provider

(***************************************************************************)
(* What the message of ALL_PROVIDERS_FAILED says: every provider failed    *)
(* this call.  Overlapping calls that rotate the shared index break it.    *)
(***************************************************************************)
RejectedOnlyIfAllTried ==
    \A c \in Callers : call[c].pc = "rejected" => call[c].tried = Providers

(***************************************************************************)
(* One call rotates the shared index at most once per provider, so between *)
(* two turns of one undisturbed call the index never moves back onto a     *)
(* provider that call has already tried.                                   *)
(***************************************************************************)
NoProviderTriedTwice ==
    [][\A c \in Callers :
          Retry(c) /\ ~ call[c].disturbed => currentProviderIndex \notin call[c].tried]_vars

(***************************************************************************)
(* Every call settles, even if no provider ever answers.                   *)
(***************************************************************************)
CallsSettle ==
    \A c \in Callers : InCall(c) ~> call[c].pc \in {"resolved", "rejected"}

=============================================================================
