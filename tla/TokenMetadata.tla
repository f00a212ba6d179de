---------------------------- MODULE TokenMetadata ----------------------------
(***************************************************************************)
(* TokenService.getTokenDetailsBatch: symbol and decimals of the tokens a  *)
(* transaction touches, from the token table, from one call to a Multicall *)
(* contract per batch, or, where these fail, from the token's contract     *)
(* (getTokenDetails).  Lookups, one per transaction in progress, share the *)
(* table.  One action is the code between two awaits.                      *)
(*                                                                         *)
(* A field of an entry is the token's own or the default.  Addresses are   *)
(* taken to be valid and compared as the keys of the map are.              *)
(***************************************************************************)
EXTENDS Naturals, SequencesExt

CONSTANTS
    Lookups,
    Tokens,
    Important,   \* the tokens whose symbol contains USD or ETH
    Broken,      \* the tokens that do not expose their metadata
    LogsOf,      \* the tokens of the logs of each lookup's transaction
    BatchSize,   \* MULTICALL_BATCH_SIZE
    None

ASSUME MetadataAssumption ==
    /\ Important \subseteq Tokens
    /\ Broken \subseteq Tokens
    /\ LogsOf \in [Lookups -> Seq(Tokens)]
    /\ BatchSize \in Nat \ {0}

VARIABLES
    tokenTable,   \* table token
    lookup,       \* where each lookup is
    answered      \* history: tokens for which a batch brought both fields

metadataVars == <<tokenTable, lookup, answered>>

Details == [symbol : {"own", "default"}, decimals : {"own", "default"}]

Own     == [symbol |-> "own",     decimals |-> "own"]
Default == [symbol |-> "default", decimals |-> "default"]

(***************************************************************************)
(* `todo` are the addresses still to be gone through, `seen` the tokens    *)
(* among those before, `uncached` those not found in the table and not yet *)
(* in a batch; `chunk` is what is left of the batch, `fetched` its tokens  *)
(* with both fields, and `pending` those to be looked up one by one.       *)
(***************************************************************************)
States ==
    [ pc       : {"off", "cache", "batch", "store", "single", "chain", "singleStore", "done"},
      todo     : Seq(Tokens),
      seen     : SUBSET Tokens,
      uncached : Seq(Tokens),
      chunk    : Seq(Tokens),
      fetched  : SUBSET Tokens,
      pending  : Seq(Tokens),
      details  : [Tokens -> Details \cup {None}] ]

MetadataTypeOK == /\ tokenTable \in [Tokens -> Details \cup {None}]
                  /\ lookup \in [Lookups -> States]
                  /\ answered \in [Lookups -> SUBSET Tokens]

Off == [ pc |-> "off", todo |-> <<>>, seen |-> {}, uncached |-> <<>>, chunk |-> <<>>,
         fetched |-> {}, pending |-> <<>>, details |-> [t \in Tokens |-> None] ]

MetadataInit == /\ tokenTable = [t \in Tokens |-> None]
                /\ lookup = [l \in Lookups |-> Off]
                /\ answered = [l \in Lookups |-> {}]

-----------------------------------------------------------------------------

Begin(l) ==
    /\ lookup[l].pc = "off"
    /\ lookup' = [lookup EXCEPT ![l] = [Off EXCEPT !.pc = "cache", !.todo = LogsOf[l]]]
    /\ UNCHANGED <<tokenTable, answered>>

Move(l, to) ==
    /\ lookup' = [lookup EXCEPT ![l] = to]
    /\ UNCHANGED <<tokenTable, answered>>

(***************************************************************************)
(* Each token once, in the order of their first log.                       *)
(***************************************************************************)
Fresh(k) == k.todo # <<>> /\ Head(k.todo) \notin k.seen

SkipSeen(l) ==
    LET k == lookup[l]
    IN  /\ k.pc = "cache" /\ k.todo # <<>> /\ ~ Fresh(k)
        /\ Move(l, [k EXCEPT !.todo = Tail(@)])

(***************************************************************************)
(* A token is found in the table; or it is not, or the read fails, and it  *)
(* goes into a batch.                                                      *)
(***************************************************************************)
CacheRead(l) ==
    LET k == lookup[l]
        t == Head(k.todo)
        after == [k EXCEPT !.todo = Tail(@), !.seen = @ \cup {t}]
    IN  /\ k.pc = "cache" /\ Fresh(k)
        /\ \/ /\ tokenTable[t] # None
              /\ Move(l, [after EXCEPT !.details[t] = tokenTable[t]])
           \/ Move(l, [after EXCEPT !.uncached = Append(@, t)])

CacheDone(l) ==
    /\ lookup[l].pc = "cache" /\ lookup[l].todo = <<>>
    /\ Move(l, [lookup[l] EXCEPT !.pc = "batch"])

BatchLen(k) == IF Len(k.uncached) < BatchSize THEN Len(k.uncached) ELSE BatchSize

Chunk(k) == SubSeq(k.uncached, 1, BatchLen(k))

Rest(k) == SubSeq(k.uncached, BatchLen(k) + 1, Len(k.uncached))

(***************************************************************************)
(* The call, or the decoding of its answer, fails: the whole batch is      *)
(* looked up one by one.                                                   *)
(***************************************************************************)
BatchFails(l) ==
    LET k == lookup[l]
    IN  /\ k.pc = "batch" /\ k.uncached # <<>>
        /\ Move(l, [k EXCEPT !.pc = "single", !.uncached = Rest(k), !.pending = Chunk(k)])

(***************************************************************************)
(* The answer has a symbol or not and decimals or not for each token; only *)
(* a token with both is resolved.                                          *)
(***************************************************************************)
\* Mutant of Resolved: one field is enough.
ResolvedInPart(symbols, decimals) == symbols \cup decimals

Resolved(symbols, decimals) == symbols \cap decimals

BatchArrives(l) ==
    LET k == lookup[l]
        asked == Range(Chunk(k)) \ Broken
    IN  /\ k.pc = "batch" /\ k.uncached # <<>>
        /\ \E symbols, decimals \in SUBSET asked :
              LET found == Resolved(symbols, decimals)
              IN  /\ lookup' = [lookup EXCEPT ![l] =
                        [k EXCEPT !.pc = "store",
                                  !.uncached = Rest(k),
                                  !.chunk = Chunk(k),
                                  !.fetched = found,
                                  !.details = [t \in Tokens |->
                                      IF t \in found
                                      THEN [symbol |-> IF t \in symbols THEN "own" ELSE "default",
                                            decimals |-> IF t \in decimals THEN "own" ELSE "default"]
                                      ELSE @[t]]]]
                  /\ answered' = [answered EXCEPT ![l] = @ \cup (symbols \cap decimals)]
        /\ UNCHANGED tokenTable

(***************************************************************************)
(* saveIfImportant: only tokens with USD or ETH in their symbol are kept.  *)
(* Here a failing write is logged and changes nothing.                     *)
(***************************************************************************)
SaveIfImportant(t, details) ==
    IF t \in Important /\ details.symbol = "own"
    THEN tokenTable' = [tokenTable EXCEPT ![t] = details]
    ELSE UNCHANGED tokenTable

Storing(k) == k.pc = "store" /\ k.chunk # <<>> /\ Head(k.chunk) \in k.fetched

StoreResolved(l) ==
    LET k == lookup[l]
        t == Head(k.chunk)
    IN  /\ Storing(k)
        /\ lookup' = [lookup EXCEPT ![l].chunk = Tail(@)]
        /\ SaveIfImportant(t, k.details[t])
        /\ UNCHANGED answered

\* Mutant of StoreFails: a failing write costs the entry.
StoreFailsDefault(l) ==
    LET k == lookup[l]
    IN  /\ Storing(k) /\ Head(k.chunk) \in Important
        /\ Move(l, [k EXCEPT !.chunk = Tail(@), !.details[Head(k.chunk)] = Default])

StoreFails(l) ==
    LET k == lookup[l]
    IN  /\ Storing(k) /\ Head(k.chunk) \in Important
        /\ Move(l, [k EXCEPT !.chunk = Tail(@)])

Postpone(l) ==
    LET k == lookup[l]
    IN  /\ k.pc = "store" /\ k.chunk # <<>> /\ ~ Storing(k)
        /\ Move(l, [k EXCEPT !.chunk = Tail(@), !.pending = Append(@, Head(k.chunk))])

StoreDone(l) ==
    /\ lookup[l].pc = "store" /\ lookup[l].chunk = <<>>
    /\ Move(l, [lookup[l] EXCEPT !.pc = "single"])

(***************************************************************************)
(* getTokenDetails for each of `pending`: from the table, or from the      *)
(* token's contract, the default if either fails.                          *)
(***************************************************************************)
Settle(k, details) ==
    [k EXCEPT !.pc = "single", !.pending = Tail(@), !.details[Head(k.pending)] = details]

SingleRead(l) ==
    LET k == lookup[l]
        t == Head(k.pending)
    IN  /\ k.pc = "single" /\ k.pending # <<>>
        /\ \/ tokenTable[t] # None /\ Move(l, Settle(k, tokenTable[t]))
           \/ tokenTable[t] = None /\ Move(l, [k EXCEPT !.pc = "chain"])

\* Mutants of SingleFails: the default is stored; the token is tried again for ever.
SingleFailsStored(l) ==
    /\ lookup[l].pc = "chain"
    /\ lookup' = [lookup EXCEPT ![l] = Settle(lookup[l], Default)]
    /\ tokenTable' = [tokenTable EXCEPT ![Head(lookup[l].pending)] = Default]
    /\ UNCHANGED answered

SingleFailsRetries(l) ==
    /\ lookup[l].pc \in {"chain", "singleStore"}
    /\ Move(l, [lookup[l] EXCEPT !.pc = "single"])

SingleFails(l) == /\ \/ lookup[l].pc = "single" /\ lookup[l].pending # <<>>
                     \/ lookup[l].pc \in {"chain", "singleStore"}
                  /\ Move(l, Settle(lookup[l], Default))

ChainRead(l) ==
    LET k == lookup[l]
        t == Head(k.pending)
    IN  /\ k.pc = "chain" /\ t \notin Broken
        /\ Move(l, IF t \in Important THEN [k EXCEPT !.pc = "singleStore"] ELSE Settle(k, Own))

(***************************************************************************)
(* Here a failing write is an error like any other: SingleFails.           *)
(***************************************************************************)
SingleStore(l) ==
    LET k == lookup[l]
    IN  /\ k.pc = "singleStore"
        /\ lookup' = [lookup EXCEPT ![l] = Settle(k, Own)]
        /\ SaveIfImportant(Head(k.pending), Own)
        /\ UNCHANGED answered

SingleDone(l) ==
    /\ lookup[l].pc = "single" /\ lookup[l].pending = <<>>
    /\ Move(l, [lookup[l] EXCEPT !.pc = "batch"])

AllDone(l) ==
    /\ lookup[l].pc = "batch" /\ lookup[l].uncached = <<>>
    /\ Move(l, [lookup[l] EXCEPT !.pc = "done"])

LookupStep(l) ==
    \/ SkipSeen(l)      \/ CacheRead(l)   \/ CacheDone(l)
    \/ BatchFails(l)    \/ BatchArrives(l)
    \/ StoreResolved(l) \/ StoreFails(l)  \/ Postpone(l) \/ StoreDone(l)
    \/ SingleRead(l)    \/ SingleFails(l) \/ ChainRead(l)
    \/ SingleStore(l)   \/ SingleDone(l)  \/ AllDone(l)

MetadataNext == \E l \in Lookups : Begin(l) \/ LookupStep(l)

(***************************************************************************)
(* The awaited calls settle.                                               *)
(***************************************************************************)
MetadataSpec == MetadataInit /\ [][MetadataNext]_metadataVars
                    /\ \A l \in Lookups : WF_metadataVars(LookupStep(l))

-----------------------------------------------------------------------------
(***************************************************************************)
(* The table holds what the contracts say, and never a default: an entry   *)
(* once stored is never asked for again, so a default would stay for ever. *)
(***************************************************************************)
CacheHoldsTruth ==
    \A t \in Tokens : tokenTable[t] # None => tokenTable[t] = Own /\ t \in Important

(***************************************************************************)
(* "Every requested valid address receives an entry": the token's own      *)
(* fields or both defaults, never a mixture; and nothing else is returned. *)
(***************************************************************************)
EntryForEach ==
    \A l \in Lookups : lookup[l].pc = "done" =>
        \A t \in Tokens : lookup[l].details[t] \in IF Contains(LogsOf[l], t)
                                                  THEN {Own, Default}
                                                  ELSE {None}

(***************************************************************************)
(* What a batch or the table brought is not lost again, whatever happens   *)
(* to its neighbours in the batch and to the writes to the table.          *)
(***************************************************************************)
NeighboursUnharmed ==
    \A l \in Lookups : lookup[l].pc = "done" =>
        \A t \in answered[l] : lookup[l].details[t] = Own

(***************************************************************************)
(* Every lookup ends.                                                      *)
(***************************************************************************)
LookupEnds == \A l \in Lookups : lookup[l].pc # "off" ~> lookup[l].pc = "done"

=============================================================================
