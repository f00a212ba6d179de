-------------------------- MODULE EtherscanHistory --------------------------
(***************************************************************************)
(* EtherscanApiService.constructGlobalTransactionHistory: the history of a *)
(* wallet over a block range, read from the explorer as two paged streams, *)
(* normal and internal transactions, which run in parallel and are merged  *)
(* into one history.                                                       *)
(*                                                                         *)
(* One action per settled request: the continuation of a stream up to its  *)
(* next request, with what it does to Promise.all.  The arguments have     *)
(* passed the checks of lines 78-91 (TransactionStreamer models the range  *)
(* check).  Between two requests the explorer may index more of the range, *)
(* or drop an item of it when the chain is reorganised.                    *)
(***************************************************************************)
EXTENDS Integers, SequencesExt

CONSTANTS
    Hashes,
    TimeStamp,    \* timestamp of the transaction with each hash
    Listings,     \* what the explorer may come to list: one sequence per kind
    Offset,       \* page size (offset, 2000)
    MaxPages,     \* MAX_PAGES (500)
    MaxDropped    \* bound on the items dropped by reorganisations

Kinds == {"normal", "internal"}

ASSUME PageAssumption == /\ Offset \in Nat \ {0} /\ MaxPages \in Nat \ {0}
                         /\ MaxDropped \in Nat
ASSUME ListingAssumption ==
    /\ TimeStamp \in [Hashes -> Nat]
    /\ Listings \subseteq [Kinds -> Seq(Hashes)]

VARIABLES
    listing,   \* all the explorer will ever list, in the order of the blocks
    indexed,   \* how many items of each kind it lists by now
    promised,  \* history: how many it listed when the call began (0: see Reorganise)
    dropped,   \* history: the items of each kind it no longer lists
    stream,    \* the two calls of getTransactions
    outcome,   \* of the promise constructGlobalTransactionHistory returns
    history    \* what it resolved with: records of a hash and a kind

vars == <<listing, indexed, promised, dropped, stream, outcome, history>>

(***************************************************************************)
(* "page" awaits the first request of the current page, "retry" the second *)
(* one after the delay; "truncated" and "failed" have thrown.              *)
(***************************************************************************)
Streams == [ pc   : {"page", "delay", "retry", "returned", "truncated", "failed"},
             page : 1 .. MaxPages,
             got  : Seq(Hashes) ]

Items == [hash : Hashes, kind : Kinds]

TypeOK == /\ listing \in [Kinds -> Seq(Hashes)]
          /\ \A k \in Kinds : /\ indexed[k] \in 0 .. Len(listing[k])
                              /\ promised[k] \in 0 .. indexed[k]
                              /\ dropped[k] \in Seq(Hashes)
          /\ stream \in [Kinds -> Streams]
          /\ outcome \in {"running", "resolved", "rejected"}
          /\ history \in Seq(Items)

Init == /\ listing \in Listings
        /\ indexed \in [Kinds -> 0 .. Len(listing["normal"]) + Len(listing["internal"])]
        /\ \A k \in Kinds : indexed[k] <= Len(listing[k])
        /\ promised = indexed
        /\ dropped = [k \in Kinds |-> <<>>]
        /\ stream = [k \in Kinds |-> [pc |-> "page", page |-> 1, got |-> <<>>]]
        /\ outcome = "running"
        /\ history = <<>>

-----------------------------------------------------------------------------

Requesting(k) == stream[k].pc \in {"page", "retry"}

Threw(k) == stream[k].pc \in {"truncated", "failed"}

Ended(k) == stream[k].pc = "returned" \/ Threw(k)

(***************************************************************************)
(* The page a request is answered with (sort=asc).                         *)
(***************************************************************************)
PageOf(k, page) ==
    SubSeq(listing[k], (page - 1) * Offset + 1,
           IF page * Offset <= indexed[k] THEN page * Offset ELSE indexed[k])

(***************************************************************************)
(* Mutant of Goes: ties are broken the other way round.                    *)
(***************************************************************************)
GoesReverse(items, i, j) ==
    LET a == TimeStamp[items[i].hash]
        b == TimeStamp[items[j].hash]
    IN  a < b \/ (a = b /\ i > j)

(***************************************************************************)
(* Normal transactions first, then a stable sort by timestamp: what goes   *)
(* before an item is earlier or, at its time, was before it.               *)
(***************************************************************************)
Goes(items, i, j) ==
    LET a == TimeStamp[items[i].hash]
        b == TimeStamp[items[j].hash]
    IN  a < b \/ (a = b /\ i < j)

Sorted[items \in Seq(Items)] ==
    [p \in DOMAIN items |->
        items[CHOOSE i \in DOMAIN items :
                 Cardinality({j \in DOMAIN items : Goes(items, j, i)}) = p - 1]]

(***************************************************************************)
(* The first item of each hash, in insertion order (the Map).              *)
(***************************************************************************)
FirstPerHash[items \in Seq(Items)] ==
    LET first == {i \in DOMAIN items : \A j \in 1 .. i - 1 : items[j].hash # items[i].hash}
    IN  [p \in 1 .. Cardinality(first) |->
            items[CHOOSE i \in first : Cardinality(first \cap 1 .. i - 1) = p - 1]]

Tagged(hashes, k) == [i \in DOMAIN hashes |-> [hash |-> hashes[i], kind |-> k]]

Merge(normal, internal) ==
    FirstPerHash[Sorted[Tagged(normal, "normal") \o Tagged(internal, "internal")]]

(***************************************************************************)
(* A stream returns.  Promise.all resolves when both have.                 *)
(***************************************************************************)
Return(k, transactions) ==
    /\ stream' = [stream EXCEPT ![k].pc = "returned", ![k].got = transactions]
    /\ IF outcome = "running" /\ \A j \in Kinds \ {k} : stream[j].pc = "returned"
       THEN /\ outcome' = "resolved"
            /\ history' = Merge(stream'["normal"].got, stream'["internal"].got)
       ELSE UNCHANGED <<outcome, history>>

(***************************************************************************)
(* Mutant of Throw: the error is swallowed and what was read returned.     *)
(***************************************************************************)
ThrowSwallowed(k, how) == how \in STRING /\ Return(k, stream[k].got)

(***************************************************************************)
(* A stream throws.  Promise.all rejects at once; the other stream, if it  *)
(* still runs, goes on asking for pages nobody will read.                  *)
(***************************************************************************)
Throw(k, how) ==
    /\ stream' = [stream EXCEPT ![k].pc = how, ![k].got = <<>>]
    /\ outcome' = IF outcome = "running" THEN "rejected" ELSE outcome
    /\ UNCHANGED history

(***************************************************************************)
(* Mutants of MorePages: the bound off by one, either way.                 *)
(***************************************************************************)
MorePagesLate(k) == stream[k].page <= MaxPages
MorePagesEarly(k) == stream[k].page < MaxPages - 1

(***************************************************************************)
(* The condition of the loop over pages.                                   *)
(***************************************************************************)
MorePages(k) == stream[k].page < MaxPages

(***************************************************************************)
(* A page arrives: a short one is the last; after a full one the next is   *)
(* requested, up to MAX_PAGES.                                             *)
(***************************************************************************)
PageArrives(k) ==
    /\ Requesting(k)
    /\ LET page == PageOf(k, stream[k].page)
           transactions == stream[k].got \o page
       IN  \/ /\ Len(page) < Offset
              /\ Return(k, transactions)
           \/ /\ Len(page) >= Offset
              /\ MorePages(k)
              /\ stream' = [stream EXCEPT ![k] = [ pc   |-> "page",
                                                   page |-> @.page + 1,
                                                   got  |-> transactions ]]
              /\ UNCHANGED <<outcome, history>>
           \/ /\ Len(page) >= Offset
              /\ ~ MorePages(k)
              /\ Throw(k, "truncated")
    /\ UNCHANGED <<listing, indexed, promised, dropped>>

(***************************************************************************)
(* Mutant of RateLimited: every request is retried, the second one too.    *)
(***************************************************************************)
RateLimitedAlways(k) ==
    /\ Requesting(k)
    /\ stream' = [stream EXCEPT ![k].pc = "delay"]
    /\ UNCHANGED <<listing, indexed, promised, dropped, outcome, history>>

(***************************************************************************)
(* HTTP 429, or an error that mentions a rate limit, on the first request  *)
(* of a page: wait, then ask for the same page once more.                  *)
(***************************************************************************)
RateLimited(k) ==
    /\ stream[k].pc = "page"
    /\ stream' = [stream EXCEPT ![k].pc = "delay"]
    /\ UNCHANGED <<listing, indexed, promised, dropped, outcome, history>>

RetryPage(k) ==
    /\ stream[k].pc = "delay"
    /\ stream' = [stream EXCEPT ![k].pc = "retry"]
    /\ UNCHANGED <<listing, indexed, promised, dropped, outcome, history>>

(***************************************************************************)
(* Any other error, or any error at all on the second request: HTTP        *)
(* status, invalid JSON, a response of another shape or a refused request. *)
(***************************************************************************)
RequestFails(k) ==
    /\ Requesting(k)
    /\ Throw(k, "failed")
    /\ UNCHANGED <<listing, indexed, promised, dropped>>

StreamStep(k) == PageArrives(k) \/ RateLimited(k) \/ RetryPage(k) \/ RequestFails(k)

(***************************************************************************)
(* The explorer indexes another item of the range.                         *)
(***************************************************************************)
Index(k) ==
    /\ indexed[k] < Len(listing[k])
    /\ indexed' = [indexed EXCEPT ![k] = @ + 1]
    /\ UNCHANGED <<listing, promised, dropped, stream, outcome, history>>

(***************************************************************************)
(* A reorganisation takes an item out of the list and moves those after it *)
(* up, across the borders of the pages: what was promised may be missed.   *)
(***************************************************************************)
Reorganise(k) ==
    /\ Len(dropped["normal"]) + Len(dropped["internal"]) < MaxDropped
    /\ \E i \in 1 .. indexed[k] :
          /\ listing' = [listing EXCEPT ![k] = RemoveAt(@, i)]
          /\ dropped' = [dropped EXCEPT ![k] = Append(@, listing[k][i])]
    /\ indexed' = [indexed EXCEPT ![k] = @ - 1]
    /\ promised' = [j \in Kinds |-> 0]
    /\ UNCHANGED <<stream, outcome, history>>

Next == \E k \in Kinds : StreamStep(k) \/ Index(k) \/ Reorganise(k)

(***************************************************************************)
(* Requests settle (fetch has time limits of its own) and the delay ends.  *)
(***************************************************************************)
Spec == Init /\ [][Next]_vars /\ \A k \in Kinds : WF_vars(StreamStep(k))

-----------------------------------------------------------------------------

HashesOf(items) == {items[i].hash : i \in DOMAIN items}

ListedHashes(upTo) == UNION {{listing[k][i] : i \in 1 .. upTo[k]} : k \in Kinds}

(***************************************************************************)
(* The caller's view: the whole history of the range or an error, once.    *)
(***************************************************************************)
Contract == INSTANCE HistoryFetch
    WITH listed   <- ListedHashes(indexed),
         promised <- ListedHashes(promised),
         dropped  <- UNION {ToSet(dropped[k]) : k \in Kinds},
         result   <- HashesOf(history)

WholeHistoryOrError == Contract!Spec

(***************************************************************************)
(* The history is ordered by time, which saveHistoryToDB relies on to save *)
(* the oldest first, has each hash once, and has it as the normal          *)
(* transaction whenever the explorer returned one.                         *)
(***************************************************************************)
HistoryMerged ==
    outcome = "resolved" =>
        /\ \A i, j \in DOMAIN history :
              i < j => /\ TimeStamp[history[i].hash] <= TimeStamp[history[j].hash]
                       /\ history[i].hash # history[j].hash
        /\ \A i \in DOMAIN history :
              history[i].hash \in ToSet(stream["normal"].got)
                  => history[i].kind = "normal"

(***************************************************************************)
(* The guard against truncation refuses a range only if it really fills    *)
(* MAX_PAGES pages, and what a resolved call read leaves no full last      *)
(* page behind: a range of exactly MAX_PAGES full pages is refused.        *)
(***************************************************************************)
TruncationOnlyIfFull ==
    \A k \in Kinds :
        /\ stream[k].pc = "truncated" =>
               indexed[k] + Len(dropped[k]) >= MaxPages * Offset
        /\ stream[k].pc = "returned"  => promised[k] < MaxPages * Offset

(***************************************************************************)
(* The stream left behind by the other one's error ends as well.           *)
(***************************************************************************)
BothStreamsEnd == <>[](\A k \in Kinds : Ended(k))

=============================================================================
