----------------------- MODULE TransferDecoding_proofs -----------------------
(***************************************************************************)
(* Proofs about TokenMetadata and TransferDecoding, for any transactions,  *)
(* tokens, decimals, amounts and batch sizes: what the table of tokens     *)
(* holds, what a look up returns, and what the transfers of a transaction  *)
(* add up to.                                                              *)
(***************************************************************************)
EXTENDS TransferDecoding, InductionLemmas, SequenceTheorems

(***************************************************************************)
(* The tokens a look up still owes an entry.                               *)
(***************************************************************************)
Waiting(k) == Range(k.uncached) \cup (Range(k.chunk) \ k.fetched) \cup Range(k.pending)

(***************************************************************************)
(* The three lists hold each token once and share none.                    *)
(***************************************************************************)
Apart(k) ==
    /\ IsInjective(k.uncached) /\ IsInjective(k.chunk) /\ IsInjective(k.pending)
    /\ Range(k.uncached) \cap Range(k.chunk) = {}
    /\ Range(k.uncached) \cap Range(k.pending) = {}
    /\ Range(k.chunk) \cap Range(k.pending) = {}
    /\ Range(k.uncached) \cup Range(k.chunk) \cup Range(k.pending) \subseteq k.seen

(***************************************************************************)
(* What each phase has left behind.                                        *)
(***************************************************************************)
Phase(l, k) ==
    /\ k.pc = "off" => k.seen = {} /\ k.uncached = <<>>
    /\ k.pc # "off" => k.seen \cup Range(k.todo) = Range(LogsOf[l])
    /\ k.pc \notin {"off", "cache"} => k.todo = <<>>
    /\ k.pc # "store" => k.chunk = <<>>
    /\ k.pc \in {"off", "cache", "batch", "done"} => k.pending = <<>>
    /\ k.pc \in {"chain", "singleStore"} => k.pending # <<>>
    /\ k.pc = "done" => k.uncached = <<>>

(***************************************************************************)
(* The entries: none before a token is seen, a whole one once it no longer *)
(* waits, and its own if a batch brought it.                               *)
(***************************************************************************)
Entries(k, got) ==
    /\ \A t \in Tokens \ k.seen : k.details[t] = None
    /\ \A t \in k.seen \ Waiting(k) : k.details[t] \in {Own, Default}
    /\ \A t \in got : t \in k.seen \ Waiting(k) /\ k.details[t] = Own
    /\ k.pc = "store" => k.fetched \subseteq got

Good(l, k, got) == Apart(k) /\ Phase(l, k) /\ Entries(k, got)

LookupInv ==
    /\ MetadataTypeOK
    /\ CacheHoldsTruth
    /\ \A l \in Lookups : Good(l, lookup[l], answered[l])

-----------------------------------------------------------------------------
(***************************************************************************)
(* Lists without repetition, as sets.                                      *)
(***************************************************************************)
LEMMA EmptyList == Range(<<>>) = {} /\ IsInjective(<<>>)
  BY DEF Range, IsInjective

LEMMA TailRange ==
    ASSUME NEW S, NEW s \in Seq(S), s # <<>>
    PROVE  /\ Head(s) \in S /\ Tail(s) \in Seq(S)
           /\ Range(s) = {Head(s)} \cup Range(Tail(s))
           /\ IsInjective(s) => Head(s) \notin Range(Tail(s)) /\ IsInjective(Tail(s))
  <1>1. /\ Head(s) = s[1] /\ 1 \in 1 .. Len(s) /\ Len(s) \in Nat /\ DOMAIN s = 1 .. Len(s)
        /\ Tail(s) \in Seq(S) /\ DOMAIN Tail(s) = 1 .. Len(s) - 1
        /\ \A i \in 1 .. Len(s) - 1 : i + 1 \in 1 .. Len(s) /\ Tail(s)[i] = s[i + 1]
    BY HeadTailProperties
  <1>2. \A j \in 1 .. Len(s) : j = 1 \/ (j - 1 \in 1 .. Len(s) - 1 /\ s[j] = Tail(s)[j - 1])
    BY <1>1
  <1>3. Range(s) = {Head(s)} \cup Range(Tail(s))
    <2>1. ASSUME NEW x \in Range(s) PROVE x \in {Head(s)} \cup Range(Tail(s))
      <3>1. PICK j \in 1 .. Len(s) : x = s[j]
        BY <1>1, <2>1 DEF Range
      <3>2. QED
        BY <1>1, <1>2, <3>1 DEF Range
    <2>2. ASSUME NEW x \in Range(Tail(s)) PROVE x \in Range(s)
      <3>1. PICK i \in 1 .. Len(s) - 1 : x = Tail(s)[i]
        BY <1>1, <2>2 DEF Range
      <3>2. QED
        BY <1>1, <3>1 DEF Range
    <2>3. Head(s) \in Range(s)
      BY <1>1 DEF Range
    <2>4. QED
      BY <2>1, <2>2, <2>3
  <1>4. ASSUME IsInjective(s) PROVE Head(s) \notin Range(Tail(s)) /\ IsInjective(Tail(s))
    <2>1. \A i, j \in 1 .. Len(s) : s[i] = s[j] => i = j
      BY <1>1, <1>4 DEF IsInjective
    <2>2. ASSUME NEW i \in 1 .. Len(s) - 1 PROVE Tail(s)[i] # Head(s)
      <3>1. i + 1 \in 1 .. Len(s) /\ i + 1 # 1 /\ Tail(s)[i] = s[i + 1]
        BY <1>1
      <3>2. QED
        BY <1>1, <2>1, <3>1
    <2>3. ASSUME NEW i \in 1 .. Len(s) - 1, NEW j \in 1 .. Len(s) - 1, Tail(s)[i] = Tail(s)[j]
          PROVE  i = j
      <3>1. i + 1 = j + 1
        BY <1>1, <2>1, <2>3
      <3>2. QED
        BY <3>1
    <2>4. QED
      BY <1>1, <2>2, <2>3 DEF Range, IsInjective
  <1>5. QED
    BY <1>1, <1>3, <1>4

LEMMA AppendRange ==
    ASSUME NEW S, NEW s \in Seq(S), NEW e \in S
    PROVE  /\ Append(s, e) \in Seq(S) /\ Append(s, e) # <<>>
           /\ Range(Append(s, e)) = Range(s) \cup {e}
           /\ IsInjective(s) /\ e \notin Range(s) => IsInjective(Append(s, e))
  <1>1. /\ Append(s, e) \in Seq(S) /\ Len(s) \in Nat /\ DOMAIN s = 1 .. Len(s)
        /\ DOMAIN Append(s, e) = 1 .. Len(s) + 1
        /\ \A i \in 1 .. Len(s) : Append(s, e)[i] = s[i]
        /\ Append(s, e)[Len(s) + 1] = e
    BY AppendProperties
  <1>2. \A i \in 1 .. Len(s) + 1 : i \in 1 .. Len(s) \/ i = Len(s) + 1
    BY <1>1
  <1>3. Len(s) + 1 \in 1 .. Len(s) + 1 /\ 1 .. Len(s) \subseteq 1 .. Len(s) + 1
    BY <1>1
  <1>4. Range(Append(s, e)) = Range(s) \cup {e}
    BY <1>1, <1>2, <1>3 DEF Range
  <1>5. IsInjective(s) /\ e \notin Range(s) => IsInjective(Append(s, e))
    BY <1>1, <1>2 DEF Range, IsInjective
  <1>6. Append(s, e) # <<>>
    BY <1>1, <1>3
  <1>7. QED
    BY <1>1, <1>4, <1>5, <1>6

LEMMA SplitRange ==
    ASSUME NEW S, NEW s \in Seq(S), NEW n \in 0 .. Len(s), IsInjective(s)
    PROVE  LET a == SubSeq(s, 1, n)
               b == SubSeq(s, n + 1, Len(s))
           IN  /\ a \in Seq(S) /\ b \in Seq(S) /\ IsInjective(a) /\ IsInjective(b)
               /\ Range(s) = Range(a) \cup Range(b) /\ Range(a) \cap Range(b) = {}
  <1>1. PICK a, b : a = SubSeq(s, 1, n) /\ b = SubSeq(s, n + 1, Len(s))
    OBVIOUS
  <1>2. Len(s) \in Nat /\ n \in Nat /\ n <= Len(s) /\ DOMAIN s = 1 .. Len(s)
    OBVIOUS
  <1>3. a \in Seq(S) /\ Len(a) = n /\ \A i \in 1 .. n : a[i] = s[i]
    <2>1. 1 \in Int /\ n \in Int /\ \A i \in 1 .. n : s[i] \in S
      BY <1>2
    <2>2. /\ a \in Seq(S) /\ Len(a) = IF 1 <= n THEN n - 1 + 1 ELSE 0
          /\ \A i \in 1 .. n - 1 + 1 : a[i] = s[1 + i - 1]
      BY <1>1, <2>1, SubSeqProperties
    <2>3. QED
      BY <1>2, <2>2
  <1>4. b \in Seq(S) /\ Len(b) = Len(s) - n /\ \A i \in 1 .. Len(s) - n : b[i] = s[n + i]
    <2>1. PICK m, e : m = n + 1 /\ e = Len(s)
      OBVIOUS
    <2>2. m \in Int /\ e \in Int /\ \A i \in m .. e : s[i] \in S
      BY <1>2, <2>1
    <2>3. /\ b \in Seq(S) /\ Len(b) = IF m <= e THEN e - m + 1 ELSE 0
          /\ \A i \in 1 .. e - m + 1 : b[i] = s[m + i - 1]
      BY <1>1, <2>1, <2>2, SubSeqProperties
    <2>4. Len(b) = Len(s) - n
      <3>1. PICK length : length = Len(s)
        OBVIOUS
      <3>2. length \in Nat /\ n \in Nat /\ n <= length /\ m = n + 1 /\ e = length
        BY <1>2, <2>1, <3>1
      <3>3. m <= e => e - m + 1 = length - n
        BY <3>2
      <3>4. ~ (m <= e) => length - n = 0
        BY <3>2
      <3>5. QED
        BY <2>3, <3>1, <3>3, <3>4
    <2>5. ASSUME NEW i \in 1 .. Len(s) - n PROVE b[i] = s[n + i]
      <3>1. i \in 1 .. e - m + 1 /\ m + i - 1 = n + i
        BY <1>2, <2>1
      <3>2. b[i] = s[m + i - 1]
        BY <2>3, <3>1
      <3>3. QED
        BY <3>1, <3>2
    <2>6. QED
      BY <2>3, <2>4, <2>5
  <1>5. \A i, j \in 1 .. Len(s) : s[i] = s[j] => i = j
    BY <1>2 DEF IsInjective
  <1>6. DOMAIN a = 1 .. n /\ DOMAIN b = 1 .. Len(s) - n
    BY <1>3, <1>4
  <1>7. /\ \A i \in 1 .. n : i \in 1 .. Len(s)
        /\ \A i \in 1 .. Len(s) - n : n + i \in 1 .. Len(s)
    BY <1>2
  <1>8. IsInjective(a)
    BY <1>3, <1>5, <1>6, <1>7 DEF IsInjective
  <1>9. IsInjective(b)
    <2>1. ASSUME NEW i \in 1 .. Len(s) - n, NEW j \in 1 .. Len(s) - n, b[i] = b[j] PROVE i = j
      <3>1. n + i = n + j
        BY <1>4, <1>5, <1>7, <2>1
      <3>2. QED
        BY <1>2, <3>1
    <2>2. QED
      BY <1>6, <2>1 DEF IsInjective
  <1>10. Range(a) \cap Range(b) = {}
    <2>1. ASSUME NEW i \in 1 .. n, NEW j \in 1 .. Len(s) - n PROVE a[i] # b[j]
      <3>1. i # n + j
        BY <1>2
      <3>2. QED
        BY <1>3, <1>4, <1>5, <1>7, <3>1
    <2>2. QED
      BY <1>6, <2>1 DEF Range
  <1>11. Range(s) = Range(a) \cup Range(b)
    <2>1. ASSUME NEW i \in 1 .. Len(s) PROVE s[i] \in Range(a) \cup Range(b)
      <3>1. CASE i <= n
        BY <1>3, <1>6, <3>1 DEF Range
      <3>2. CASE ~ (i <= n)
        <4>1. i - n \in 1 .. Len(s) - n /\ n + (i - n) = i
          BY <1>2, <3>2
        <4>2. QED
          BY <1>4, <1>6, <4>1 DEF Range
      <3>3. QED
        BY <3>1, <3>2
    <2>2. ASSUME NEW i \in 1 .. n PROVE a[i] \in Range(s)
      BY <1>2, <1>3, <1>7 DEF Range
    <2>3. ASSUME NEW i \in 1 .. Len(s) - n PROVE b[i] \in Range(s)
      BY <1>2, <1>4, <1>7 DEF Range
    <2>4. Range(s) \subseteq Range(a) \cup Range(b)
      BY <1>2, <2>1 DEF Range
    <2>5. Range(a) \subseteq Range(s) /\ Range(b) \subseteq Range(s)
      BY <1>6, <2>2, <2>3 DEF Range
    <2>6. QED
      BY <2>4, <2>5
  <1>12. QED
    BY <1>1, <1>3, <1>4, <1>8, <1>9, <1>10, <1>11

-----------------------------------------------------------------------------

LEMMA LookupMove ==
    ASSUME LookupInv, NEW l \in Lookups, NEW to \in States, NEW got \in SUBSET Tokens,
           lookup' = [lookup EXCEPT ![l] = to],
           answered' = [answered EXCEPT ![l] = got],
           Good(l, to, got),
           tokenTable' \in [Tokens -> Details \cup {None}],
           CacheHoldsTruth'
    PROVE  LookupInv'
  <1>1. /\ lookup' \in [Lookups -> States] /\ answered' \in [Lookups -> SUBSET Tokens]
        /\ \A m \in Lookups : /\ lookup'[m] = IF m = l THEN to ELSE lookup[m]
                              /\ answered'[m] = IF m = l THEN got ELSE answered[m]
    BY DEF LookupInv, MetadataTypeOK
  <1>2. \A m \in Lookups : Good(m, lookup'[m], answered'[m])
    BY <1>1 DEF LookupInv
  <1>3. QED
    BY <1>1, <1>2 DEF LookupInv, MetadataTypeOK

(***************************************************************************)
(* The same for a step that writes nothing but the look up.                *)
(***************************************************************************)
LEMMA LookupOnly ==
    ASSUME LookupInv, NEW l \in Lookups, NEW to \in States, Move(l, to),
           Good(l, to, answered[l])
    PROVE  LookupInv'
  <1>1. answered' = [answered EXCEPT ![l] = answered[l]] /\ answered[l] \in SUBSET Tokens
    BY DEF Move, LookupInv, MetadataTypeOK
  <1>2. tokenTable' \in [Tokens -> Details \cup {None}] /\ CacheHoldsTruth'
    BY DEF Move, LookupInv, MetadataTypeOK, CacheHoldsTruth
  <1>3. QED
    BY <1>1, <1>2, LookupMove DEF Move

LEMMA WholeEntries == Own \in Details /\ Default \in Details
  BY DEF Own, Default, Details

-----------------------------------------------------------------------------
(***************************************************************************)
(* Reading the table.                                                      *)
(***************************************************************************)
LEMMA BeginKeeps ==
    ASSUME LookupInv, NEW l \in Lookups, Begin(l)
    PROVE  LookupInv'
  <1> DEFINE to == [Off EXCEPT !.pc = "cache", !.todo = LogsOf[l]]
  <1>1. LogsOf[l] \in Seq(Tokens)
    BY MetadataAssumption
  <1>2. /\ to \in States /\ to.pc = "cache" /\ to.todo = LogsOf[l] /\ to.seen = {}
        /\ to.uncached = <<>> /\ to.chunk = <<>> /\ to.pending = <<>> /\ to.fetched = {}
        /\ to.details = [t \in Tokens |-> None]
    BY <1>1, EmptySeq DEF Off, States
  <1>3. Move(l, to)
    BY DEF Begin, Move
  <1> HIDE DEF to
  <1>4. answered[l] = {}
    BY DEF Begin, LookupInv, Good, Phase, Entries
  <1>5. Apart(to)
    BY <1>2, EmptyList DEF Apart
  <1>6. Phase(l, to)
    BY <1>2 DEF Phase
  <1>7. Entries(to, answered[l])
    BY <1>2, <1>4 DEF Entries
  <1>8. QED
    BY <1>2, <1>3, <1>5, <1>6, <1>7, LookupOnly DEF Good

LEMMA SkipKeeps ==
    ASSUME LookupInv, NEW l \in Lookups, SkipSeen(l)
    PROVE  LookupInv'
  <1> DEFINE k == lookup[l]
             to == [k EXCEPT !.todo = Tail(@)]
  <1>1. k \in States /\ k.todo \in Seq(Tokens) /\ Good(l, k, answered[l])
    BY DEF LookupInv, MetadataTypeOK, States
  <1>2. /\ k.pc = "cache" /\ k.todo # <<>> /\ Head(k.todo) \in k.seen /\ Move(l, to)
    BY DEF SkipSeen, Fresh
  <1>3. Tail(k.todo) \in Seq(Tokens) /\ Range(k.todo) = {Head(k.todo)} \cup Range(Tail(k.todo))
    BY <1>1, <1>2, TailRange
  <1>4. /\ to \in States /\ to.pc = k.pc /\ to.todo = Tail(k.todo) /\ to.seen = k.seen
        /\ to.uncached = k.uncached /\ to.chunk = k.chunk /\ to.pending = k.pending
        /\ to.fetched = k.fetched /\ to.details = k.details
    BY <1>1, <1>3 DEF States
  <1> HIDE DEF to
  <1>5. Apart(to)
    BY <1>1, <1>4 DEF Good, Apart
  <1>6. Phase(l, to)
    BY <1>1, <1>2, <1>3, <1>4 DEF Good, Phase
  <1>7. Entries(to, answered[l])
    BY <1>1, <1>4 DEF Good, Entries, Waiting
  <1>8. QED
    BY <1>2, <1>4, <1>5, <1>6, <1>7, LookupOnly DEF Good

LEMMA CacheKeeps ==
    ASSUME LookupInv, NEW l \in Lookups, CacheRead(l)
    PROVE  LookupInv'
  <1> DEFINE k == lookup[l]
             t == Head(k.todo)
             after == [k EXCEPT !.todo = Tail(@), !.seen = @ \cup {t}]
  <1>1. /\ k \in States /\ k.todo \in Seq(Tokens) /\ k.uncached \in Seq(Tokens)
        /\ k.seen \in SUBSET Tokens /\ k.details \in [Tokens -> Details \cup {None}]
        /\ Good(l, k, answered[l]) /\ answered[l] \in SUBSET Tokens
    BY DEF LookupInv, MetadataTypeOK, States
  <1>2. k.pc = "cache" /\ k.todo # <<>> /\ t \notin k.seen
    BY DEF CacheRead, Fresh
  <1>3. /\ t \in Tokens /\ Tail(k.todo) \in Seq(Tokens)
        /\ Range(k.todo) = {t} \cup Range(Tail(k.todo))
    BY <1>1, <1>2, TailRange
  <1>4. /\ t \notin Range(k.uncached) /\ t \notin Range(k.pending) /\ t \notin Range(k.chunk)
        /\ t \notin answered[l] /\ k.chunk = <<>> /\ k.pending = <<>>
    BY <1>1, <1>2 DEF Good, Apart, Entries, Phase
  <1>5. CASE tokenTable[t] # None /\ Move(l, [after EXCEPT !.details[t] = tokenTable[t]])
    <2> DEFINE to == [after EXCEPT !.details[t] = tokenTable[t]]
    <2>1. tokenTable[t] = Own
      BY <1>3, <1>5 DEF LookupInv, CacheHoldsTruth
    <2>2. /\ to \in States /\ to.pc = k.pc /\ to.todo = Tail(k.todo) /\ to.seen = k.seen \cup {t}
          /\ to.uncached = k.uncached /\ to.chunk = k.chunk /\ to.pending = k.pending
          /\ to.fetched = k.fetched /\ to.details = [k.details EXCEPT ![t] = Own]
      BY <1>1, <1>3, <2>1, WholeEntries DEF States
    <2> HIDE DEF to
    <2>3. Apart(to)
      BY <1>1, <2>2 DEF Good, Apart
    <2>4. Phase(l, to)
      BY <1>1, <1>2, <1>3, <2>2 DEF Good, Phase
    <2>5. Entries(to, answered[l])
      BY <1>1, <1>2, <1>3, <1>4, <2>2 DEF Good, Entries, Waiting
    <2>6. QED
      BY <1>5, <2>2, <2>3, <2>4, <2>5, LookupOnly DEF Good, to
  <1>6. CASE Move(l, [after EXCEPT !.uncached = Append(@, t)])
    <2> DEFINE to == [after EXCEPT !.uncached = Append(@, t)]
    <2>1. /\ Append(k.uncached, t) \in Seq(Tokens)
          /\ Range(Append(k.uncached, t)) = Range(k.uncached) \cup {t}
          /\ IsInjective(k.uncached) => IsInjective(Append(k.uncached, t))
      BY <1>1, <1>3, <1>4, AppendRange
    <2>2. /\ to \in States /\ to.pc = k.pc /\ to.todo = Tail(k.todo) /\ to.seen = k.seen \cup {t}
          /\ to.uncached = Append(k.uncached, t) /\ to.chunk = k.chunk /\ to.pending = k.pending
          /\ to.fetched = k.fetched /\ to.details = k.details
      BY <1>1, <1>3, <2>1 DEF States
    <2> HIDE DEF to
    <2>3. Apart(to)
      BY <1>1, <1>4, <2>1, <2>2 DEF Good, Apart
    <2>4. Phase(l, to)
      BY <1>1, <1>2, <1>3, <2>2 DEF Good, Phase
    <2>5. Entries(to, answered[l])
      BY <1>1, <1>2, <1>4, <2>1, <2>2 DEF Good, Entries, Waiting
    <2>6. QED
      BY <1>6, <2>2, <2>3, <2>4, <2>5, LookupOnly DEF Good, to
  <1>7. QED
    BY <1>5, <1>6 DEF CacheRead

(***************************************************************************)
(* Going on to another phase.                                              *)
(***************************************************************************)
LEMMA TurnKeeps ==
    ASSUME LookupInv, NEW l \in Lookups,
           NEW pc \in {"batch", "single", "chain", "singleStore", "done"},
           Move(l, [lookup[l] EXCEPT !.pc = pc]),
           lookup[l].todo = <<>>, lookup[l].chunk = <<>>, lookup[l].pc # "off",
           pc \in {"batch", "done"} => lookup[l].pending = <<>>,
           pc \in {"chain", "singleStore"} => lookup[l].pending # <<>>,
           pc = "done" => lookup[l].uncached = <<>>
    PROVE  LookupInv'
  <1> DEFINE k == lookup[l]
             to == [k EXCEPT !.pc = pc]
  <1>1. k \in States /\ Good(l, k, answered[l])
    BY DEF LookupInv, MetadataTypeOK
  <1>2. /\ to \in States /\ to.pc = pc /\ to.todo = k.todo /\ to.seen = k.seen
        /\ to.uncached = k.uncached /\ to.chunk = k.chunk /\ to.pending = k.pending
        /\ to.fetched = k.fetched /\ to.details = k.details
    BY <1>1 DEF States
  <1>3. Move(l, to)
    OBVIOUS
  <1> HIDE DEF to
  <1>4. Apart(to)
    BY <1>1, <1>2 DEF Good, Apart
  <1>5. Phase(l, to)
    BY <1>1, <1>2 DEF Good, Phase
  <1>6. Entries(to, answered[l])
    BY <1>1, <1>2 DEF Good, Entries, Waiting
  <1>7. QED
    BY <1>2, <1>3, <1>4, <1>5, <1>6, LookupOnly DEF Good

(***************************************************************************)
(* Batches.                                                                *)
(***************************************************************************)
LEMMA BatchSplit ==
    ASSUME LookupInv, NEW l \in Lookups
    PROVE  LET k == lookup[l]
           IN  /\ Chunk(k) \in Seq(Tokens) /\ Rest(k) \in Seq(Tokens)
               /\ IsInjective(Chunk(k)) /\ IsInjective(Rest(k))
               /\ Range(k.uncached) = Range(Chunk(k)) \cup Range(Rest(k))
               /\ Range(Chunk(k)) \cap Range(Rest(k)) = {}
  <1> DEFINE k == lookup[l]
  <1>1. k.uncached \in Seq(Tokens) /\ IsInjective(k.uncached)
    BY DEF LookupInv, MetadataTypeOK, States, Good, Apart
  <1>2. BatchLen(k) \in 0 .. Len(k.uncached)
    BY <1>1, MetadataAssumption DEF BatchLen
  <1>3. QED
    BY <1>1, <1>2, SplitRange DEF Chunk, Rest

LEMMA BatchFailsKeeps ==
    ASSUME LookupInv, NEW l \in Lookups, BatchFails(l)
    PROVE  LookupInv'
  <1> DEFINE k == lookup[l]
             to == [k EXCEPT !.pc = "single", !.uncached = Rest(k), !.pending = Chunk(k)]
  <1>1. k \in States /\ Good(l, k, answered[l])
    BY DEF LookupInv, MetadataTypeOK
  <1>2. k.pc = "batch" /\ Move(l, to)
    BY DEF BatchFails
  <1>3. /\ Chunk(k) \in Seq(Tokens) /\ Rest(k) \in Seq(Tokens)
        /\ IsInjective(Chunk(k)) /\ IsInjective(Rest(k))
        /\ Range(k.uncached) = Range(Chunk(k)) \cup Range(Rest(k))
        /\ Range(Chunk(k)) \cap Range(Rest(k)) = {}
    BY BatchSplit
  <1>4. k.todo = <<>> /\ k.chunk = <<>> /\ k.pending = <<>>
    BY <1>1, <1>2 DEF Good, Phase
  <1>5. /\ to \in States /\ to.pc = "single" /\ to.todo = k.todo /\ to.seen = k.seen
        /\ to.uncached = Rest(k) /\ to.chunk = k.chunk /\ to.pending = Chunk(k)
        /\ to.fetched = k.fetched /\ to.details = k.details
    BY <1>1, <1>3 DEF States
  <1> HIDE DEF to
  <1>6. Apart(to)
    BY <1>1, <1>3, <1>4, <1>5, EmptyList DEF Good, Apart
  <1>7. Phase(l, to)
    BY <1>1, <1>2, <1>4, <1>5 DEF Good, Phase
  <1>8. Waiting(to) = Waiting(k)
    BY <1>3, <1>4, <1>5, EmptyList DEF Waiting
  <1>9. Entries(to, answered[l])
    BY <1>1, <1>5, <1>8 DEF Good, Entries
  <1>10. QED
    BY <1>2, <1>5, <1>6, <1>7, <1>9, LookupOnly DEF Good

LEMMA BatchArrivesKeeps ==
    ASSUME LookupInv, NEW l \in Lookups, BatchArrives(l)
    PROVE  LookupInv'
  <1> DEFINE k == lookup[l]
  <1>1. k \in States /\ Good(l, k, answered[l]) /\ answered[l] \in SUBSET Tokens
    BY DEF LookupInv, MetadataTypeOK
  <1>2. k.pc = "batch" /\ UNCHANGED tokenTable
    BY DEF BatchArrives
  <1>3. /\ Chunk(k) \in Seq(Tokens) /\ Rest(k) \in Seq(Tokens)
        /\ IsInjective(Chunk(k)) /\ IsInjective(Rest(k))
        /\ Range(k.uncached) = Range(Chunk(k)) \cup Range(Rest(k))
        /\ Range(Chunk(k)) \cap Range(Rest(k)) = {}
    BY BatchSplit
  <1>4. k.todo = <<>> /\ k.chunk = <<>> /\ k.pending = <<>>
    BY <1>1, <1>2 DEF Good, Phase
  <1>5. PICK symbols \in SUBSET (Range(Chunk(k)) \ Broken),
             decimals \in SUBSET (Range(Chunk(k)) \ Broken) :
            /\ lookup' = [lookup EXCEPT ![l] =
                     [k EXCEPT !.pc = "store",
                               !.uncached = Rest(k),
                               !.chunk = Chunk(k),
                               !.fetched = symbols \cap decimals,
                               !.details = [t \in Tokens |->
                                   IF t \in symbols \cap decimals
                                   THEN [symbol |-> IF t \in symbols THEN "own" ELSE "default",
                                         decimals |-> IF t \in decimals THEN "own" ELSE "default"]
                                   ELSE @[t]]]]
            /\ answered' = [answered EXCEPT ![l] = @ \cup (symbols \cap decimals)]
    BY DEF BatchArrives, Resolved
  <1> DEFINE found == symbols \cap decimals
             entries == [t \in Tokens |->
                            IF t \in found
                            THEN [symbol |-> IF t \in symbols THEN "own" ELSE "default",
                                  decimals |-> IF t \in decimals THEN "own" ELSE "default"]
                            ELSE k.details[t]]
             to == [k EXCEPT !.pc = "store", !.uncached = Rest(k), !.chunk = Chunk(k),
                             !.fetched = found, !.details = entries]
  <1>6. found \subseteq Range(Chunk(k)) /\ Range(Chunk(k)) \subseteq Tokens
    BY <1>3 DEF Range
  <1>7. \A t \in Tokens : entries[t] = IF t \in found THEN Own ELSE k.details[t]
    BY DEF Own
  <1>8. entries \in [Tokens -> Details \cup {None}]
    BY <1>1, <1>7, WholeEntries DEF States
  <1> HIDE DEF entries
  <1>9. /\ lookup' = [lookup EXCEPT ![l] = to]
        /\ answered' = [answered EXCEPT ![l] = answered[l] \cup found]
    BY <1>5 DEF entries
  <1>10. /\ to \in States /\ to.pc = "store" /\ to.todo = k.todo /\ to.seen = k.seen
         /\ to.uncached = Rest(k) /\ to.chunk = Chunk(k) /\ to.pending = k.pending
         /\ to.fetched = found /\ to.details = entries
    BY <1>1, <1>3, <1>6, <1>8 DEF States
  <1> HIDE DEF to, found
  <1>11. Apart(to)
    BY <1>1, <1>3, <1>4, <1>10, EmptyList DEF Good, Apart
  <1>12. Phase(l, to)
    BY <1>1, <1>2, <1>4, <1>10 DEF Good, Phase
  <1>13. Waiting(to) = Waiting(k) \ found
    BY <1>3, <1>4, <1>6, <1>10, EmptyList DEF Waiting
  <1>14. found \subseteq Waiting(k) /\ found \subseteq k.seen /\ found \subseteq Tokens
    BY <1>1, <1>3, <1>6 DEF Waiting, Good, Apart
  <1>15. Entries(to, answered[l] \cup found)
    <2>1. \A t \in Tokens : t \notin found => entries[t] = k.details[t]
      BY <1>7
    <2>2. \A t \in found : entries[t] = Own
      BY <1>7, <1>14
    <2>3. k.seen \subseteq Tokens
      BY <1>1 DEF States
    <2>4. \A t \in k.seen \ Waiting(to) : entries[t] \in {Own, Default}
      BY <1>1, <1>13, <2>1, <2>2, <2>3 DEF Good, Entries
    <2>5. \A t \in answered[l] \cup found : t \in k.seen \ Waiting(to) /\ entries[t] = Own
      BY <1>1, <1>13, <1>14, <2>1, <2>2, <2>3 DEF Good, Entries
    <2>6. \A t \in Tokens \ k.seen : entries[t] = None
      BY <1>1, <1>14, <2>1 DEF Good, Entries
    <2>7. QED
      BY <1>10, <2>4, <2>5, <2>6 DEF Entries
  <1>16. answered[l] \cup found \in SUBSET Tokens
    BY <1>1, <1>14
  <1>17. tokenTable' \in [Tokens -> Details \cup {None}] /\ CacheHoldsTruth'
    BY <1>2 DEF LookupInv, MetadataTypeOK, CacheHoldsTruth
  <1>18. QED
    BY <1>9, <1>10, <1>11, <1>12, <1>15, <1>16, <1>17, LookupMove DEF Good

-----------------------------------------------------------------------------
(***************************************************************************)
(* The loop over a batch.                                                  *)
(***************************************************************************)
LEMMA DropStored ==
    ASSUME LookupInv, NEW l \in Lookups, Storing(lookup[l])
    PROVE  LET k  == lookup[l]
               to == [k EXCEPT !.chunk = Tail(@)]
           IN  /\ to \in States /\ Good(l, to, answered[l])
               /\ Head(k.chunk) \in Tokens /\ k.details[Head(k.chunk)] = Own
  <1> DEFINE k == lookup[l]
             to == [k EXCEPT !.chunk = Tail(@)]
  <1>1. k \in States /\ Good(l, k, answered[l]) /\ k.chunk \in Seq(Tokens)
    BY DEF LookupInv, MetadataTypeOK, States
  <1>2. k.pc = "store" /\ k.chunk # <<>> /\ Head(k.chunk) \in k.fetched
    BY DEF Storing
  <1>3. /\ Head(k.chunk) \in Tokens /\ Tail(k.chunk) \in Seq(Tokens)
        /\ Range(k.chunk) = {Head(k.chunk)} \cup Range(Tail(k.chunk))
        /\ IsInjective(Tail(k.chunk))
    BY <1>1, <1>2, TailRange DEF Good, Apart
  <1>4. k.details[Head(k.chunk)] = Own
    BY <1>1, <1>2 DEF Good, Entries
  <1>5. /\ to \in States /\ to.pc = k.pc /\ to.todo = k.todo /\ to.seen = k.seen
        /\ to.uncached = k.uncached /\ to.chunk = Tail(k.chunk) /\ to.pending = k.pending
        /\ to.fetched = k.fetched /\ to.details = k.details
    BY <1>1, <1>3 DEF States
  <1> HIDE DEF to
  <1>6. Apart(to)
    BY <1>1, <1>3, <1>5 DEF Good, Apart
  <1>7. Phase(l, to)
    BY <1>1, <1>2, <1>5 DEF Good, Phase
  <1>8. Waiting(to) = Waiting(k)
    BY <1>2, <1>3, <1>5 DEF Waiting
  <1>9. Entries(to, answered[l])
    BY <1>1, <1>5, <1>8 DEF Good, Entries
  <1>10. QED
    BY <1>3, <1>4, <1>5, <1>6, <1>7, <1>9 DEF Good, to

(***************************************************************************)
(* Only what the contract says is ever written.                            *)
(***************************************************************************)
LEMMA SaveKeeps ==
    ASSUME LookupInv, NEW t, SaveIfImportant(t, Own)
    PROVE  tokenTable' \in [Tokens -> Details \cup {None}] /\ CacheHoldsTruth'
  <1>1. tokenTable \in [Tokens -> Details \cup {None}]
    BY DEF LookupInv, MetadataTypeOK
  <1>2. CASE UNCHANGED tokenTable
    BY <1>1, <1>2 DEF LookupInv, CacheHoldsTruth
  <1>3. CASE t \in Important /\ tokenTable' = [tokenTable EXCEPT ![t] = Own]
    <2>1. \A u \in Tokens : tokenTable'[u] = IF u = t THEN Own ELSE tokenTable[u]
      BY <1>1, <1>3
    <2>2. QED
      BY <1>1, <1>3, <2>1, WholeEntries DEF LookupInv, CacheHoldsTruth
  <1>4. QED
    BY <1>2, <1>3 DEF SaveIfImportant

LEMMA StoreKeeps ==
    ASSUME LookupInv, NEW l \in Lookups, StoreResolved(l) \/ StoreFails(l)
    PROVE  LookupInv'
  <1> DEFINE k  == lookup[l]
             to == [k EXCEPT !.chunk = Tail(@)]
  <1>1. Storing(k)
    BY DEF StoreResolved, StoreFails
  <1>2. /\ to \in States /\ Good(l, to, answered[l])
        /\ Head(k.chunk) \in Tokens /\ k.details[Head(k.chunk)] = Own
    BY <1>1, DropStored
  <1>3. CASE StoreFails(l)
    <2>1. Move(l, to)
      BY <1>3 DEF StoreFails
    <2>2. QED
      BY <1>2, <2>1, LookupOnly
  <1>4. CASE StoreResolved(l)
    <2>1. lookup' = [lookup EXCEPT ![l] = to] /\ UNCHANGED answered
      BY <1>4 DEF StoreResolved, LookupInv, MetadataTypeOK
    <2>2. SaveIfImportant(Head(k.chunk), Own)
      BY <1>2, <1>4 DEF StoreResolved
    <2>3. tokenTable' \in [Tokens -> Details \cup {None}] /\ CacheHoldsTruth'
      BY <2>2, SaveKeeps
    <2>4. answered[l] \in SUBSET Tokens /\ answered' = [answered EXCEPT ![l] = answered[l]]
      BY <2>1 DEF LookupInv, MetadataTypeOK
    <2>5. QED
      BY <1>2, <2>1, <2>3, <2>4, LookupMove
  <1>5. QED
    BY <1>3, <1>4

LEMMA PostponeKeeps ==
    ASSUME LookupInv, NEW l \in Lookups, Postpone(l)
    PROVE  LookupInv'
  <1> DEFINE k == lookup[l]
             t == Head(k.chunk)
             to == [k EXCEPT !.chunk = Tail(@), !.pending = Append(@, Head(k.chunk))]
  <1>1. /\ k \in States /\ Good(l, k, answered[l])
        /\ k.chunk \in Seq(Tokens) /\ k.pending \in Seq(Tokens)
    BY DEF LookupInv, MetadataTypeOK, States
  <1>2. k.pc = "store" /\ k.chunk # <<>> /\ t \notin k.fetched /\ Move(l, to)
    BY DEF Postpone, Storing
  <1>3. /\ t \in Tokens /\ Tail(k.chunk) \in Seq(Tokens)
        /\ Range(k.chunk) = {t} \cup Range(Tail(k.chunk))
        /\ t \notin Range(Tail(k.chunk)) /\ IsInjective(Tail(k.chunk))
    BY <1>1, <1>2, TailRange DEF Good, Apart
  <1>4. t \notin Range(k.pending) /\ t \notin Range(k.uncached)
    BY <1>1, <1>3 DEF Good, Apart
  <1>5. /\ Append(k.pending, t) \in Seq(Tokens)
        /\ Range(Append(k.pending, t)) = Range(k.pending) \cup {t}
        /\ IsInjective(Append(k.pending, t))
    BY <1>1, <1>3, <1>4, AppendRange DEF Good, Apart
  <1>6. /\ to \in States /\ to.pc = k.pc /\ to.todo = k.todo /\ to.seen = k.seen
        /\ to.uncached = k.uncached /\ to.chunk = Tail(k.chunk)
        /\ to.pending = Append(k.pending, t)
        /\ to.fetched = k.fetched /\ to.details = k.details
    BY <1>1, <1>3, <1>5 DEF States
  <1> HIDE DEF to
  <1>7. Apart(to)
    BY <1>1, <1>3, <1>4, <1>5, <1>6 DEF Good, Apart
  <1>8. Phase(l, to)
    BY <1>1, <1>2, <1>6 DEF Good, Phase
  <1>9. Waiting(to) = Waiting(k)
    BY <1>2, <1>3, <1>5, <1>6 DEF Waiting
  <1>10. Entries(to, answered[l])
    BY <1>1, <1>6, <1>9 DEF Good, Entries
  <1>11. QED
    BY <1>2, <1>6, <1>7, <1>8, <1>10, LookupOnly DEF Good

-----------------------------------------------------------------------------
(***************************************************************************)
(* One by one.                                                             *)
(***************************************************************************)
LEMMA SettleKeeps ==
    ASSUME LookupInv, NEW l \in Lookups, NEW details \in {Own, Default},
           lookup[l].pc \in {"single", "chain", "singleStore"}, lookup[l].pending # <<>>,
           lookup' = [lookup EXCEPT ![l] = Settle(lookup[l], details)],
           UNCHANGED answered,
           tokenTable' \in [Tokens -> Details \cup {None}], CacheHoldsTruth'
    PROVE  LookupInv'
  <1> DEFINE k == lookup[l]
             t == Head(k.pending)
             to == [k EXCEPT !.pc = "single", !.pending = Tail(@),
                             !.details[Head(k.pending)] = details]
  <1>1. /\ k \in States /\ Good(l, k, answered[l]) /\ k.pending \in Seq(Tokens)
        /\ k.details \in [Tokens -> Details \cup {None}] /\ answered[l] \in SUBSET Tokens
        /\ k.seen \in SUBSET Tokens
    BY DEF LookupInv, MetadataTypeOK, States
  <1>2. /\ t \in Tokens /\ Tail(k.pending) \in Seq(Tokens)
        /\ Range(k.pending) = {t} \cup Range(Tail(k.pending))
        /\ t \notin Range(Tail(k.pending)) /\ IsInjective(Tail(k.pending))
    BY <1>1, TailRange DEF Good, Apart
  <1>3. k.chunk = <<>> /\ k.todo = <<>>
    BY <1>1 DEF Good, Phase
  <1>4. t \notin Range(k.uncached) /\ t \in k.seen /\ t \notin answered[l]
    BY <1>1, <1>2 DEF Good, Apart, Entries, Waiting
  <1>5. /\ to \in States /\ to.pc = "single" /\ to.todo = k.todo /\ to.seen = k.seen
        /\ to.uncached = k.uncached /\ to.chunk = k.chunk /\ to.pending = Tail(k.pending)
        /\ to.fetched = k.fetched /\ to.details = [k.details EXCEPT ![t] = details]
    BY <1>1, <1>2, WholeEntries DEF States
  <1>6. lookup' = [lookup EXCEPT ![l] = to] /\ answered' = [answered EXCEPT ![l] = answered[l]]
    BY DEF Settle, LookupInv, MetadataTypeOK
  <1> HIDE DEF to
  <1>7. Apart(to)
    BY <1>1, <1>2, <1>5 DEF Good, Apart
  <1>8. Phase(l, to)
    BY <1>1, <1>3, <1>5 DEF Good, Phase
  <1>9. Waiting(to) = Waiting(k) \ {t}
    BY <1>2, <1>3, <1>4, <1>5, EmptyList DEF Waiting
  <1>10. \A u \in Tokens : to.details[u] = IF u = t THEN details ELSE k.details[u]
    BY <1>1, <1>2, <1>5
  <1>11. Entries(to, answered[l])
    BY <1>1, <1>4, <1>5, <1>9, <1>10 DEF Good, Entries
  <1>12. QED
    BY <1>1, <1>5, <1>6, <1>7, <1>8, <1>11, LookupMove DEF Good

LEMMA SingleKeeps ==
    ASSUME LookupInv, NEW l \in Lookups,
           SingleRead(l) \/ SingleFails(l) \/ ChainRead(l) \/ SingleStore(l)
    PROVE  LookupInv'
  <1> DEFINE k == lookup[l]
             t == Head(k.pending)
  <1>1. k \in States /\ Good(l, k, answered[l]) /\ k.pending \in Seq(Tokens)
    BY DEF LookupInv, MetadataTypeOK, States
  <1>2. k.pc \in {"single", "chain", "singleStore"} /\ k.pending # <<>>
    BY <1>1 DEF SingleRead, SingleFails, ChainRead, SingleStore, Good, Phase
  <1>3. k.todo = <<>> /\ k.chunk = <<>> /\ t \in Tokens
    BY <1>1, <1>2, TailRange DEF Good, Phase
  <1>4. ASSUME UNCHANGED tokenTable
        PROVE  tokenTable' \in [Tokens -> Details \cup {None}] /\ CacheHoldsTruth'
    BY <1>4 DEF LookupInv, MetadataTypeOK, CacheHoldsTruth
  <1>5. ASSUME NEW details \in {Own, Default}, Move(l, Settle(k, details)) PROVE LookupInv'
    <2>1. /\ lookup' = [lookup EXCEPT ![l] = Settle(k, details)]
          /\ UNCHANGED <<tokenTable, answered>>
      BY <1>5 DEF Move
    <2>2. QED
      BY <1>2, <1>4, <2>1, SettleKeeps
  <1>6. CASE SingleRead(l)
    <2>1. CASE tokenTable[t] # None /\ Move(l, Settle(k, tokenTable[t]))
      <3>1. tokenTable[t] = Own
        BY <1>3, <2>1 DEF LookupInv, CacheHoldsTruth
      <3>2. QED
        BY <1>5, <2>1, <3>1
    <2>2. CASE Move(l, [k EXCEPT !.pc = "chain"])
      BY <1>2, <1>3, <2>2, TurnKeeps
    <2>3. QED
      BY <1>6, <2>1, <2>2 DEF SingleRead
  <1>7. CASE SingleFails(l)
    BY <1>5, <1>7 DEF SingleFails
  <1>8. CASE ChainRead(l)
    <2>1. CASE Move(l, Settle(k, Own))
      BY <1>5, <2>1
    <2>2. CASE Move(l, [k EXCEPT !.pc = "singleStore"])
      BY <1>2, <1>3, <2>2, TurnKeeps
    <2>3. QED
      BY <1>8, <2>1, <2>2 DEF ChainRead
  <1>9. CASE SingleStore(l)
    <2>1. /\ lookup' = [lookup EXCEPT ![l] = Settle(k, Own)] /\ UNCHANGED answered
          /\ SaveIfImportant(t, Own)
      BY <1>9 DEF SingleStore
    <2>2. tokenTable' \in [Tokens -> Details \cup {None}] /\ CacheHoldsTruth'
      BY <2>1, SaveKeeps
    <2>3. QED
      BY <1>2, <2>1, <2>2, SettleKeeps
  <1>10. QED
    BY <1>6, <1>7, <1>8, <1>9

LEMMA DoneKeeps ==
    ASSUME LookupInv, NEW l \in Lookups,
           CacheDone(l) \/ StoreDone(l) \/ SingleDone(l) \/ AllDone(l)
    PROVE  LookupInv'
  <1>1. Good(l, lookup[l], answered[l])
    BY DEF LookupInv
  <1>2. CASE CacheDone(l)
    <2>1. /\ lookup[l].pc = "cache" /\ lookup[l].todo = <<>>
          /\ Move(l, [lookup[l] EXCEPT !.pc = "batch"])
      BY <1>2 DEF CacheDone
    <2>2. lookup[l].chunk = <<>> /\ lookup[l].pending = <<>>
      BY <1>1, <2>1 DEF Good, Phase
    <2>3. QED
      BY <2>1, <2>2, TurnKeeps
  <1>3. CASE StoreDone(l)
    <2>1. /\ lookup[l].pc = "store" /\ lookup[l].chunk = <<>>
          /\ Move(l, [lookup[l] EXCEPT !.pc = "single"])
      BY <1>3 DEF StoreDone
    <2>2. lookup[l].todo = <<>>
      BY <1>1, <2>1 DEF Good, Phase
    <2>3. QED
      BY <2>1, <2>2, TurnKeeps
  <1>4. CASE SingleDone(l)
    <2>1. /\ lookup[l].pc = "single" /\ lookup[l].pending = <<>>
          /\ Move(l, [lookup[l] EXCEPT !.pc = "batch"])
      BY <1>4 DEF SingleDone
    <2>2. lookup[l].todo = <<>> /\ lookup[l].chunk = <<>>
      BY <1>1, <2>1 DEF Good, Phase
    <2>3. QED
      BY <2>1, <2>2, TurnKeeps
  <1>5. CASE AllDone(l)
    <2>1. /\ lookup[l].pc = "batch" /\ lookup[l].uncached = <<>>
          /\ Move(l, [lookup[l] EXCEPT !.pc = "done"])
      BY <1>5 DEF AllDone
    <2>2. lookup[l].todo = <<>> /\ lookup[l].chunk = <<>> /\ lookup[l].pending = <<>>
      BY <1>1, <2>1 DEF Good, Phase
    <2>3. QED
      BY <2>1, <2>2, TurnKeeps
  <1>6. QED
    BY <1>2, <1>3, <1>4, <1>5

-----------------------------------------------------------------------------

LEMMA LookupBegins == MetadataInit => LookupInv
  <1> SUFFICES ASSUME MetadataInit PROVE LookupInv
    OBVIOUS
  <1>1. /\ Off \in States /\ Off.pc = "off" /\ Off.seen = {} /\ Off.uncached = <<>>
        /\ Off.chunk = <<>> /\ Off.pending = <<>> /\ Off.todo = <<>>
        /\ Off.details = [t \in Tokens |-> None]
    BY EmptySeq DEF Off, States
  <1>2. MetadataTypeOK
    BY <1>1 DEF MetadataInit, MetadataTypeOK
  <1>3. CacheHoldsTruth
    BY DEF MetadataInit, CacheHoldsTruth
  <1>4. ASSUME NEW l \in Lookups PROVE Good(l, Off, {})
    <2>1. Apart(Off)
      BY <1>1, EmptyList DEF Apart
    <2>2. Phase(l, Off) /\ Entries(Off, {})
      BY <1>1 DEF Phase, Entries
    <2>3. QED
      BY <2>1, <2>2 DEF Good
  <1>5. QED
    BY <1>2, <1>3, <1>4 DEF MetadataInit, LookupInv

LEMMA LookupKept == LookupInv /\ [MetadataNext]_metadataVars => LookupInv'
  <1> SUFFICES ASSUME LookupInv, [MetadataNext]_metadataVars PROVE LookupInv'
    OBVIOUS
  <1>1. CASE UNCHANGED metadataVars
    BY <1>1 DEF metadataVars, LookupInv, MetadataTypeOK, CacheHoldsTruth
  <1>2. ASSUME NEW l \in Lookups, Begin(l) \/ LookupStep(l) PROVE LookupInv'
    BY <1>2, BeginKeeps, SkipKeeps, CacheKeeps, BatchFailsKeeps, BatchArrivesKeeps,
       StoreKeeps, PostponeKeeps, SingleKeeps, DoneKeeps DEF LookupStep
  <1>3. QED
    BY <1>1, <1>2 DEF MetadataNext

LEMMA LookupInvariant == MetadataSpec => []LookupInv
  BY LookupBegins, LookupKept, PTL DEF MetadataSpec

(***************************************************************************)
(* Whatever look ups share the table and however they fail, it holds what  *)
(* the contracts say, and only for the tokens meant to be kept.            *)
(***************************************************************************)
THEOREM TableTrue == MetadataSpec => []CacheHoldsTruth
  <1>1. LookupInv => CacheHoldsTruth
    BY DEF LookupInv
  <1>2. QED
    BY <1>1, LookupInvariant, PTL

(***************************************************************************)
(* A look up returns a whole entry for each token of its logs, and nothing *)
(* else, for any length of batch.                                          *)
(***************************************************************************)
THEOREM EntriesWhole == MetadataSpec => []EntryForEach
  <1>1. LookupInv => EntryForEach
    <2> SUFFICES ASSUME LookupInv, NEW l \in Lookups, lookup[l].pc = "done", NEW t \in Tokens
                 PROVE  lookup[l].details[t] \in IF Contains(LogsOf[l], t)
                                                 THEN {Own, Default} ELSE {None}
      BY DEF EntryForEach
    <2>1. Good(l, lookup[l], answered[l])
      BY DEF LookupInv
    <2>2. Waiting(lookup[l]) = {} /\ lookup[l].seen = Range(LogsOf[l])
      BY <2>1, EmptyList DEF Good, Phase, Waiting
    <2>3. Contains(LogsOf[l], t) <=> t \in Range(LogsOf[l])
      <3>1. DOMAIN LogsOf[l] = 1 .. Len(LogsOf[l])
        <4>1. LogsOf[l] \in Seq(Tokens)
          BY MetadataAssumption
        <4>2. QED
          BY <4>1
      <3>2. QED
        BY <3>1 DEF Contains, Range
    <2>4. QED
      BY <2>1, <2>2, <2>3 DEF Good, Entries
  <1>2. QED
    BY <1>1, LookupInvariant, PTL

(***************************************************************************)
(* What a batch brought for a token is what the look up returns for it,    *)
(* whatever happens to the rest of the batch, to later ones and to the     *)
(* table.                                                                  *)
(***************************************************************************)
THEOREM AnswersKept == MetadataSpec => []NeighboursUnharmed
  <1>1. LookupInv => NeighboursUnharmed
    BY DEF LookupInv, NeighboursUnharmed, Good, Entries
  <1>2. QED
    BY <1>1, LookupInvariant, PTL

-----------------------------------------------------------------------------
(***************************************************************************)
(* The powers of ten, and how far cutting an integer to another scale goes.*)
(***************************************************************************)
LEMMA PowerTen ==
    /\ Pow10 \in [Nat -> Nat \ {0}]
    /\ Pow10[0] = 1
    /\ \A n \in Nat : Pow10[n + 1] = 10 * Pow10[n]
  <1> DEFINE D == Nat \ {0}
             step == [d \in D |-> 10 * d]
             Right(f) == f = [n \in Nat |-> IF n = 0 THEN 1 ELSE 10 * f[n - 1]]
  <1>1. 1 \in D /\ \A d \in D : step[d] \in D
    OBVIOUS
  <1>2. \E f \in [Nat -> D] : Iteration(f, 1, step)
    <2> HIDE DEF D, step
    <2>1. QED
      BY <1>1, RecursionOverNat
  <1>3. PICK f \in [Nat -> D] : Iteration(f, 1, step)
    BY <1>2
  <1>4. Right(f)
    <2>1. ASSUME NEW n \in Nat PROVE f[n] = IF n = 0 THEN 1 ELSE 10 * f[n - 1]
      <3>1. CASE n = 0
        BY <1>3, <3>1 DEF Iteration
      <3>2. CASE n # 0
        <4>1. n - 1 \in Nat /\ (n - 1) + 1 = n
          BY <3>2
        <4>2. f[n] = step[f[n - 1]] /\ f[n - 1] \in D
          BY <1>3, <4>1 DEF Iteration
        <4>3. QED
          BY <3>2, <4>2
      <3>3. QED
        BY <3>1, <3>2
    <2>2. f = [n \in Nat |-> f[n]]
      OBVIOUS
    <2>3. QED
      BY <2>1, <2>2
  <1>5. Right(Pow10)
    <2> HIDE DEF Right
    <2>1. Right(CHOOSE g : Right(g))
      BY <1>4
    <2>2. QED
      BY <2>1 DEF Right, Pow10
  <1>6. \A n \in Nat : Pow10[n] = IF n = 0 THEN 1 ELSE 10 * Pow10[n - 1]
    <2> DEFINE P == Pow10
    <2>1. P = [n \in Nat |-> IF n = 0 THEN 1 ELSE 10 * P[n - 1]]
      BY <1>5
    <2> HIDE DEF P
    <2>2. \A n \in Nat : P[n] = IF n = 0 THEN 1 ELSE 10 * P[n - 1]
      BY <2>1
    <2>3. QED
      BY <2>2 DEF P
  <1>7. ASSUME NEW n \in Nat PROVE Pow10[n + 1] = 10 * Pow10[n]
    <2>1. n + 1 \in Nat /\ n + 1 # 0 /\ (n + 1) - 1 = n
      OBVIOUS
    <2>2. QED
      BY <1>6, <2>1
  <1>8. Pow10[0] = 1
    BY <1>6
  <1>9. Pow10 \in [Nat -> D]
    <2> DEFINE Reached == {n \in Nat : Pow10[n] \in D}
    <2>1. 0 \in Reached
      BY <1>8
    <2>2. ASSUME NEW n \in Nat, n \in Reached PROVE n + 1 \in Reached
      BY <1>7, <2>2
    <2> HIDE DEF Reached
    <2>3. Nat \subseteq Reached
      BY <2>1, <2>2, InductiveSet
    <2>4. \A n \in Nat : Pow10[n] \in D
      BY <2>3 DEF Reached
    <2>5. Pow10 = [n \in Nat |-> Pow10[n]]
      BY <1>5
    <2>6. QED
      BY <2>4, <2>5
  <1>10. QED
    BY <1>7, <1>8, <1>9

LEMMA PowerSum ==
    ASSUME NEW a \in Nat, NEW b \in Nat
    PROVE  Pow10[a + b] = Pow10[a] * Pow10[b]
  <1> DEFINE Reached == {n \in Nat : Pow10[a + n] = Pow10[a] * Pow10[n]}
  <1>1. 0 \in Reached
    BY PowerTen
  <1>2. ASSUME NEW n \in Nat, n \in Reached PROVE n + 1 \in Reached
    <2>1. Pow10[a + (n + 1)] = 10 * Pow10[a + n]
      <3>1. a + (n + 1) = (a + n) + 1 /\ a + n \in Nat
        OBVIOUS
      <3>2. QED
        BY <3>1, PowerTen
    <2>2. Pow10[a + n] = Pow10[a] * Pow10[n]
      BY <1>2
    <2>3. Pow10[n + 1] = 10 * Pow10[n] /\ Pow10[a] \in Nat /\ Pow10[n] \in Nat
      BY PowerTen
    <2>4. Pow10[a] * Pow10[n + 1] = 10 * (Pow10[a] * Pow10[n])
      BY <2>3
    <2>5. QED
      BY <2>1, <2>2, <2>4
  <1> HIDE DEF Reached
  <1>3. Nat \subseteq Reached
    BY <1>1, <1>2, InductiveSet
  <1>4. QED
    BY <1>3 DEF Reached

LEMMA DivMod ==
    ASSUME NEW n \in Nat, NEW d \in Nat \ {0}
    PROVE  /\ n \div d \in Nat /\ n % d \in Nat
           /\ n = (n \div d) * d + (n % d)
           /\ n % d < d
  OBVIOUS

LEMMA DivBounds ==
    ASSUME NEW n \in Nat, NEW d \in Nat \ {0}
    PROVE  /\ n \div d \in Nat
           /\ (n \div d) * d <= n
           /\ n < (n \div d + 1) * d
  BY DivMod

LEMMA TimesAtMost ==
    ASSUME NEW a \in Nat, NEW b \in Nat, NEW c \in Nat \ {0}
    PROVE  /\ a <= b => a * c <= b * c
           /\ a < b => a * c < b * c
  <1>1. ASSUME a < b PROVE a * c < b * c
    <2>1. PICK k \in Nat \ {0} : b = a + k
      <3>1. b = a + (b - a) /\ b - a \in Nat \ {0}
        BY <1>1
      <3>2. QED
        BY <3>1
    <2>2. b * c = a * c + k * c
      BY <2>1
    <2>3. k * c \in Nat \ {0} /\ a * c \in Nat
      OBVIOUS
    <2>4. QED
      BY <2>2, <2>3
  <1>2. a <= b => a = b \/ a < b
    OBVIOUS
  <1>3. a * c \in Nat /\ b * c \in Nat
    OBVIOUS
  <1>4. QED
    BY <1>1, <1>2, <1>3

(***************************************************************************)
(* An integer moved to another scale is cut: what it says at the new scale *)
(* is at most what it said, and short of it by less than one unit.         *)
(***************************************************************************)
LEMMA RescaleCuts ==
    ASSUME NEW n \in Nat, NEW from \in Nat, NEW to \in Nat
    PROVE  /\ Rescale(n, from, to) \in Nat
           /\ Rescale(n, from, to) * Pow10[from] <= n * Pow10[to]
           /\ n * Pow10[to] < (Rescale(n, from, to) + 1) * Pow10[from]
  <1> DEFINE F == Pow10[from]
             T == Pow10[to]
             v == Rescale(n, from, to)
  <1>1. F \in Nat \ {0} /\ T \in Nat \ {0}
    BY PowerTen
  <1>2. CASE from <= to
    <2> DEFINE P == Pow10[to - from]
    <2>1. to - from \in Nat /\ (to - from) + from = to
      BY <1>2
    <2>2. P \in Nat \ {0} /\ T = P * F
      BY <2>1, PowerTen, PowerSum
    <2>3. v = n * P
      BY <1>2 DEF Rescale
    <2> HIDE DEF P, F, T, v
    <2>4. v \in Nat /\ v * F = n * T
      BY <1>1, <2>2, <2>3
    <2>5. (v + 1) * F = v * F + F /\ v * F \in Nat
      BY <1>1, <2>4
    <2>6. v * F <= n * T /\ n * T < (v + 1) * F
      BY <1>1, <2>4, <2>5
    <2>7. QED
      BY <2>4, <2>6 DEF v, F, T
  <1>3. CASE ~ (from <= to)
    <2> DEFINE P == Pow10[from - to]
    <2>1. from - to \in Nat /\ (from - to) + to = from
      BY <1>3
    <2>2. P \in Nat \ {0} /\ F = P * T
      BY <2>1, PowerTen, PowerSum
    <2>3. v = n \div P
      BY <1>3 DEF Rescale
    <2> HIDE DEF P, F, T, v
    <2>4. v \in Nat /\ v * P <= n /\ n < (v + 1) * P
      BY <2>2, <2>3, DivBounds
    <2>5. /\ v * P \in Nat /\ (v + 1) * P \in Nat
          /\ (v * P) * T = v * F /\ ((v + 1) * P) * T = (v + 1) * F
      BY <1>1, <2>2, <2>4
    <2>6. v * F <= n * T /\ n * T < (v + 1) * F
      BY <1>1, <2>4, <2>5, TimesAtMost
    <2>7. QED
      BY <2>4, <2>6 DEF v, F, T
  <1>4. QED
    BY <1>2, <1>3

LEMMA RescaleSame ==
    ASSUME NEW n \in Nat, NEW scale \in Nat
    PROVE  Rescale(n, scale, scale) = n
  BY PowerTen DEF Rescale

(***************************************************************************)
(* An amount shown with so many digits is the integer cut to that scale,   *)
(* whichever way the number of digits goes.                                *)
(***************************************************************************)
LEMMA ShownCuts ==
    ASSUME NEW raw \in Nat, NEW decimals \in Nat, NEW digits \in Nat,
           NEW amount, amount = ParseDecimal(FormatDecimal(raw, decimals, digits), digits)
    PROVE  /\ amount \in Nat
           /\ amount * Pow10[decimals] <= raw * Pow10[digits]
           /\ raw * Pow10[digits] < (amount + 1) * Pow10[decimals]
  <1> DEFINE P == Pow10[decimals]
             D == Pow10[digits]
             w == raw \div P
             f == raw % P
             v == Rescale(f, decimals, digits)
  <1>1. P \in Nat \ {0} /\ D \in Nat \ {0}
    BY PowerTen
  <1>2. w \in Nat /\ f \in Nat /\ raw = w * P + f
    <2> HIDE DEF P
    <2>1. QED
      BY <1>1, DivMod
  <1>3. v \in Nat /\ v * P <= f * D /\ f * D < (v + 1) * P
    <2> HIDE DEF f
    <2>1. QED
      BY <1>2, RescaleCuts
  <1>4. amount = w * D + v
    <2>1. Rescale(v, digits, digits) = v
      <3> HIDE DEF v
      <3>1. QED
        BY <1>3, RescaleSame
    <2> DEFINE text == FormatDecimal(raw, decimals, digits)
    <2>2. ~ (raw < 0) /\ (IF raw < 0 THEN - raw ELSE raw) = raw
      OBVIOUS
    <2>3. ~ text.negative /\ text.whole = w /\ text.fraction = v /\ text.digits = digits
      <3> HIDE DEF v, w
      <3>1. QED
        BY <2>2 DEF FormatDecimal, v, w, f
    <2>4. amount = w * D + Rescale(v, digits, digits)
      <3> HIDE DEF w, v, text
      <3>1. QED
        BY <2>3 DEF ParseDecimal, text
    <2>5. QED
      BY <2>1, <2>4
  <1> HIDE DEF P, D, w, f, v
  <1>5. /\ amount * P = (w * P) * D + v * P
        /\ raw * D = (w * P) * D + f * D
        /\ (amount + 1) * P = (w * P) * D + (v + 1) * P
    BY <1>1, <1>2, <1>3, <1>4
  <1>6. /\ (w * P) * D \in Nat /\ v * P \in Nat /\ f * D \in Nat /\ (v + 1) * P \in Nat
        /\ amount \in Nat
    BY <1>1, <1>2, <1>3, <1>4
  <1>7. amount * P <= raw * D /\ raw * D < (amount + 1) * P
    BY <1>3, <1>5, <1>6
  <1>8. QED
    BY <1>6, <1>7 DEF P, D

(***************************************************************************)
(* What ColumnNumericTransformer writes to a DECIMAL column, it reads      *)
(* back: of either sign.                                                   *)
(***************************************************************************)
LEMMA ColumnKeeps ==
    ASSUME NEW n \in Nat, NEW scale \in Nat
    PROVE  /\ ColumnFrom(ColumnTo(n, scale), scale) = n
           /\ ColumnFrom(ColumnTo(- n, scale), scale) = - n
  <1> DEFINE P == Pow10[scale]
             w == n \div P
             f == n % P
  <1>1. P \in Nat \ {0}
    BY PowerTen
  <1>2. w \in Nat /\ f \in Nat /\ n = w * P + f
    <2> HIDE DEF P
    <2>1. QED
      BY <1>1, DivMod
  <1>3. Rescale(f, scale, scale) = f
    <2> HIDE DEF f
    <2>1. QED
      BY <1>2, RescaleSame
  <1>4. ASSUME NEW text, text.whole = w, text.fraction = f, text.digits = scale
        PROVE  ParseDecimal(text, scale) = IF text.negative THEN - n ELSE n
    <2> HIDE DEF P, w, f
    <2>1. QED
      BY <1>2, <1>3, <1>4 DEF ParseDecimal, P
  <1>5. ASSUME NEW m \in {n, - n}
        PROVE  /\ FormatDecimal(m, scale, scale).whole = w
               /\ FormatDecimal(m, scale, scale).fraction = f
               /\ FormatDecimal(m, scale, scale).digits = scale
               /\ FormatDecimal(m, scale, scale).negative <=> m < 0
    <2>1. (IF m < 0 THEN - m ELSE m) = n
      OBVIOUS
    <2> HIDE DEF w, f
    <2>2. QED
      BY <1>3, <2>1 DEF FormatDecimal, w, f, P
  <1> HIDE DEF w, f
  <1>6. ASSUME NEW m \in {n, - n} PROVE ColumnFrom(ColumnTo(m, scale), scale) = m
    <2>1. ParseDecimal(FormatDecimal(m, scale, scale), scale) = IF m < 0 THEN - n ELSE n
      BY <1>4, <1>5
    <2>2. (IF m < 0 THEN - n ELSE n) = m
      OBVIOUS
    <2>3. QED
      BY <2>1, <2>2 DEF ColumnFrom, ColumnTo
  <1>7. QED
    BY <1>6

-----------------------------------------------------------------------------
(***************************************************************************)
(* What one transfer adds to the sum of a token.                           *)
(***************************************************************************)
Part(tx, token) == IF tx.token = token THEN tx.raw ELSE 0

(***************************************************************************)
(* RawOf adds up from the first transfer to the last.                      *)
(***************************************************************************)
LEMMA RawSteps ==
    ASSUME NEW txs \in Seq(TransferTransactions), NEW token
    PROVE  \E sums \in [0 .. Len(txs) -> Nat] :
              /\ sums[0] = 0
              /\ \A i \in 1 .. Len(txs) : sums[i] = sums[i - 1] + Part(txs[i], token)
              /\ RawOf(txs, token) = sums[Len(txs)]
  <1> DEFINE n == Len(txs)
             places == 1 .. n
             op(sum, tx) == IF tx.token = token THEN sum + tx.raw ELSE sum
             step == [i \in places |-> [d \in Nat |-> op(d, txs[i])]]
             Right(f) == f = [T \in SUBSET places |->
                                IF T = {} THEN 0 ELSE op(f[T \ {Max(T)}], txs[Max(T)])]
             g == CHOOSE f : Right(f)
             sums == [i \in 0 .. n |-> g[1 .. i]]
  <1>0. n \in Nat /\ DOMAIN txs = places
    OBVIOUS
  <1>1. ASSUME NEW i \in places, NEW d \in Nat
        PROVE  op(d, txs[i]) \in Nat /\ op(d, txs[i]) = d + Part(txs[i], token)
    <2>1. txs[i] \in TransferTransactions
      BY <1>0
    <2>2. QED
      BY <2>1 DEF TransferTransactions, Part
  <1>2. \E f \in [SUBSET places -> Nat] : Right(f)
    <2>1. \A i \in places : \A d \in Nat : step[i][d] \in Nat
      BY <1>1
    <2>2. PICK f \in [SUBSET places -> Nat] : Folding(f, n, 0, step)
      <3> HIDE DEF step
      <3>1. QED
        BY <1>0, <2>1, RecursionOverPlaces
    <2>3. ASSUME NEW T \in SUBSET places, T # {}
          PROVE  f[T] = op(f[T \ {Max(T)}], txs[Max(T)])
      <3>1. Max(T) \in T /\ T \ {Max(T)} \in SUBSET places
        BY <1>0, <2>3, LastPlace
      <3>2. f[T \ {Max(T)}] \in Nat /\ Max(T) \in places
        BY <3>1
      <3> HIDE DEF op
      <3>3. step[Max(T)][f[T \ {Max(T)}]] = op(f[T \ {Max(T)}], txs[Max(T)])
        BY <3>2
      <3>4. QED
        BY <2>2, <2>3, <3>3 DEF Folding
    <2>4. f = [T \in SUBSET places |-> f[T]]
      OBVIOUS
    <2>5. Right(f)
      <3> HIDE DEF op
      <3>1. QED
        BY <2>2, <2>3, <2>4 DEF Folding
    <2>6. QED
      BY <2>5
  <1>3. Right(g)
    <2> HIDE DEF Right
    <2>1. QED
      BY <1>2
  <1>4. RawOf(txs, token) = g[places]
    BY <1>0 DEF RawOf, FoldLeft, MapThenFoldSet
  <1> HIDE DEF g
  <1>5. g[{}] = 0
    BY <1>3
  <1>6. ASSUME NEW i \in 0 .. n - 1 PROVE g[1 .. i + 1] = op(g[1 .. i], txs[i + 1])
    <2>1. i + 1 \in Nat \ {0} /\ 1 .. i + 1 \in SUBSET places /\ i + 1 \in 1 .. i + 1
      BY <1>0
    <2>2. Max(1 .. i + 1) = i + 1 /\ (1 .. i + 1) \ {i + 1} = 1 .. i
      <3>1. (i + 1) - 1 = i
        BY <1>0
      <3>2. QED
        BY <2>1, <3>1, LastOfPrefix
    <2> HIDE DEF op
    <2>3. QED
      BY <1>3, <2>1, <2>2
  <1>7. \A i \in 0 .. n : g[1 .. i] \in Nat
    <2> DEFINE Reached == {i \in 0 .. n : g[1 .. i] \in Nat}
    <2>1. 0 \in Reached
      <3>1. 1 .. 0 = {} /\ 0 \in 0 .. n
        BY <1>0
      <3>2. QED
        BY <1>5, <3>1
    <2>2. \A i \in 0 .. n - 1 : i \in Reached => i + 1 \in Reached
      <3> HIDE DEF op
      <3>1. ASSUME NEW i \in 0 .. n - 1, i \in Reached PROVE i + 1 \in Reached
        <4>1. i + 1 \in places /\ i + 1 \in 0 .. n
          BY <1>0
        <4>2. QED
          BY <1>1, <1>6, <3>1, <4>1
      <3>2. QED
        BY <3>1
    <2> HIDE DEF Reached
    <2>3. 0 .. n \subseteq Reached
      BY <1>0, <2>1, <2>2, InductiveInterval
    <2>4. QED
      BY <2>3 DEF Reached
  <1>8. sums[0] = 0
    <2>1. 1 .. 0 = {} /\ 0 \in 0 .. n
      BY <1>0
    <2>2. QED
      BY <1>5, <2>1
  <1>9. ASSUME NEW i \in places PROVE sums[i] = sums[i - 1] + Part(txs[i], token)
    <2>1. i - 1 \in 0 .. n - 1 /\ i - 1 \in 0 .. n /\ (i - 1) + 1 = i /\ i \in 0 .. n
      BY <1>0
    <2> HIDE DEF op
    <2>2. g[1 .. i] = op(g[1 .. i - 1], txs[i]) /\ g[1 .. i - 1] \in Nat
      BY <1>6, <1>7, <2>1
    <2>3. QED
      BY <1>1, <2>1, <2>2
  <1>10. sums \in [0 .. n -> Nat] /\ sums[n] = g[places]
    BY <1>0, <1>7
  <1> HIDE DEF sums
  <1>11. QED
    BY <1>4, <1>8, <1>9, <1>10

(***************************************************************************)
(* A row as the decoding makes it: the decimals are its token's, the       *)
(* amount shown is that of its raw amount, and the direction is that of    *)
(* its parties.                                                            *)
(***************************************************************************)
Shown(raw, decimals) ==
    ParseDecimal(FormatDecimal(raw, decimals, DisplayDigits), DisplayDigits)

DirectionOf(tx) == IF tx.token = NativeToken THEN "OUT" ELSE Status(tx)

True(tx, decimals) == /\ tx.decimals = decimals[tx.token]
                      /\ tx.amount = Shown(tx.raw, tx.decimals)
                      /\ tx.status = DirectionOf(tx)

Tables(decimals) ==
    {rows \in Seq(TransferTransactions) : \A i \in DOMAIN rows : True(rows[i], decimals)}

(***************************************************************************)
(* Rows of one key have one token and one direction.                       *)
(***************************************************************************)
LEMMA KeyTells ==
    ASSUME NEW decimals, NEW row \in TransferTransactions, NEW tx \in TransferTransactions,
           True(row, decimals), True(tx, decimals), Key(row) = Key(tx)
    PROVE  row.token = tx.token /\ row.from = tx.from /\ row.status = tx.status
           /\ row.decimals = tx.decimals
  <1>1. row.token = tx.token /\ row.from = tx.from
    BY DEF Key
  <1>2. (IF row.status = "NONE" THEN row.status ELSE row.to)
           = (IF tx.status = "NONE" THEN tx.status ELSE tx.to)
    BY DEF Key
  <1>3. row.to # "NONE" /\ tx.to # "NONE"
    BY DecodingAssumption DEF TransferTransactions
  <1>4. row.status = tx.status
    BY <1>1, <1>2, <1>3 DEF True, DirectionOf, Status
  <1>5. QED
    BY <1>1, <1>4 DEF True

LEMMA AddedPlainly ==
    ASSUME NEW decimals, NEW row \in TransferTransactions, NEW tx \in TransferTransactions,
           True(row, decimals), True(tx, decimals), Key(row) = Key(tx)
    PROVE  /\ Added(row, tx) \in TransferTransactions
           /\ True(Added(row, tx), decimals)
           /\ Key(Added(row, tx)) = Key(tx)
           /\ Added(row, tx).token = row.token
           /\ Added(row, tx).raw = row.raw + tx.raw
  <1> DEFINE raw == row.raw + tx.raw
             new == [row EXCEPT !.raw = raw, !.decimals = row.decimals,
                                !.amount = Shown(raw, row.decimals)]
  <1>1. /\ row.raw \in Nat /\ tx.raw \in Nat /\ row.decimals \in Nat /\ raw \in Nat
        /\ row.decimals = tx.decimals
    BY KeyTells DEF TransferTransactions
  <1>2. AddRawAmounts(row.raw, row.decimals, tx.raw, tx.decimals)
           = [raw |-> raw, decimals |-> row.decimals]
    <2>1. row.decimals - tx.decimals = 0 /\ row.decimals >= tx.decimals
      BY <1>1
    <2>2. row.raw * Pow10[0] = row.raw
      BY <1>1, PowerTen
    <2>3. QED
      BY <2>1, <2>2 DEF AddRawAmounts
  <1>3. Added(row, tx) = new
    BY <1>2 DEF Added, Shown
  <1>4. Shown(raw, row.decimals) \in Nat
    BY <1>1, ShownCuts, DecodingAssumption DEF Shown
  <1> HIDE DEF raw
  <1>5. /\ new \in TransferTransactions
        /\ new.token = row.token /\ new.from = row.from /\ new.to = row.to
        /\ new.status = row.status /\ new.decimals = row.decimals
        /\ new.raw = raw /\ new.amount = Shown(raw, row.decimals)
    BY <1>1, <1>4 DEF TransferTransactions
  <1> HIDE DEF new
  <1>6. True(new, decimals)
    BY <1>5 DEF True, DirectionOf, Status
  <1>7. Key(new) = Key(row)
    BY <1>5 DEF Key
  <1>8. QED
    BY <1>3, <1>5, <1>6, <1>7 DEF raw

(***************************************************************************)
(* A transfer becomes a row of its own, or is added to the rows of its key.*)
(***************************************************************************)
LEMMA AggregatedTable ==
    ASSUME NEW decimals, NEW rows \in Tables(decimals),
           NEW tx \in TransferTransactions, True(tx, decimals)
    PROVE  /\ Aggregated(rows, tx) \in Tables(decimals)
           /\ (\E i \in DOMAIN rows : Key(rows[i]) = Key(tx)) =>
                 /\ Len(Aggregated(rows, tx)) = Len(rows)
                 /\ \A i \in DOMAIN rows :
                       Aggregated(rows, tx)[i] = IF Key(rows[i]) = Key(tx)
                                                 THEN Added(rows[i], tx) ELSE rows[i]
           /\ ~ (\E i \in DOMAIN rows : Key(rows[i]) = Key(tx)) =>
                 Aggregated(rows, tx) = Append(rows, tx)
  <1>1. rows \in Seq(TransferTransactions) /\ \A i \in DOMAIN rows : True(rows[i], decimals)
    BY DEF Tables
  <1>2. \A i \in DOMAIN rows : rows[i] \in TransferTransactions
    BY <1>1
  <1>3. CASE \E i \in DOMAIN rows : Key(rows[i]) = Key(tx)
    <2> DEFINE new == [i \in DOMAIN rows |->
                          IF Key(rows[i]) = Key(tx) THEN Added(rows[i], tx) ELSE rows[i]]
    <2>1. Aggregated(rows, tx) = new
      BY <1>3 DEF Aggregated
    <2>2. ASSUME NEW i \in DOMAIN rows
          PROVE  new[i] \in TransferTransactions /\ True(new[i], decimals)
      BY <1>1, <1>2, AddedPlainly
    <2>3. new \in Seq(TransferTransactions) /\ Len(new) = Len(rows) /\ DOMAIN new = DOMAIN rows
      <3>1. DOMAIN rows = 1 .. Len(rows) /\ Len(rows) \in Nat
        BY <1>1
      <3>2. new \in [1 .. Len(rows) -> TransferTransactions]
        BY <2>2, <3>1
      <3> HIDE DEF new
      <3>3. QED
        BY <3>1, <3>2
    <2>4. QED
      BY <1>3, <2>1, <2>2, <2>3 DEF Tables
  <1>4. CASE ~ \E i \in DOMAIN rows : Key(rows[i]) = Key(tx)
    <2>1. Aggregated(rows, tx) = Append(rows, tx)
      BY <1>4 DEF Aggregated
    <2>2. Append(rows, tx) \in Seq(TransferTransactions)
      BY <1>1
    <2>3. ASSUME NEW i \in DOMAIN Append(rows, tx) PROVE True(Append(rows, tx)[i], decimals)
      <3>1. i \in DOMAIN rows \/ i = Len(rows) + 1
        BY <1>1
      <3>2. QED
        BY <1>1, <3>1
    <2>4. QED
      BY <1>4, <2>1, <2>2, <2>3 DEF Tables
  <1>5. QED
    BY <1>3, <1>4

LEMMA AggregatedSteps ==
    ASSUME NEW decimals, NEW all \in Tables(decimals)
    PROVE  \E r \in [0 .. Len(all) -> Tables(decimals)] :
              /\ r[0] = <<>>
              /\ \A i \in 1 .. Len(all) : r[i] = Aggregated(r[i - 1], all[i])
              /\ AllAggregated(all) = r[Len(all)]
  <1> DEFINE n == Len(all)
             places == 1 .. n
             D == Tables(decimals)
             step == [i \in places |-> [d \in D |-> Aggregated(d, all[i])]]
             Right(f) == f = [T \in SUBSET places |->
                                IF T = {} THEN <<>> ELSE Aggregated(f[T \ {Max(T)}], all[Max(T)])]
             g == CHOOSE f : Right(f)
             r == [i \in 0 .. n |-> g[1 .. i]]
  <1>0. /\ n \in Nat /\ DOMAIN all = places /\ <<>> \in D
        /\ \A i \in places : all[i] \in TransferTransactions /\ True(all[i], decimals)
    BY DEF Tables
  <1>1. ASSUME NEW i \in places, NEW d \in D PROVE Aggregated(d, all[i]) \in D
    BY <1>0, AggregatedTable
  <1> HIDE DEF D
  <1>2. \E f \in [SUBSET places -> D] : Right(f)
    <2>1. \A i \in places : \A d \in D : step[i][d] \in D
      BY <1>1
    <2>2. PICK f \in [SUBSET places -> D] : Folding(f, n, <<>>, step)
      <3> HIDE DEF step
      <3>1. QED
        BY <1>0, <2>1, RecursionOverPlaces
    <2>3. ASSUME NEW T \in SUBSET places, T # {}
          PROVE  f[T] = Aggregated(f[T \ {Max(T)}], all[Max(T)])
      <3>1. Max(T) \in T /\ T \ {Max(T)} \in SUBSET places
        BY <1>0, <2>3, LastPlace
      <3>2. f[T \ {Max(T)}] \in D /\ Max(T) \in places
        BY <3>1
      <3>3. step[Max(T)][f[T \ {Max(T)}]] = Aggregated(f[T \ {Max(T)}], all[Max(T)])
        BY <3>2
      <3>4. QED
        BY <2>2, <2>3, <3>3 DEF Folding
    <2>4. f = [T \in SUBSET places |-> f[T]]
      OBVIOUS
    <2>5. Right(f)
      BY <2>2, <2>3, <2>4 DEF Folding
    <2>6. QED
      BY <2>5
  <1>3. Right(g)
    <2> HIDE DEF Right
    <2>1. QED
      BY <1>2
  <1>4. AllAggregated(all) = g[places]
    BY <1>0 DEF AllAggregated, FoldLeft, MapThenFoldSet
  <1> HIDE DEF g
  <1>5. g[{}] = <<>>
    BY <1>3
  <1>6. ASSUME NEW i \in 0 .. n - 1 PROVE g[1 .. i + 1] = Aggregated(g[1 .. i], all[i + 1])
    <2>1. i + 1 \in Nat \ {0} /\ 1 .. i + 1 \in SUBSET places /\ i + 1 \in 1 .. i + 1
      BY <1>0
    <2>2. Max(1 .. i + 1) = i + 1 /\ (1 .. i + 1) \ {i + 1} = 1 .. i
      <3>1. (i + 1) - 1 = i
        BY <1>0
      <3>2. QED
        BY <2>1, <3>1, LastOfPrefix
    <2>3. QED
      BY <1>3, <2>1, <2>2
  <1>7. \A i \in 0 .. n : g[1 .. i] \in D
    <2> DEFINE Reached == {i \in 0 .. n : g[1 .. i] \in D}
    <2>1. 0 \in Reached
      <3>1. 1 .. 0 = {} /\ 0 \in 0 .. n
        BY <1>0
      <3>2. QED
        BY <1>0, <1>5, <3>1
    <2>2. \A i \in 0 .. n - 1 : i \in Reached => i + 1 \in Reached
      <3>1. ASSUME NEW i \in 0 .. n - 1, i \in Reached PROVE i + 1 \in Reached
        <4>1. i + 1 \in places /\ i + 1 \in 0 .. n
          BY <1>0
        <4>2. QED
          BY <1>1, <1>6, <3>1, <4>1
      <3>2. QED
        BY <3>1
    <2> HIDE DEF Reached
    <2>3. 0 .. n \subseteq Reached
      BY <1>0, <2>1, <2>2, InductiveInterval
    <2>4. QED
      BY <2>3 DEF Reached
  <1>8. r[0] = <<>>
    <2>1. 1 .. 0 = {} /\ 0 \in 0 .. n
      BY <1>0
    <2>2. QED
      BY <1>5, <2>1
  <1>9. ASSUME NEW i \in places PROVE r[i] = Aggregated(r[i - 1], all[i])
    <2>1. i - 1 \in 0 .. n - 1 /\ i - 1 \in 0 .. n /\ (i - 1) + 1 = i /\ i \in 0 .. n
      BY <1>0
    <2>2. g[1 .. i] = Aggregated(g[1 .. i - 1], all[i])
      BY <1>6, <2>1
    <2>3. QED
      BY <2>1, <2>2
  <1>10. r \in [0 .. n -> D] /\ r[n] = g[places]
    BY <1>0, <1>7
  <1> HIDE DEF r
  <1>11. QED
    BY <1>4, <1>8, <1>9, <1>10 DEF D

(***************************************************************************)
(* A transfer more, or more in one row: the sum grows by as much.          *)
(***************************************************************************)
LEMMA RawOfAppend ==
    ASSUME NEW txs \in Seq(TransferTransactions), NEW tx \in TransferTransactions, NEW token
    PROVE  RawOf(Append(txs, tx), token) = RawOf(txs, token) + Part(tx, token)
  <1> DEFINE n == Len(txs)
             more == Append(txs, tx)
  <1>1. /\ n \in Nat /\ more \in Seq(TransferTransactions) /\ Len(more) = n + 1
        /\ more[n + 1] = tx /\ \A i \in 1 .. n : more[i] = txs[i]
    OBVIOUS
  <1>2. PICK a \in [0 .. n -> Nat] :
           /\ a[0] = 0 /\ \A i \in 1 .. n : a[i] = a[i - 1] + Part(txs[i], token)
           /\ RawOf(txs, token) = a[n]
    BY RawSteps
  <1> HIDE DEF more
  <1>3. PICK b \in [0 .. n + 1 -> Nat] :
           /\ b[0] = 0 /\ \A i \in 1 .. n + 1 : b[i] = b[i - 1] + Part(more[i], token)
           /\ RawOf(more, token) = b[n + 1]
    <2>1. \E b \in [0 .. Len(more) -> Nat] :
             /\ b[0] = 0 /\ \A i \in 1 .. Len(more) : b[i] = b[i - 1] + Part(more[i], token)
             /\ RawOf(more, token) = b[Len(more)]
      BY <1>1, RawSteps
    <2>2. QED
      BY <1>1, <2>1
  <1> DEFINE Same == {i \in 0 .. n : a[i] = b[i]}
  <1>4. 0 \in Same
    BY <1>1, <1>2, <1>3
  <1>5. ASSUME NEW i \in 0 .. n - 1, i \in Same PROVE i + 1 \in Same
    <2>1. i + 1 \in 1 .. n /\ i + 1 \in 0 .. n /\ (i + 1) - 1 = i /\ i + 1 \in 1 .. n + 1
      BY <1>1
    <2>2. a[i + 1] = a[i] + Part(txs[i + 1], token)
      BY <1>2, <2>1
    <2>3. b[i + 1] = b[i] + Part(more[i + 1], token)
      BY <1>3, <2>1
    <2>4. QED
      BY <1>1, <1>5, <2>1, <2>2, <2>3
  <1> HIDE DEF Same
  <1>6. 0 .. n \subseteq Same
    BY <1>1, <1>4, <1>5, InductiveInterval
  <1>7. a[n] = b[n]
    BY <1>1, <1>6 DEF Same
  <1>8. b[n + 1] = b[n] + Part(tx, token)
    <2>1. n + 1 \in 1 .. n + 1 /\ (n + 1) - 1 = n
      BY <1>1
    <2>2. QED
      BY <1>1, <1>3, <2>1
  <1>9. QED
    BY <1>2, <1>3, <1>7, <1>8 DEF more

LEMMA RawOfChange ==
    ASSUME NEW txs \in Seq(TransferTransactions), NEW new \in Seq(TransferTransactions), NEW token,
           Len(new) = Len(txs), NEW j \in DOMAIN txs, NEW more \in Nat,
           Part(new[j], token) = Part(txs[j], token) + more,
           \A i \in DOMAIN txs : i # j => new[i] = txs[i]
    PROVE  RawOf(new, token) = RawOf(txs, token) + more
  <1> DEFINE n == Len(txs)
  <1>1. n \in Nat /\ DOMAIN txs = 1 .. n /\ j \in 1 .. n /\ Len(new) = n
    OBVIOUS
  <1>2. PICK a \in [0 .. n -> Nat] :
           /\ a[0] = 0 /\ \A i \in 1 .. n : a[i] = a[i - 1] + Part(txs[i], token)
           /\ RawOf(txs, token) = a[n]
    BY RawSteps
  <1>3. PICK b \in [0 .. n -> Nat] :
           /\ b[0] = 0 /\ \A i \in 1 .. n : b[i] = b[i - 1] + Part(new[i], token)
           /\ RawOf(new, token) = b[n]
    <2>1. \E b \in [0 .. Len(new) -> Nat] :
             /\ b[0] = 0 /\ \A i \in 1 .. Len(new) : b[i] = b[i - 1] + Part(new[i], token)
             /\ RawOf(new, token) = b[Len(new)]
      BY RawSteps
    <2>2. QED
      BY <1>1, <2>1
  <1>4. \A i \in 1 .. n : Part(txs[i], token) \in Nat
    <2>1. \A i \in 1 .. n : txs[i] \in TransferTransactions
      OBVIOUS
    <2>2. QED
      BY <2>1 DEF TransferTransactions, Part
  <1> DEFINE Same == {i \in 0 .. n : b[i] = IF i < j THEN a[i] ELSE a[i] + more}
  <1>5. 0 \in Same
    BY <1>1, <1>2, <1>3
  <1>6. ASSUME NEW i \in 0 .. n - 1, i \in Same PROVE i + 1 \in Same
    <2>1. /\ i + 1 \in 1 .. n /\ i + 1 \in 0 .. n /\ (i + 1) - 1 = i
          /\ i \in 0 .. n
      BY <1>1
    <2>2. a[i + 1] = a[i] + Part(txs[i + 1], token)
      BY <1>2, <2>1
    <2>3. b[i + 1] = b[i] + Part(new[i + 1], token)
      BY <1>3, <2>1
    <2>4. a[i] \in Nat /\ b[i] \in Nat /\ Part(txs[i + 1], token) \in Nat
      BY <1>4, <2>1
    <2>5. Part(new[i + 1], token) = IF i + 1 = j THEN Part(txs[i + 1], token) + more
                                                 ELSE Part(txs[i + 1], token)
      BY <1>1, <2>1
    <2>6. b[i] = IF i < j THEN a[i] ELSE a[i] + more
      BY <1>6
    <2>7. b[i + 1] = IF i + 1 < j THEN a[i + 1] ELSE a[i + 1] + more
      <3>1. i \in Nat /\ j \in Nat /\ more \in Nat
        BY <1>1
      <3>2. CASE i + 1 = j
        BY <2>2, <2>3, <2>4, <2>5, <2>6, <3>1, <3>2
      <3>3. CASE i + 1 # j
        BY <2>2, <2>3, <2>4, <2>5, <2>6, <3>1, <3>3
      <3>4. QED
        BY <3>2, <3>3
    <2>8. QED
      BY <2>1, <2>7
  <1> HIDE DEF Same
  <1>7. 0 .. n \subseteq Same
    BY <1>1, <1>5, <1>6, InductiveInterval
  <1>8. b[n] = a[n] + more
    BY <1>1, <1>7 DEF Same
  <1>9. QED
    BY <1>2, <1>3, <1>8

(***************************************************************************)
(* What a row more, or an amount more in the row of its key, leaves as it  *)
(* was: one row per key, the keys gone through, and the sums.              *)
(***************************************************************************)
KeysOf(rows) == {Key(rows[i]) : i \in DOMAIN rows}

OneRowPerKey(rows) == \A i, j \in DOMAIN rows : Key(rows[i]) = Key(rows[j]) => i = j

LEMMA AggregatedKeeps ==
    ASSUME NEW decimals, NEW rows \in Tables(decimals), OneRowPerKey(rows),
           NEW tx \in TransferTransactions, True(tx, decimals)
    PROVE  /\ OneRowPerKey(Aggregated(rows, tx))
           /\ KeysOf(Aggregated(rows, tx)) = KeysOf(rows) \cup {Key(tx)}
           /\ \A token : RawOf(Aggregated(rows, tx), token) = RawOf(rows, token) + Part(tx, token)
  <1> DEFINE new == Aggregated(rows, tx)
  <1>1. /\ rows \in Seq(TransferTransactions) /\ DOMAIN rows = 1 .. Len(rows) /\ Len(rows) \in Nat
        /\ \A i \in DOMAIN rows : rows[i] \in TransferTransactions /\ True(rows[i], decimals)
    BY DEF Tables
  <1>2. new \in Seq(TransferTransactions) /\ DOMAIN new = 1 .. Len(new)
    <2>1. new \in Tables(decimals)
      BY AggregatedTable
    <2> HIDE DEF new
    <2>2. QED
      BY <2>1 DEF Tables
  <1>3. CASE \E i \in DOMAIN rows : Key(rows[i]) = Key(tx)
    <2>1. PICK j \in DOMAIN rows : Key(rows[j]) = Key(tx)
      BY <1>3
    <2>2. \A i \in DOMAIN rows : Key(rows[i]) = Key(tx) => i = j
      BY <2>1 DEF OneRowPerKey
    <2>3. /\ Len(new) = Len(rows) /\ DOMAIN new = DOMAIN rows
          /\ \A i \in DOMAIN rows :
                new[i] = IF Key(rows[i]) = Key(tx) THEN Added(rows[i], tx) ELSE rows[i]
      <3>1. /\ Len(new) = Len(rows)
            /\ \A i \in DOMAIN rows :
                  new[i] = IF Key(rows[i]) = Key(tx) THEN Added(rows[i], tx) ELSE rows[i]
        BY <1>3, AggregatedTable
      <3> HIDE DEF new
      <3>2. QED
        BY <1>1, <1>2, <3>1
    <2> HIDE DEF new
    <2>4. new[j] = Added(rows[j], tx) /\ \A i \in DOMAIN rows : i # j => new[i] = rows[i]
      BY <2>1, <2>2, <2>3
    <2>5. /\ Key(new[j]) = Key(tx) /\ new[j].token = rows[j].token
          /\ new[j].raw = rows[j].raw + tx.raw /\ rows[j].token = tx.token
      BY <1>1, <2>1, <2>4, AddedPlainly, KeyTells
    <2>6. \A i \in DOMAIN rows : Key(new[i]) = Key(rows[i])
      BY <2>1, <2>4, <2>5
    <2>7. OneRowPerKey(new)
      BY <2>3, <2>6 DEF OneRowPerKey
    <2>8. KeysOf(new) = KeysOf(rows) \cup {Key(tx)}
      BY <2>1, <2>3, <2>6 DEF KeysOf
    <2>9. ASSUME NEW token PROVE RawOf(new, token) = RawOf(rows, token) + Part(tx, token)
      <3>1. Part(tx, token) \in Nat /\ rows[j].raw \in Nat /\ tx.raw \in Nat
        BY <1>1, <2>1 DEF TransferTransactions, Part
      <3>2. Part(new[j], token) = Part(rows[j], token) + Part(tx, token)
        BY <2>5, <3>1 DEF Part
      <3>3. QED
        BY <1>1, <1>2, <2>3, <2>4, <3>1, <3>2, RawOfChange
    <2>10. QED
      BY <2>7, <2>8, <2>9 DEF new
  <1>4. CASE ~ \E i \in DOMAIN rows : Key(rows[i]) = Key(tx)
    <2>1. new = Append(rows, tx)
      BY <1>4, AggregatedTable
    <2> HIDE DEF new
    <2>2. /\ DOMAIN new = DOMAIN rows \cup {Len(rows) + 1} /\ Len(rows) + 1 \notin DOMAIN rows
          /\ new[Len(rows) + 1] = tx /\ \A i \in DOMAIN rows : new[i] = rows[i]
      BY <1>1, <2>1
    <2>3. OneRowPerKey(new)
      <3>1. SUFFICES ASSUME NEW i \in DOMAIN new, NEW k \in DOMAIN new, Key(new[i]) = Key(new[k])
                     PROVE  i = k
        BY DEF OneRowPerKey
      <3>2. CASE i \in DOMAIN rows /\ k \in DOMAIN rows
        BY <2>2, <3>1, <3>2 DEF OneRowPerKey
      <3>3. CASE i = Len(rows) + 1 \/ k = Len(rows) + 1
        BY <1>4, <2>2, <3>1, <3>3
      <3>4. QED
        BY <2>2, <3>2, <3>3
    <2>4. KeysOf(new) = KeysOf(rows) \cup {Key(tx)}
      <3>1. \A i \in DOMAIN rows : Key(new[i]) = Key(rows[i])
        BY <2>2
      <3>2. QED
        BY <2>2, <3>1 DEF KeysOf
    <2>5. \A token : RawOf(new, token) = RawOf(rows, token) + Part(tx, token)
      BY <1>1, <2>1, RawOfAppend
    <2>6. QED
      BY <2>3, <2>4, <2>5 DEF new
  <1>5. QED
    BY <1>3, <1>4

-----------------------------------------------------------------------------
(***************************************************************************)
(* What the decoding of a transaction leaves.                              *)
(***************************************************************************)
Decoded(all, rows) ==
    /\ \E decimals : all \in Tables(decimals) /\ rows \in Tables(decimals)
    /\ OneRowPerKey(rows)
    /\ KeysOf(rows) = KeysOf(all)
    /\ \A token : RawOf(rows, token) = RawOf(all, token)

DecodingInv ==
    /\ LookupInv
    /\ transfers \in [Lookups -> Seq(TransferTransactions)]
    /\ summary \in [Lookups -> Seq(TransferTransactions)]
    /\ \A l \in Lookups : Decoded(transfers[l], summary[l])

LEMMA NothingDecoded == Decoded(<<>>, <<>>)
  BY DEF Decoded, Tables, OneRowPerKey, KeysOf

(***************************************************************************)
(* The rows after the first i transfers have the keys and the sums of      *)
(* these.                                                                  *)
(***************************************************************************)
LEMMA AllAdded ==
    ASSUME NEW decimals, NEW all \in Tables(decimals)
    PROVE  Decoded(all, AllAggregated(all))
  <1> DEFINE n == Len(all)
  <1>1. /\ all \in Seq(TransferTransactions) /\ n \in Nat /\ DOMAIN all = 1 .. n
        /\ \A i \in 1 .. n : all[i] \in TransferTransactions /\ True(all[i], decimals)
    BY DEF Tables
  <1>2. PICK r \in [0 .. n -> Tables(decimals)] :
           /\ r[0] = <<>>
           /\ \A i \in 1 .. n : r[i] = Aggregated(r[i - 1], all[i])
           /\ AllAggregated(all) = r[n]
    BY AggregatedSteps
  <1> DEFINE KeysUpTo(i) == {Key(all[k]) : k \in 1 .. i}
             Alike == {i \in 0 .. n : OneRowPerKey(r[i]) /\ KeysOf(r[i]) = KeysUpTo(i)}
  <1>3. 0 \in Alike
    BY <1>1, <1>2 DEF OneRowPerKey, KeysOf
  <1>4. ASSUME NEW i \in 0 .. n - 1
        PROVE  /\ i + 1 \in 0 .. n /\ i \in 0 .. n /\ i + 1 \in 1 .. n
               /\ r[i + 1] = Aggregated(r[i], all[i + 1])
               /\ r[i] \in Tables(decimals)
               /\ all[i + 1] \in TransferTransactions /\ True(all[i + 1], decimals)
    <2>1. i + 1 \in 0 .. n /\ i \in 0 .. n /\ i + 1 \in 1 .. n /\ (i + 1) - 1 = i
      BY <1>1
    <2>2. QED
      BY <1>1, <1>2, <2>1
  <1>5. ASSUME NEW i \in 0 .. n - 1, i \in Alike PROVE i + 1 \in Alike
    <2>1. /\ OneRowPerKey(r[i + 1])
          /\ KeysOf(r[i + 1]) = KeysOf(r[i]) \cup {Key(all[i + 1])}
      BY <1>4, <1>5, AggregatedKeeps
    <2>2. 1 .. i + 1 = (1 .. i) \cup {i + 1}
      BY <1>1
    <2>3. KeysUpTo(i + 1) = KeysUpTo(i) \cup {Key(all[i + 1])}
      BY <2>2
    <2> HIDE DEF KeysUpTo
    <2>4. QED
      BY <1>4, <1>5, <2>1, <2>3
  <1>6. 0 .. n \subseteq Alike
    <2> HIDE DEF Alike
    <2>1. QED
      BY <1>1, <1>3, <1>5, InductiveInterval
  <1>7. n \in 0 .. n /\ KeysUpTo(n) = KeysOf(all)
    BY <1>1 DEF KeysOf
  <1>8. ASSUME NEW token PROVE RawOf(r[n], token) = RawOf(all, token)
    <2>1. PICK sums \in [0 .. n -> Nat] :
             /\ sums[0] = 0
             /\ \A i \in 1 .. n : sums[i] = sums[i - 1] + Part(all[i], token)
             /\ RawOf(all, token) = sums[n]
      BY <1>1, RawSteps
    <2> DEFINE Equal == {i \in 0 .. n : RawOf(r[i], token) = sums[i]}
    <2>2. 0 \in Equal
      <3>1. RawOf(<<>>, token) = 0
        <4>1. <<>> \in Seq(TransferTransactions) /\ Len(<<>>) = 0
          OBVIOUS
        <4>2. QED
          BY <4>1, RawSteps
      <3>2. QED
        BY <1>1, <1>2, <2>1, <3>1
    <2>3. ASSUME NEW i \in 0 .. n - 1, i \in Equal PROVE i + 1 \in Equal
      <3>1. OneRowPerKey(r[i])
        BY <1>4, <1>6
      <3>2. RawOf(r[i + 1], token) = RawOf(r[i], token) + Part(all[i + 1], token)
        BY <1>4, <3>1, AggregatedKeeps
      <3>3. sums[i + 1] = sums[i] + Part(all[i + 1], token)
        <4>1. (i + 1) - 1 = i
          BY <1>1
        <4>2. QED
          BY <1>4, <2>1, <4>1
      <3>4. QED
        BY <1>4, <2>3, <3>2, <3>3
    <2> HIDE DEF Equal
    <2>4. 0 .. n \subseteq Equal
      BY <1>1, <2>2, <2>3, InductiveInterval
    <2>5. QED
      BY <1>7, <2>1, <2>4 DEF Equal
  <1>9. OneRowPerKey(r[n]) /\ KeysOf(r[n]) = KeysOf(all) /\ r[n] \in Tables(decimals)
    BY <1>2, <1>6, <1>7
  <1>10. QED
    BY <1>2, <1>8, <1>9 DEF Decoded

LEMMA TransferTrue ==
    ASSUME NEW token \in Tokens \cup {NativeToken}, NEW parties \in Parties, NEW raw \in Nat,
           NEW decimals, decimals[token] \in Nat,
           NEW status, status = IF token = NativeToken THEN "OUT" ELSE Status(parties)
    PROVE  LET tx == Transfer(token, parties, raw, decimals[token], status)
           IN  tx \in TransferTransactions /\ True(tx, decimals)
  <1> DEFINE tx == Transfer(token, parties, raw, decimals[token], status)
  <1>1. Shown(raw, decimals[token]) \in Nat
    BY ShownCuts, DecodingAssumption DEF Shown
  <1>2. tx = [ token |-> token, from |-> parties.from, to |-> parties.to, status |-> status,
               raw |-> raw, decimals |-> decimals[token], amount |-> Shown(raw, decimals[token]) ]
    BY DEF Transfer, Shown
  <1>3. parties.from \in Accounts /\ parties.to \in Accounts
    BY DEF Parties
  <1>4. status \in {"IN", "OUT", "NONE"}
    BY DEF Status
  <1>5. tx \in TransferTransactions
    BY <1>1, <1>2, <1>3, <1>4 DEF TransferTransactions
  <1> HIDE DEF tx
  <1>6. True(tx, decimals)
    <2>1. Status(tx) = Status(parties)
      BY <1>2 DEF Status
    <2>2. QED
      BY <1>2, <2>1 DEF True, DirectionOf
  <1>7. QED
    BY <1>5, <1>6 DEF tx

(***************************************************************************)
(* The transfers of a transaction: its value, if any, and one per log.     *)
(***************************************************************************)
LEMMA TransfersTrue ==
    ASSUME NEW l \in Lookups, NEW raws \in [DOMAIN LogsOf[l] -> Raws], NEW value \in Raws \cup {0}
    PROVE  \E decimals : NativeTransfer(l, value) \o LogTransfers(l, raws) \in Tables(decimals)
  <1> DEFINE OwnDecimals(t) == lookup[l].details[t].decimals = "own"
             decimals == [t \in Tokens \cup {NativeToken} |->
                            IF t = NativeToken \/ ~ OwnDecimals(t) THEN DefaultDecimals
                                                                   ELSE DecimalsOf[t]]
             native == NativeTransfer(l, value)
             logs == LogTransfers(l, raws)
             n == Len(LogsOf[l])
  <1>1. /\ NativeToken \notin Tokens /\ DefaultDecimals \in Nat /\ DecimalsOf \in [Tokens -> Nat]
        /\ Raws \subseteq Nat /\ NativeOf[l] \in Parties
        /\ LogsOf[l] \in Seq(Tokens) /\ PartiesOf[l] \in [DOMAIN LogsOf[l] -> Parties]
    BY DecodingAssumption, MetadataAssumption
  <1>2. \A t \in Tokens \cup {NativeToken} : decimals[t] \in Nat
    BY <1>1
  <1>3. DOMAIN LogsOf[l] = 1 .. n /\ n \in Nat
    BY <1>1
  <1>4. ASSUME NEW i \in 1 .. n
        PROVE  logs[i] \in TransferTransactions /\ True(logs[i], decimals)
    <2> DEFINE t == LogsOf[l][i]
    <2>1. /\ t \in Tokens /\ t # NativeToken /\ PartiesOf[l][i] \in Parties /\ raws[i] \in Nat
          /\ i \in DOMAIN LogsOf[l]
      BY <1>1, <1>3
    <2>2. decimals[t] = IF OwnDecimals(t) THEN DecimalsOf[t] ELSE DefaultDecimals
      BY <2>1
    <2>3. logs[i] = Transfer(t, PartiesOf[l][i], raws[i],
                             IF OwnDecimals(t) THEN DecimalsOf[t] ELSE DefaultDecimals,
                             Status(PartiesOf[l][i]))
      BY <2>1 DEF LogTransfers
    <2> HIDE DEF decimals, t, OwnDecimals
    <2>4. QED
      BY <1>2, <2>1, <2>2, <2>3, TransferTrue
  <1>5. logs \in Tables(decimals)
    <2>1. DOMAIN logs = 1 .. n
      BY <1>3 DEF LogTransfers
    <2>2. logs = [i \in 1 .. n |-> logs[i]]
      BY <1>3 DEF LogTransfers
    <2> HIDE DEF logs, decimals
    <2>3. logs \in [1 .. n -> TransferTransactions]
      BY <1>4, <2>2
    <2>4. logs \in Seq(TransferTransactions)
      BY <1>3, <2>3
    <2>5. QED
      BY <1>4, <2>1, <2>4 DEF Tables
  <1>6. native \in Tables(decimals)
    <2> DEFINE tx == Transfer(NativeToken, NativeOf[l], value, DefaultDecimals, "OUT")
    <2>1. value \in Nat /\ decimals[NativeToken] = DefaultDecimals
      BY <1>1
    <2> HIDE DEF decimals
    <2>2. tx \in TransferTransactions /\ True(tx, decimals)
      BY <1>1, <1>2, <2>1, TransferTrue
    <2>3. native = <<>> \/ native = <<tx>>
      BY DEF NativeTransfer
    <2> HIDE DEF tx, native
    <2>4. native \in Seq(TransferTransactions) /\ \A i \in DOMAIN native : native[i] = tx
      <3>1. /\ <<tx>> \in Seq(TransferTransactions)
            /\ \A i \in DOMAIN <<tx>> : <<tx>>[i] = tx
        BY <2>2
      <3>2. <<>> \in Seq(TransferTransactions) /\ \A i \in DOMAIN <<>> : <<>>[i] = tx
        OBVIOUS
      <3>3. QED
        BY <2>3, <3>1, <3>2
    <2>5. QED
      BY <2>2, <2>4 DEF Tables
  <1> HIDE DEF native, logs, decimals
  <1>7. native \o logs \in Tables(decimals)
    <2> DEFINE both == native \o logs
    <2>1. /\ native \in Seq(TransferTransactions) /\ logs \in Seq(TransferTransactions)
          /\ \A i \in DOMAIN native : True(native[i], decimals)
          /\ \A i \in DOMAIN logs : True(logs[i], decimals)
      BY <1>5, <1>6 DEF Tables
    <2>2. both \in Seq(TransferTransactions)
      BY <2>1
    <2>3. ASSUME NEW i \in DOMAIN both PROVE True(both[i], decimals)
      <3>1. CASE i \in DOMAIN native
        <4>1. both[i] = native[i]
          BY <2>1, <3>1
        <4>2. QED
          BY <2>1, <3>1, <4>1
      <3>2. CASE i \notin DOMAIN native
        <4>1. i - Len(native) \in DOMAIN logs /\ both[i] = logs[i - Len(native)]
          BY <2>1, <3>2
        <4>2. QED
          BY <2>1, <4>1
      <3>3. QED
        BY <3>1, <3>2
    <2> HIDE DEF both
    <2>4. QED
      BY <2>2, <2>3 DEF Tables, both
  <1>8. QED
    BY <1>7 DEF native, logs

LEMMA DecodeKeeps ==
    ASSUME DecodingInv, NEW l \in Lookups, Decode(l)
    PROVE  DecodingInv'
  <1>1. PICK raws \in [DOMAIN LogsOf[l] -> Raws], value \in Raws \cup {0} :
           LET all == NativeTransfer(l, value) \o LogTransfers(l, raws)
           IN  /\ transfers' = [transfers EXCEPT ![l] = all]
               /\ summary' = [summary EXCEPT ![l] = AllAggregated(all)]
    BY DEF Decode
  <1> DEFINE all == NativeTransfer(l, value) \o LogTransfers(l, raws)
             rows == AllAggregated(all)
  <1>2. transfers' = [transfers EXCEPT ![l] = all] /\ summary' = [summary EXCEPT ![l] = rows]
    BY <1>1
  <1>3. \E decimals : all \in Tables(decimals)
    BY TransfersTrue
  <1> HIDE DEF all
  <1>4. Decoded(all, rows)
    BY <1>3, AllAdded
  <1> HIDE DEF rows
  <1>5. all \in Seq(TransferTransactions) /\ rows \in Seq(TransferTransactions)
    BY <1>4 DEF Decoded, Tables
  <1>6. \A m \in Lookups : Decoded(transfers'[m], summary'[m])
    BY <1>2, <1>4 DEF DecodingInv
  <1>7. LookupInv'
    <2>1. UNCHANGED metadataVars
      BY DEF Decode
    <2>2. QED
      BY <2>1, LookupKept DEF DecodingInv
  <1>8. QED
    BY <1>2, <1>5, <1>6, <1>7 DEF DecodingInv

LEMMA DecodingInvariant == Spec => []DecodingInv
  <1>1. Init => DecodingInv
    BY LookupBegins, NothingDecoded DEF Init, DecodingInv
  <1>2. DecodingInv /\ [Next]_vars => DecodingInv'
    <2> SUFFICES ASSUME DecodingInv, [Next]_vars PROVE DecodingInv'
      OBVIOUS
    <2>1. CASE [MetadataNext]_metadataVars /\ UNCHANGED <<transfers, summary>>
      <3>1. LookupInv'
        BY <2>1, LookupKept DEF DecodingInv
      <3>2. QED
        BY <2>1, <3>1 DEF DecodingInv
    <2>2. CASE \E l \in Lookups : Decode(l)
      BY <2>2, DecodeKeeps
    <2>3. QED
      BY <2>1, <2>2 DEF Next, vars, metadataVars
  <1>3. QED
    BY <1>1, <1>2, PTL DEF Spec

(***************************************************************************)
(* The types of the rows: amounts are never negative, decimals neither.    *)
(***************************************************************************)
THEOREM DecodingTypes == Spec => []TypeOK
  <1>1. DecodingInv => TypeOK
    BY DEF DecodingInv, LookupInv, TypeOK
  <1>2. QED
    BY <1>1, DecodingInvariant, PTL

(***************************************************************************)
(* aggregateTransferTransactions loses and invents nothing, for any list   *)
(* of transfers: one row for each key that occurs, and for each token rows *)
(* that sum to its transfers.                                              *)
(***************************************************************************)
THEOREM NothingLost == Spec => []SumsConserved
  <1>1. ASSUME DecodingInv PROVE SumsConserved
    <2> SUFFICES ASSUME NEW l \in Lookups
                 PROVE  /\ KeysOf(transfers[l]) = KeysOf(summary[l])
                        /\ Cardinality(KeysOf(summary[l])) = Len(summary[l])
                        /\ \A token \in Tokens \cup {NativeToken} :
                              RawOf(summary[l], token) = RawOf(transfers[l], token)
      BY DEF SumsConserved, KeysOf
    <2>1. /\ summary[l] \in Seq(TransferTransactions)
          /\ Decoded(transfers[l], summary[l])
      BY <1>1 DEF DecodingInv
    <2>2. Cardinality(KeysOf(summary[l])) = Len(summary[l])
      <3> DEFINE places == 1 .. Len(summary[l])
                 key == [i \in places |-> Key(summary[l][i])]
      <3>1. Len(summary[l]) \in Nat /\ DOMAIN summary[l] = places
        BY <2>1
      <3>2. IsFiniteSet(places) /\ Cardinality(places) = Len(summary[l])
        BY <3>1, FS_Interval
      <3>3. \A i, j \in places : key[i] = key[j] => i = j
        BY <2>1, <3>1 DEF Decoded, OneRowPerKey
      <3>4. KeysOf(summary[l]) = {key[i] : i \in places}
        BY <3>1 DEF KeysOf
      <3>5. key \in Bijection(places, KeysOf(summary[l]))
        <4> HIDE DEF places
        <4>1. key \in [places -> KeysOf(summary[l])]
          BY <3>1 DEF KeysOf
        <4>2. key \in Injection(places, KeysOf(summary[l]))
          BY <3>3, <4>1 DEF Injection, IsInjective
        <4>3. key \in Surjection(places, KeysOf(summary[l]))
          BY <3>4, <4>1 DEF Surjection
        <4>4. QED
          BY <4>2, <4>3 DEF Bijection
      <3>6. ExistsBijection(places, KeysOf(summary[l]))
        BY <3>5 DEF ExistsBijection
      <3> HIDE DEF places
      <3>7. QED
        BY <3>2, <3>6, FS_Bijection
    <2>3. QED
      BY <2>1, <2>2 DEF Decoded
  <1>2. QED
    BY <1>1, DecodingInvariant, PTL

(***************************************************************************)
(* Transfers of one key have one direction, and so has their row: the IN   *)
(* and OUT of the wallet are never added up in one row.                    *)
(***************************************************************************)
THEOREM DirectionStays == Spec => []DirectionKept
  <1>1. ASSUME DecodingInv PROVE DirectionKept
    <2> SUFFICES ASSUME NEW l \in Lookups, NEW i \in DOMAIN transfers[l]
                 PROVE  \E j \in DOMAIN summary[l] :
                           /\ Key(summary[l][j]) = Key(transfers[l][i])
                           /\ summary[l][j].status = transfers[l][i].status
      BY DEF DirectionKept
    <2>1. Decoded(transfers[l], summary[l])
      BY <1>1 DEF DecodingInv
    <2>2. PICK decimals : transfers[l] \in Tables(decimals) /\ summary[l] \in Tables(decimals)
      BY <2>1 DEF Decoded
    <2>3. PICK j \in DOMAIN summary[l] : Key(summary[l][j]) = Key(transfers[l][i])
      BY <2>1 DEF Decoded, KeysOf
    <2>4. /\ transfers[l][i] \in TransferTransactions /\ True(transfers[l][i], decimals)
          /\ summary[l][j] \in TransferTransactions /\ True(summary[l][j], decimals)
      BY <2>2 DEF Tables
    <2>5. QED
      BY <2>3, <2>4, KeyTells
  <1>2. QED
    BY <1>1, DecodingInvariant, PTL

LEMMA RowsTrue ==
    ASSUME DecodingInv, NEW l \in Lookups, NEW i \in DOMAIN summary[l]
    PROVE  /\ summary[l][i].raw \in Nat /\ summary[l][i].decimals \in Nat
           /\ summary[l][i].amount = Shown(summary[l][i].raw, summary[l][i].decimals)
  <1>1. PICK decimals : summary[l] \in Tables(decimals)
    BY DEF DecodingInv, Decoded
  <1>2. summary[l][i] \in TransferTransactions /\ True(summary[l][i], decimals)
    BY <1>1 DEF Tables
  <1>3. QED
    BY <1>2 DEF TransferTransactions, True

(***************************************************************************)
(* "Reported amounts must never overstate a value": whatever the decimals, *)
(* the amounts and the number of digits, an amount shown is the raw one    *)
(* cut to the digits shown, for a row added up as for a single transfer.   *)
(***************************************************************************)
THEOREM NothingOverstated == Spec => []NeverOverstated
  <1>1. DecodingInv => NeverOverstated
    BY RowsTrue, ShownCuts, DecodingAssumption DEF NeverOverstated, Shown
  <1>2. QED
    BY <1>1, DecodingInvariant, PTL

(***************************************************************************)
(* The amount counted for a row is cut to the scale of the columns, and    *)
(* comes back from a DECIMAL column as it went, with either sign, for any  *)
(* scale.                                                                  *)
(***************************************************************************)
THEOREM ColumnsExact == Spec => []StoredExactly
  <1>1. ASSUME DecodingInv PROVE StoredExactly
    <2> SUFFICES ASSUME NEW l \in Lookups, NEW i \in DOMAIN summary[l]
                 PROVE  LET row    == summary[l][i]
                            scaled == ScaledFromUnits(row.raw, row.decimals, Scale)
                        IN  /\ scaled * Pow10[row.decimals] <= row.raw * Pow10[Scale]
                            /\ row.raw * Pow10[Scale] < (scaled + 1) * Pow10[row.decimals]
                            /\ \A n \in {scaled, - scaled} : ColumnFrom(ColumnTo(n, Scale), Scale) = n
      BY DEF StoredExactly
    <2> DEFINE row == summary[l][i]
               scaled == Rescale(row.raw, row.decimals, Scale)
    <2>1. row.raw \in Nat /\ row.decimals \in Nat /\ Scale \in Nat
      BY <1>1, RowsTrue, DecodingAssumption
    <2> HIDE DEF row
    <2>2. /\ scaled \in Nat
          /\ scaled * Pow10[row.decimals] <= row.raw * Pow10[Scale]
          /\ row.raw * Pow10[Scale] < (scaled + 1) * Pow10[row.decimals]
      BY <2>1, RescaleCuts
    <2> HIDE DEF scaled
    <2>3. \A n \in {scaled, - scaled} : ColumnFrom(ColumnTo(n, Scale), Scale) = n
      BY <2>1, <2>2, ColumnKeeps
    <2>4. QED
      BY <2>2, <2>3 DEF ScaledFromUnits, scaled, row
  <1>2. QED
    BY <1>1, DecodingInvariant, PTL

=============================================================================
