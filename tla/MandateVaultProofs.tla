------------------------- MODULE MandateVaultProofs -------------------------
(* What the vault and its escrow keep for any number of mandates, matches,  *)
(* locks and wallets and any lengths of time: a match is paid at most once  *)
(* and as it was bound, an unclaimed payout can be traced back, and the two *)
(* contracts together implement the payout ledger.  Before it, what the     *)
(* command that fills the vault keeps, however many runs, keys and mandates *)
(* it has: it makes up no shortfall twice.                                  *)
EXTENDS MandateVault, Funding, TotalProofs, SequenceTheorems, TLAPS

-----------------------------------------------------------------------------
(* The command that fills the vault (Funding).                              *)

(* The wallet's deposits that may still land behind m: all of them, and     *)
(* those not made under the key of the run.                                 *)
Sizes == [id \in RequestIds |-> request[id].amount]
Awaited(m) == {id \in RequestIds : id[2] = m /\ id[3] = "deposit" /\
                                   request[id].state = "live"}
Own(m) == <<run.key, m, "deposit">>
Pending(m) == Total(Sizes, Awaited(m))
Earlier(m) == Total(Sizes, Awaited(m) \ {Own(m)})
InHand(m) == run.phase \in Phases \ {"idle", "next"} /\ run.mandate = m
HeardOf(m) == said[m] \notin {"begun", "unknown"}

(* What was deposited behind m, with all that may still land, is no more    *)
(* than was asked and has left.  It stays so because others put behind m at *)
(* least what an earlier key may still land, and so did they for every      *)
(* mandate the operator heard of; and because a run that has not made its   *)
(* deposit read a balance to which nothing of the wallet was added since.   *)
Fit(m) ==
    /\ posted[m] + Pending(m) <= Required[m] + spent[m]
    /\ Earlier(m) <= given[m]
    /\ HeardOf(m) => Pending(m) <= given[m]
    /\ InHand(m) /\ request[Own(m)].state = "none" =>
           posted[m] + Pending(m) <= run.before + spent[m]
    /\ InHand(m) /\ run.phase = "plan" /\ run.before >= Required[m] =>
           Pending(m) <= given[m]

RunFit ==
    /\ run.phase \in Phases \ {"idle", "next", "plan"} => run.amount = Shortfall
    /\ run.phase = "recheck" /\ run.result # "unknown" =>
           request[Id("deposit")].state = run.result

(* Circle's queue holds every live request, once.                           *)
QueueFit ==
    /\ queue \in Seq(RequestIds)
    /\ \A id \in RequestIds : request[id].state = "live" <=> id \in Range(queue)
    /\ \A n, p \in 1..Len(queue) : queue[n] = queue[p] => n = p

FundingTyped == FundingTypeOK /\ QueueFit
FundingInv == /\ FundingTyped /\ RunFit
              /\ \A m \in Bids : Fit(m) \/ ToldNothingMoved(m)

-----------------------------------------------------------------------------
(* Circle's queue.                                                          *)

LEMMA RemoveAtProperties ==
    ASSUME NEW S, NEW s \in Seq(S), NEW p \in 1..Len(s)
    PROVE  /\ RemoveAt(s, p) \in Seq(S)
           /\ Len(RemoveAt(s, p)) = Len(s) - 1
           /\ \A n \in 1..Len(s) - 1 :
                  RemoveAt(s, p)[n] = IF n < p THEN s[n] ELSE s[n + 1]
<1> DEFINE a == SubSeq(s, 1, p - 1)
           b == SubSeq(s, p + 1, Len(s))
<1>1. Len(s) \in Nat /\ \A n \in 1..Len(s) : s[n] \in S
  BY LenProperties, ElementOfSeq
<1>2. /\ a \in Seq(S) /\ Len(a) = p - 1
      /\ \A n \in 1..p - 1 : a[n] = s[n]
  <2>1. \A n \in 1..p - 1 : s[n] \in S
    BY <1>1
  <2>2. /\ a \in Seq(S)
        /\ Len(a) = IF 1 <= p - 1 THEN (p - 1) - 1 + 1 ELSE 0
        /\ \A n \in 1..(p - 1) - 1 + 1 : a[n] = s[1 + n - 1]
    BY <1>1, <2>1, SubSeqProperties
  <2> QED
    BY <1>1, <2>2
<1>3. /\ b \in Seq(S) /\ Len(b) = Len(s) - p
      /\ \A n \in 1..Len(s) - p : b[n] = s[n + p]
  <2>1. \A n \in p + 1..Len(s) : s[n] \in S
    BY <1>1
  <2>2. /\ b \in Seq(S)
        /\ Len(b) = IF p + 1 <= Len(s) THEN Len(s) - (p + 1) + 1 ELSE 0
        /\ \A n \in 1..Len(s) - (p + 1) + 1 : b[n] = s[p + 1 + n - 1]
    BY <1>1, <2>1, SubSeqProperties
  <2> QED
    BY <1>1, <2>2
<1>4. RemoveAt(s, p) = a \o b
  BY DEF RemoveAt
<1> HIDE DEF a, b
<1>5. /\ a \o b \in Seq(S) /\ Len(a \o b) = Len(a) + Len(b)
      /\ \A n \in 1..Len(a) + Len(b) :
             (a \o b)[n] = IF n <= Len(a) THEN a[n] ELSE b[n - Len(a)]
  BY <1>2, <1>3, ConcatProperties
<1>6. Len(a) + Len(b) = Len(s) - 1
  BY <1>1, <1>2, <1>3
<1>7. ASSUME NEW n \in 1..Len(s) - 1
      PROVE  (a \o b)[n] = IF n < p THEN s[n] ELSE s[n + 1]
  <2>1. CASE n < p
    BY <1>1, <1>2, <1>5, <1>6, <2>1
  <2>2. CASE ~(n < p)
    <3>1. n - (p - 1) \in 1..Len(s) - p /\ (n - (p - 1)) + p = n + 1
      BY <1>1, <2>2
    <3>2. (a \o b)[n] = b[n - (p - 1)]
      BY <1>1, <1>2, <1>5, <1>6, <2>2
    <3> QED
      BY <1>3, <2>2, <3>1, <3>2
  <2> QED
    BY <2>1, <2>2
<1> QED
  BY <1>4, <1>5, <1>6, <1>7

LEMMA TailRemoves ==
    ASSUME NEW S, NEW s \in Seq(S), s # <<>>
    PROVE  /\ 1 \in 1..Len(s) /\ Head(s) = s[1] /\ Tail(s) = RemoveAt(s, 1)
<1>1. Len(s) \in Nat \ {0}
  BY EmptySeq
<1>2. RemoveAt(s, 1) = SubSeq(s, 1, 0) \o SubSeq(s, 2, Len(s))
  BY <1>1 DEF RemoveAt
<1>3. SubSeq(s, 1, 0) = <<>>
  BY SubSeqEmpty
<1>4. Tail(s) = SubSeq(s, 2, Len(s)) /\ Tail(s) \in Seq(S)
  BY TailIsSubSeq, HeadTailProperties
<1>5. <<>> \o Tail(s) = Tail(s)
  BY <1>4, ConcatEmptySeq
<1>6. Head(s) = s[1]
  OBVIOUS
<1>7. Tail(s) = RemoveAt(s, 1)
  BY <1>2, <1>3, <1>4, <1>5
<1> QED
  BY <1>1, <1>6, <1>7

(* A request leaves the queue when it is answered.                          *)
LEMMA QueueAnswers ==
    ASSUME FundingTyped, NEW p \in 1..Len(queue), NEW id, id = queue[p],
           NEW state \in {"succeeded", "failed"},
           request' = [request EXCEPT ![id].state = state],
           queue' = RemoveAt(queue, p)
    PROVE  /\ QueueFit' /\ request' \in [RequestIds -> Request]
           /\ id \in RequestIds /\ request[id].state = "live"
           /\ request'[id].state = state /\ request'[id].amount = request[id].amount
           /\ \A other \in RequestIds \ {id} : request'[other] = request[other]
<1>1. /\ queue \in Seq(RequestIds) /\ request \in [RequestIds -> Request]
      /\ Len(queue) \in Nat /\ DOMAIN queue = 1..Len(queue)
      /\ \A n, k \in 1..Len(queue) : queue[n] = queue[k] => n = k
      /\ \A other \in RequestIds : request[other].state = "live" <=> other \in Range(queue)
  BY LenProperties DEF FundingTyped, FundingTypeOK, QueueFit
<1>2. id \in RequestIds /\ id \in Range(queue)
  BY <1>1, ElementOfSeq DEF Range
<1>3. /\ request[id] \in Request /\ request[id].state = "live"
      /\ request'[id] = [request[id] EXCEPT !.state = state]
      /\ \A other \in RequestIds \ {id} : request'[other] = request[other]
  BY <1>1, <1>2
<1>4. /\ request'[id].state = state /\ request'[id].amount = request[id].amount
      /\ request'[id] \in Request
  BY <1>3 DEF Request
<1>5. /\ queue' \in Seq(RequestIds) /\ Len(queue') = Len(queue) - 1
      /\ DOMAIN queue' = 1..Len(queue')
      /\ \A n \in 1..Len(queue') :
             queue'[n] = IF n < p THEN queue[n] ELSE queue[n + 1]
  <2>1. /\ queue' \in Seq(RequestIds) /\ Len(queue') = Len(queue) - 1
        /\ \A n \in 1..Len(queue) - 1 :
               queue'[n] = IF n < p THEN queue[n] ELSE queue[n + 1]
    BY <1>1, RemoveAtProperties
  <2> QED
    BY <2>1, LenProperties
<1>6. \A n, k \in 1..Len(queue') : queue'[n] = queue'[k] => n = k
  <2> SUFFICES ASSUME NEW n \in 1..Len(queue'), NEW k \in 1..Len(queue'),
                      queue'[n] = queue'[k]
               PROVE  n = k
    OBVIOUS
  <2> DEFINE Was(x) == IF x < p THEN x ELSE x + 1
  <2>1. Was(n) \in 1..Len(queue) /\ Was(k) \in 1..Len(queue)
    BY <1>1, <1>5
  <2>2. queue[Was(n)] = queue[Was(k)]
    BY <1>5
  <2>3. Was(n) = Was(k)
    BY <1>1, <2>1, <2>2
  <2> QED
    BY <1>1, <1>5, <2>3
<1>7. ASSUME NEW other \in RequestIds
      PROVE  other \in Range(queue') <=> other \in Range(queue) /\ other # id
  <2>1. ASSUME other \in Range(queue')
        PROVE  other \in Range(queue) /\ other # id
    <3>1. PICK n \in 1..Len(queue') : other = queue'[n]
      BY <1>5, <2>1 DEF Range
    <3> DEFINE k == IF n < p THEN n ELSE n + 1
    <3>2. k \in 1..Len(queue) /\ k # p /\ other = queue[k]
      BY <1>1, <1>5, <3>1
    <3> HIDE DEF k
    <3> QED
      BY <1>1, <3>2 DEF Range
  <2>2. ASSUME other \in Range(queue), other # id
        PROVE  other \in Range(queue')
    <3>1. PICK k \in 1..Len(queue) : other = queue[k]
      BY <1>1, <2>2 DEF Range
    <3>2. k # p
      BY <2>2, <3>1
    <3>3. \E n \in 1..Len(queue') : queue'[n] = queue[k]
      <4>1. CASE k < p
        <5>1. k \in 1..Len(queue') /\ queue'[k] = queue[k]
          BY <1>1, <1>5, <4>1
        <5> QED
          BY <5>1
      <4>2. CASE ~(k < p)
        <5>1. k - 1 \in 1..Len(queue') /\ ~(k - 1 < p) /\ (k - 1) + 1 = k
          BY <1>1, <1>5, <3>2, <4>2
        <5> QED
          BY <1>5, <5>1
      <4> QED
        BY <4>1, <4>2
    <3> QED
      BY <1>5, <3>1, <3>3 DEF Range
  <2> QED
    BY <2>1, <2>2
<1>8. \A other \in RequestIds : request'[other].state = "live" <=> other \in Range(queue')
  BY <1>1, <1>3, <1>4, <1>7
<1>9. request' \in [RequestIds -> Request]
  BY <1>1, <1>2, <1>3, <1>4
<1> QED
  BY <1>2, <1>3, <1>4, <1>5, <1>6, <1>8, <1>9 DEF QueueFit

(* A new request goes to the end of the queue.                              *)
LEMMA QueueTakes ==
    ASSUME FundingTyped, NEW id \in RequestIds, NEW n \in Nat,
           request[id].state = "none",
           request' = [request EXCEPT ![id] = [state |-> "live", amount |-> n]],
           queue' = Append(queue, id)
    PROVE  /\ QueueFit' /\ request' \in [RequestIds -> Request]
           /\ request'[id].state = "live" /\ request'[id].amount = n
           /\ \A other \in RequestIds \ {id} : request'[other] = request[other]
<1>1. /\ queue \in Seq(RequestIds) /\ request \in [RequestIds -> Request]
      /\ Len(queue) \in Nat /\ DOMAIN queue = 1..Len(queue)
      /\ \A p, k \in 1..Len(queue) : queue[p] = queue[k] => p = k
      /\ \A other \in RequestIds : request[other].state = "live" <=> other \in Range(queue)
  BY LenProperties DEF FundingTyped, FundingTypeOK, QueueFit
<1>2. id \notin Range(queue)
  BY <1>1
<1>3. /\ request'[id] = [state |-> "live", amount |-> n]
      /\ \A other \in RequestIds \ {id} : request'[other] = request[other]
  BY <1>1
<1>4. [state |-> "live", amount |-> n] \in Request
  BY DEF Request
<1>5. /\ queue' \in Seq(RequestIds) /\ Len(queue') = Len(queue) + 1
      /\ DOMAIN queue' = 1..Len(queue')
      /\ \A p \in 1..Len(queue) : queue'[p] = queue[p]
      /\ queue'[Len(queue) + 1] = id
  <2>1. queue' \in Seq(RequestIds)
    BY <1>1, AppendProperties
  <2> QED
    BY <1>1, <2>1, AppendProperties, LenProperties
<1>6. \A p, k \in 1..Len(queue') : queue'[p] = queue'[k] => p = k
  <2> SUFFICES ASSUME NEW p \in 1..Len(queue'), NEW k \in 1..Len(queue'),
                      queue'[p] = queue'[k]
               PROVE  p = k
    OBVIOUS
  <2>1. \A x \in 1..Len(queue) : queue'[x] # id
    BY <1>1, <1>2, <1>5 DEF Range
  <2>2. \A x \in 1..Len(queue') : x \in 1..Len(queue) \/ x = Len(queue) + 1
    BY <1>1, <1>5
  <2> QED
    BY <1>1, <1>5, <2>1, <2>2
<1>7. ASSUME NEW other \in RequestIds
      PROVE  other \in Range(queue') <=> other \in Range(queue) \/ other = id
  <2>1. \A x : x \in 1..Len(queue') <=> x \in 1..Len(queue) \/ x = Len(queue) + 1
    BY <1>1, <1>5
  <2> QED
    BY <1>1, <1>5, <2>1 DEF Range
<1>8. \A other \in RequestIds : request'[other].state = "live" <=> other \in Range(queue')
  BY <1>1, <1>3, <1>7
<1>9. request' \in [RequestIds -> Request]
  BY <1>1, <1>3, <1>4
<1> QED
  BY <1>3, <1>5, <1>6, <1>8, <1>9 DEF QueueFit

-----------------------------------------------------------------------------
(* What may still land.                                                     *)

LEMMA PendingTyped ==
    ASSUME FundingTyped, NEW m \in Bids
    PROVE  /\ IsFiniteSet(Awaited(m)) /\ Awaited(m) \subseteq RequestIds
           /\ \A id \in RequestIds : Sizes[id] \in Nat /\ Sizes[id] = request[id].amount
           /\ Own(m) \in RequestIds
           /\ Pending(m) \in Nat /\ Earlier(m) \in Nat /\ Earlier(m) <= Pending(m)
           /\ request[Own(m)].state # "live" => Earlier(m) = Pending(m)
<1>1. /\ request \in [RequestIds -> Request] /\ run \in Run
      /\ queue \in Seq(RequestIds) /\ Len(queue) \in Nat
      /\ DOMAIN queue = 1..Len(queue)
      /\ \A id \in RequestIds : request[id].state = "live" <=> id \in Range(queue)
  BY LenProperties DEF FundingTyped, FundingTypeOK, QueueFit
<1>2. IsFiniteSet(Range(queue))
  <2> DEFINE f == [n \in 1..Len(queue) |-> queue[n]]
  <2>1. IsFiniteSet(1..Len(queue))
    BY <1>1, FS_Interval
  <2>2. f \in Surjection(1..Len(queue), Range(queue))
    BY <1>1 DEF Surjection, Range
  <2> QED
    BY <2>1, <2>2, FS_Surjection
<1>3. Awaited(m) \in SUBSET Range(queue) /\ Awaited(m) \subseteq RequestIds
  BY <1>1 DEF Awaited
<1>4. IsFiniteSet(Awaited(m)) /\ IsFiniteSet(Awaited(m) \ {Own(m)})
  BY <1>2, <1>3, FS_Subset, FS_RemoveElement
<1>5. \A id \in RequestIds : Sizes[id] \in Nat /\ Sizes[id] = request[id].amount
  BY <1>1 DEF Sizes, Request
<1>6. Own(m) \in RequestIds
  BY <1>1 DEF Own, RequestIds, Writes, Run
<1>7. Pending(m) \in Nat /\ Earlier(m) \in Nat
  <2>1. \A id \in Awaited(m) : Sizes[id] \in Nat
    BY <1>3, <1>5
  <2> QED
    BY <1>4, <2>1, TotalNat DEF Pending, Earlier
<1>8. CASE Own(m) \in Awaited(m)
  <2>1. \A id \in Awaited(m) : Sizes[id] \in Int
    BY <1>3, <1>5
  <2>2. Pending(m) = Sizes[Own(m)] + Earlier(m)
    BY <1>4, <1>8, <2>1, TotalRemove DEF Pending, Earlier
  <2>3. request[Own(m)].state = "live"
    BY <1>8 DEF Awaited
  <2> QED
    BY <1>3, <1>4, <1>5, <1>6, <1>7, <2>2, <2>3
<1>9. CASE Own(m) \notin Awaited(m)
  <2>1. Awaited(m) \ {Own(m)} = Awaited(m)
    BY <1>9
  <2>2. Earlier(m) = Pending(m)
    BY <2>1 DEF Pending, Earlier
  <2> QED
    BY <1>3, <1>4, <1>5, <1>6, <1>7, <2>2
<1> QED
  BY <1>8, <1>9

LEMMA PendingSame ==
    ASSUME FundingTyped, NEW m \in Bids,
           \A id \in RequestIds : id[2] = m /\ id[3] = "deposit" =>
                                      request'[id] = request[id]
    PROVE  /\ Pending(m)' = Pending(m)
           /\ run'.key = run.key => Earlier(m)' = Earlier(m)
<1>1. /\ Awaited(m)' = Awaited(m)
      /\ \A id \in Awaited(m) : Sizes[id] = Sizes'[id]
  BY DEF Awaited, Sizes
<1>2. IsFiniteSet(Awaited(m)) /\ IsFiniteSet(Awaited(m) \ {Own(m)})
  BY PendingTyped, FS_RemoveElement
<1>3. Pending(m)' = Pending(m)
  BY <1>1, <1>2, TotalSame DEF Pending
<1>4. ASSUME run'.key = run.key PROVE Earlier(m)' = Earlier(m)
  <2>1. Own(m)' = Own(m)
    BY <1>4 DEF Own
  <2>2. \A id \in Awaited(m) \ {Own(m)} : Sizes[id] = Sizes'[id]
    BY <1>1
  <2> QED
    BY <1>1, <1>2, <2>1, <2>2, TotalSame DEF Earlier
<1> QED
  BY <1>3, <1>4

(* A deposit lands or is refused.                                           *)
LEMMA PendingLess ==
    ASSUME FundingTyped, NEW m \in Bids, NEW id \in RequestIds,
           id[2] = m, id[3] = "deposit",
           request[id].state = "live", request'[id].state # "live",
           \A other \in RequestIds \ {id} : request'[other] = request[other],
           run'.key = run.key
    PROVE  /\ Pending(m)' = Pending(m) - request[id].amount
           /\ Earlier(m)' = Earlier(m) - (IF id = Own(m) THEN 0 ELSE request[id].amount)
<1>1. /\ Awaited(m)' = Awaited(m) \ {id} /\ id \in Awaited(m)
      /\ \A other \in Awaited(m) \ {id} : Sizes'[other] = Sizes[other]
  BY DEF Awaited, Sizes
<1>2. /\ IsFiniteSet(Awaited(m)) /\ IsFiniteSet(Awaited(m) \ {Own(m)})
      /\ \A other \in Awaited(m) : Sizes[other] \in Int
      /\ Sizes[id] = request[id].amount
      /\ Pending(m) \in Nat /\ Earlier(m) \in Nat
  BY PendingTyped, FS_RemoveElement
<1>3. Pending(m)' = Pending(m) - request[id].amount
  <2>1. Total(Sizes', Awaited(m) \ {id}) = Total(Sizes, Awaited(m)) - Sizes[id]
    BY <1>1, <1>2, TotalLeave
  <2> QED
    BY <1>1, <1>2, <2>1 DEF Pending
<1>4. Own(m)' = Own(m)
  BY DEF Own
<1>5. CASE id = Own(m)
  <2>1. Awaited(m)' \ {Own(m)'} = Awaited(m) \ {Own(m)}
    BY <1>1, <1>4, <1>5
  <2>2. \A other \in Awaited(m) \ {Own(m)} : Sizes[other] = Sizes'[other]
    BY <1>1, <1>5
  <2>3. Total(Sizes, Awaited(m) \ {Own(m)}) = Total(Sizes', Awaited(m) \ {Own(m)})
    BY <1>2, <2>2, TotalSame
  <2>4. Earlier(m)' = Earlier(m)
    BY <2>1, <2>3 DEF Earlier
  <2> QED
    BY <1>2, <1>3, <1>5, <2>4
<1>6. CASE id # Own(m)
  <2> DEFINE S == Awaited(m) \ {Own(m)}
  <2>1. Awaited(m)' \ {Own(m)'} = S \ {id} /\ id \in S
    BY <1>1, <1>4, <1>6
  <2>2. /\ \A other \in S \ {id} : Sizes'[other] = Sizes[other]
        /\ \A other \in S : Sizes[other] \in Int
    BY <1>1, <1>2
  <2>3. Total(Sizes', S \ {id}) = Total(Sizes, S) - Sizes[id]
    BY <1>2, <2>1, <2>2, TotalLeave
  <2>4. Earlier(m)' = Earlier(m) - request[id].amount
    BY <1>2, <2>1, <2>3 DEF Earlier
  <2> QED
    BY <1>3, <1>6, <2>4
<1> QED
  BY <1>5, <1>6

(* The run makes its deposit.                                               *)
LEMMA PendingMore ==
    ASSUME FundingTyped, NEW m \in Bids, NEW n \in Nat, NEW id, id = Own(m),
           request[id].state = "none",
           request'[id].state = "live", request'[id].amount = n,
           \A other \in RequestIds \ {id} : request'[other] = request[other],
           run'.key = run.key
    PROVE  Pending(m)' = Pending(m) + n /\ Earlier(m)' = Earlier(m)
<1>1. /\ id \in RequestIds /\ id[2] = m /\ id[3] = "deposit"
      /\ IsFiniteSet(Awaited(m)) /\ Awaited(m) \subseteq RequestIds
      /\ \A other \in Awaited(m) : Sizes[other] \in Int
      /\ Earlier(m) = Pending(m)
  BY PendingTyped DEF Own
<1>2. /\ Awaited(m)' = Awaited(m) \cup {id} /\ id \notin Awaited(m)
      /\ \A other \in Awaited(m) : Sizes'[other] = Sizes[other]
      /\ Sizes'[id] = n
  BY <1>1 DEF Awaited, Sizes
<1>3. Pending(m)' = Pending(m) + n
  BY <1>1, <1>2, TotalEnter DEF Pending
<1>4. Awaited(m)' \ {Own(m)'} = Awaited(m)
  BY <1>2 DEF Own
<1>5. Total(Sizes, Awaited(m)) = Total(Sizes', Awaited(m))
  BY <1>1, <1>2, TotalSame
<1>6. Earlier(m)' = Earlier(m)
  BY <1>1, <1>4, <1>5 DEF Earlier, Pending
<1> QED
  BY <1>3, <1>6

-----------------------------------------------------------------------------
(* Types; a request that was answered stays as it was.                      *)

Forward ==
    \A id \in RequestIds :
        /\ request[id].state # "none" => request'[id].state # "none"
        /\ request[id].state \in {"succeeded", "failed"} => request'[id] = request[id]
RunTyped == run' \in Run /\ said' \in [Bids -> Said] /\ runs' \in 0..Runs

LEMMA FundingTypedKept ==
    ASSUME FundingTyped, RunTyped, UNCHANGED <<chainVars, circleVars>>
    PROVE  FundingTyped' /\ Forward
BY DEF FundingTyped, FundingTypeOK, QueueFit, RunTyped, chainVars, circleVars, BalanceOf,
       Forward

LEMMA MovesOn ==
    ASSUME FundingTyped, NEW outcome \in Said, NEW cost \in Nat, MoveOn(outcome, cost),
           runs' = runs
    PROVE  /\ RunTyped /\ run'.phase = "next" /\ run'.key = run.key
           /\ said'[run.mandate] = outcome
           /\ \A m \in Bids \ {run.mandate} : said'[m] = said[m]
<1>1. /\ run \in Run /\ said \in [Bids -> Said] /\ runs \in 0..Runs
      /\ run.mandate \in Bids
  BY DEF FundingTyped, FundingTypeOK, Run
<1>2. /\ run' = [run EXCEPT !.phase = "next", !.left = run.left \ {run.mandate},
                            !.budget = run.budget - cost]
      /\ said' = [said EXCEPT ![run.mandate] = outcome]
  BY DEF MoveOn
<1>3. run' \in Run /\ run'.phase = "next" /\ run'.key = run.key
  <2>1. run.budget - cost \in Int /\ run.left \ {run.mandate} \in SUBSET Bids
    BY <1>1 DEF Run
  <2> DEFINE b == run.budget - cost
             l == run.left \ {run.mandate}
  <2>2. b \in Int /\ l \in SUBSET Bids
        /\ run' = [run EXCEPT !.phase = "next", !.left = l, !.budget = b]
    BY <1>2, <2>1
  <2> HIDE DEF b, l
  <2> QED
    BY <1>1, <2>2 DEF Run, Phases
<1> QED
  BY <1>1, <1>2, <1>3 DEF RunTyped

(* What the steps of a command leave of its run.                            *)
LEMMA StartShape ==
    ASSUME FundingTyped, NEW k \in Keys, NEW targets \in SUBSET Bids, Start(k, targets)
    PROVE  /\ RunTyped /\ UNCHANGED <<chainVars, circleVars, said>>
           /\ run'.phase = "next" /\ run'.key = k
           /\ k = run.key \/ (Unheard = {} /\ Fresh(k))
<1>1. run \in Run /\ said \in [Bids -> Said] /\ runs \in 0..Runs /\ Runs \in Nat
  BY FundingAssumption DEF FundingTyped, FundingTypeOK
<1>2. /\ run' = [run EXCEPT !.phase = "next", !.key = k, !.left = targets,
                            !.budget = wallet]
      /\ runs < Runs /\ runs' = runs + 1 /\ UNCHANGED <<chainVars, circleVars, said>>
      /\ k = run.key \/ (Unheard = {} /\ Fresh(k))
  BY DEF Start
<1>3. wallet \in Int
  BY DEF FundingTyped, FundingTypeOK
<1>4. run' \in Run /\ run'.phase = "next" /\ run'.key = k
  BY <1>1, <1>2, <1>3 DEF Run, Phases
<1> QED
  BY <1>1, <1>2, <1>4 DEF RunTyped

LEMMA ReadShape ==
    ASSUME FundingTyped, NEW m \in Bids, ReadVault(m)
    PROVE  /\ RunTyped /\ UNCHANGED <<chainVars, circleVars, said>>
           /\ run'.phase = "plan" /\ run'.key = run.key /\ run'.mandate = m
           /\ run'.before = BalanceOf(m)
<1>1. /\ run \in Run /\ said \in [Bids -> Said] /\ runs \in 0..Runs
      /\ BalanceOf(m) \in Int
  BY DEF FundingTyped, FundingTypeOK, BalanceOf
<1>2. /\ run' = [run EXCEPT !.phase = "plan", !.mandate = m, !.before = BalanceOf(m)]
      /\ UNCHANGED <<chainVars, circleVars, said, runs>>
  BY DEF ReadVault
<1> QED
  BY <1>1, <1>2 DEF RunTyped, Run, Phases

(* The steps that end a mandate, or the run.                                *)
Ends(m, outcome) ==
    /\ run'.phase \in {"idle", "next"} /\ run'.key = run.key
    /\ said'[m] = outcome \/ said'[m] = said[m]
    /\ \A other \in Bids \ {m} : said'[other] = said[other]
    /\ UNCHANGED <<chainVars, circleVars>>
(* The steps that go on with one.                                           *)
Continues ==
    /\ run'.key = run.key /\ run'.mandate = run.mandate /\ run'.before = run.before
    /\ run.phase \in Phases \ {"idle", "next"}
    /\ run'.phase \in Phases \ {"idle", "next", "plan"}
    /\ UNCHANGED chainVars

LEMMA StopShape ==
    ASSUME FundingTyped, Finish \/ Die
    PROVE  RunTyped /\ Ends(run.mandate, "begun")
<1>1. run \in Run /\ said \in [Bids -> Said] /\ runs \in 0..Runs
  BY DEF FundingTyped, FundingTypeOK
<1>2. /\ run' = [run EXCEPT !.phase = "idle"] \/ run' = [run EXCEPT !.phase = "idle", !.left = {}]
      /\ UNCHANGED <<chainVars, circleVars, said, runs>>
  BY DEF Finish, Die
<1> QED
  BY <1>1, <1>2 DEF RunTyped, Run, Phases, Ends

LEMMA PlanShape ==
    ASSUME FundingTyped, Unreadable \/ PlanDeposit
    PROVE  /\ RunTyped /\ run.phase = "plan" /\ UNCHANGED <<chainVars, circleVars>>
           /\ \/ Ends(run.mandate, "backed") /\ Shortfall <= 0
              \/ Ends(run.mandate, said[run.mandate])
              \/ /\ Continues /\ said' = said /\ run'.phase \in {"approve", "deposit"}
                 /\ run'.amount = Shortfall
<1>1. /\ run \in Run /\ said \in [Bids -> Said] /\ runs \in 0..Runs
      /\ run.mandate \in Bids
  BY DEF FundingTyped, FundingTypeOK, Run
<1>2. /\ run.phase = "plan" /\ UNCHANGED <<chainVars, circleVars, runs>>
      /\ \/ Shortfall <= 0 /\ MoveOn("backed", 0)
         \/ MoveOn(said[run.mandate], 0)
         \/ /\ Shortfall \in 1..run.budget
            /\ run' = [run EXCEPT !.amount = Shortfall,
                                  !.phase = IF allowance >= Shortfall
                                            THEN "deposit" ELSE "approve"]
            /\ said' = said
  BY DEF Unreadable, PlanDeposit
<1>3. CASE Shortfall <= 0 /\ MoveOn("backed", 0)
  BY <1>1, <1>2, <1>3, MovesOn DEF Said, Ends
<1>4. CASE MoveOn(said[run.mandate], 0)
  <2>1. said[run.mandate] \in Said
    BY <1>1
  <2> QED
    BY <1>1, <1>2, <1>4, <2>1, MovesOn DEF Ends
<1>5. ASSUME NEW phase \in {"approve", "deposit"}, Shortfall \in 1..run.budget,
             run' = [run EXCEPT !.amount = Shortfall, !.phase = phase], said' = said
      PROVE  /\ RunTyped /\ Continues /\ run'.phase \in {"approve", "deposit"}
             /\ run'.amount = Shortfall
  <2>1. Shortfall \in Nat
    BY <1>1, <1>5 DEF Run
  <2>2. run' \in Run /\ run'.amount = Shortfall /\ run'.phase = phase
        /\ run'.key = run.key /\ run'.mandate = run.mandate /\ run'.before = run.before
    BY <1>1, <1>5, <2>1 DEF Run, Phases
  <2> QED
    BY <1>1, <1>2, <1>5, <2>2 DEF RunTyped, Continues, Phases
<1> QED
  BY <1>2, <1>3, <1>4, <1>5

LEMMA AwaitShape ==
    ASSUME FundingTyped, ApprovalAwaited
    PROVE  /\ RunTyped /\ run.phase = "approving" /\ UNCHANGED <<chainVars, circleVars>>
           /\ \/ /\ Continues /\ said' = said /\ run'.phase = "deposit"
                 /\ run'.amount = run.amount
              \/ Ends(run.mandate, "failed") /\ request[Id("approve")].state = "failed"
              \/ Ends(run.mandate, "unknown")
<1>1. /\ run \in Run /\ said \in [Bids -> Said] /\ runs \in 0..Runs
      /\ run.mandate \in Bids /\ run.amount \in Nat
  BY DEF FundingTyped, FundingTypeOK, Run
<1>2. /\ run.phase = "approving" /\ UNCHANGED <<chainVars, circleVars, runs>>
      /\ \/ run' = [run EXCEPT !.phase = "deposit"] /\ said' = said
         \/ request[Id("approve")].state = "failed" /\ MoveOn("failed", 0)
         \/ MoveOn("unknown", run.amount)
  BY DEF ApprovalAwaited, Results
<1>3. CASE run' = [run EXCEPT !.phase = "deposit"] /\ said' = said
  BY <1>1, <1>2, <1>3 DEF RunTyped, Run, Phases, Continues
<1>4. CASE request[Id("approve")].state = "failed" /\ MoveOn("failed", 0)
  BY <1>1, <1>2, <1>4, MovesOn DEF Said, Ends
<1>5. CASE MoveOn("unknown", run.amount)
  BY <1>1, <1>2, <1>5, MovesOn DEF Said, Ends
<1> QED
  BY <1>2, <1>3, <1>4, <1>5

LEMMA DepositShape ==
    ASSUME FundingTyped, DepositAwaited
    PROVE  /\ RunTyped /\ UNCHANGED <<chainVars, circleVars>>
           /\ Continues /\ said' = said /\ run.phase = "depositing" /\ run'.phase = "recheck"
           /\ run'.amount = run.amount
           /\ run'.result # "unknown" => request[Id("deposit")].state = run'.result
<1>1. run \in Run /\ said \in [Bids -> Said] /\ runs \in 0..Runs
  BY DEF FundingTyped, FundingTypeOK
<1>2. PICK result \in Results("deposit") :
          run' = [run EXCEPT !.phase = "recheck", !.result = result]
  BY Zenon DEF DepositAwaited
<1>3. /\ result \in {"succeeded", "failed", "unknown"}
      /\ result # "unknown" => request[Id("deposit")].state = result
  BY <1>2 DEF Results
<1>4. run.phase = "depositing" /\ UNCHANGED <<chainVars, circleVars, said, runs>>
  BY DEF DepositAwaited
<1>5. run' \in Run /\ run'.phase = "recheck" /\ run'.result = result
      /\ run'.amount = run.amount /\ run'.key = run.key
      /\ run'.mandate = run.mandate /\ run'.before = run.before
  BY <1>1, <1>2, <1>3 DEF Run, Phases
<1> QED
  BY <1>1, <1>3, <1>4, <1>5 DEF RunTyped, Continues, Phases

LEMMA ConcludeShape ==
    ASSUME FundingTyped, Conclude
    PROVE  /\ RunTyped /\ run.phase = "recheck" /\ UNCHANGED <<chainVars, circleVars>>
           /\ \/ Ends(run.mandate, "failed") /\ run.result = "failed"
              \/ /\ Ends(run.mandate, "deposited")
                 /\ run.result = "succeeded" \/ Landed
              \/ Ends(run.mandate, "unknown")
<1>1. run \in Run /\ run.mandate \in Bids /\ run.amount \in Nat
  BY DEF FundingTyped, FundingTypeOK, Run
<1>2. /\ run.phase = "recheck" /\ UNCHANGED <<chainVars, circleVars, runs>>
      /\ \/ run.result = "failed" /\ MoveOn("failed", 0)
         \/ (run.result = "succeeded" \/ Landed) /\ MoveOn("deposited", run.amount)
         \/ MoveOn("unknown", run.amount)
  BY DEF Conclude
<1>3. CASE run.result = "failed" /\ MoveOn("failed", 0)
  BY <1>1, <1>2, <1>3, MovesOn DEF Said, Ends
<1>4. CASE (run.result = "succeeded" \/ Landed) /\ MoveOn("deposited", run.amount)
  BY <1>1, <1>2, <1>4, MovesOn DEF Said, Ends
<1>5. CASE MoveOn("unknown", run.amount)
  BY <1>1, <1>2, <1>5, MovesOn DEF Said, Ends
<1> QED
  BY <1>2, <1>3, <1>4, <1>5

(* A request handed to Circle: taken if its key is new, left as it was      *)
(* otherwise.                                                               *)
LEMMA SubmitShape ==
    ASSUME FundingTyped, NEW w \in Writes, NEW phase \in {"approving", "depositing"},
           run.phase \in {"approve", "deposit"}, Submitted(w),
           run' = [run EXCEPT !.phase = phase],
           said' = [said EXCEPT ![run.mandate] = "begun"], UNCHANGED <<chainVars, runs>>
    PROVE  /\ FundingTyped' /\ Forward /\ Continues
           /\ run'.phase = phase /\ run'.amount = run.amount
           /\ said'[run.mandate] = "begun"
           /\ \A m \in Bids \ {run.mandate} : said'[m] = said[m]
           /\ Id(w) \in RequestIds
           /\ \A id \in RequestIds \ {Id(w)} : request'[id] = request[id]
           /\ request[Id(w)].state # "none" => request'[Id(w)] = request[Id(w)]
           /\ request[Id(w)].state = "none" =>
                  request'[Id(w)].state = "live" /\ request'[Id(w)].amount = run.amount
<1>1. /\ run \in Run /\ said \in [Bids -> Said] /\ runs \in 0..Runs
      /\ request \in [RequestIds -> Request]
      /\ run.mandate \in Bids /\ run.amount \in Nat /\ Id(w) \in RequestIds
  BY DEF FundingTyped, FundingTypeOK, Run, Id, RequestIds
<1>2. /\ RunTyped /\ Continues /\ run'.phase = phase /\ run'.amount = run.amount
      /\ said'[run.mandate] = "begun"
      /\ \A m \in Bids \ {run.mandate} : said'[m] = said[m]
  <2>1. /\ run' \in Run /\ run'.phase = phase /\ run'.amount = run.amount
        /\ run'.key = run.key /\ run'.mandate = run.mandate /\ run'.before = run.before
    BY <1>1 DEF Run, Phases
  <2>2. said' \in [Bids -> Said] /\ said'[run.mandate] = "begun"
        /\ \A m \in Bids \ {run.mandate} : said'[m] = said[m]
    BY <1>1 DEF Said
  <2> QED
    BY <1>1, <2>1, <2>2 DEF RunTyped, Continues, Phases
<1>3. ASSUME QueueFit', request' \in [RequestIds -> Request] PROVE FundingTyped'
  BY <1>2, <1>3 DEF FundingTyped, FundingTypeOK, QueueFit, RunTyped, chainVars, BalanceOf
<1>4. CASE request[Id(w)].state = "none"
  <2>1. /\ request' = [request EXCEPT ![Id(w)] = [state |-> "live", amount |-> run.amount]]
        /\ queue' = Append(queue, Id(w))
    BY <1>4 DEF Submitted
  <2>2. /\ QueueFit' /\ request' \in [RequestIds -> Request]
        /\ request'[Id(w)].state = "live" /\ request'[Id(w)].amount = run.amount
        /\ \A other \in RequestIds \ {Id(w)} : request'[other] = request[other]
    <3> HIDE DEF Id
    <3> QED
      BY <1>1, <1>4, <2>1, QueueTakes
  <2>3. Forward
    BY <1>4, <2>2 DEF Forward
  <2> QED
    BY <1>1, <1>2, <1>3, <1>4, <2>2, <2>3
<1>5. CASE request[Id(w)].state # "none"
  <2>1. UNCHANGED circleVars
    BY <1>5 DEF Submitted
  <2>2. FundingTyped' /\ Forward
    BY <1>2, <2>1, FundingTypedKept
  <2> QED
    BY <1>1, <1>2, <1>5, <2>1, <2>2 DEF circleVars
<1> QED
  BY <1>4, <1>5

LEMMA ApproveShape ==
    ASSUME FundingTyped, Approve
    PROVE  /\ FundingTyped' /\ Forward /\ Continues
           /\ run.phase = "approve" /\ run'.phase = "approving"
           /\ run'.amount = run.amount
           /\ said'[run.mandate] = "begun"
           /\ \A m \in Bids \ {run.mandate} : said'[m] = said[m]
           /\ \A id \in RequestIds : id[3] = "deposit" => request'[id] = request[id]
<1>1. /\ run.phase = "approve" /\ Submitted("approve")
      /\ run' = [run EXCEPT !.phase = "approving"]
      /\ said' = [said EXCEPT ![run.mandate] = "begun"] /\ UNCHANGED <<chainVars, runs>>
  BY DEF Approve
<1>2. "approve" \in Writes /\ Id("approve")[3] = "approve"
  BY DEF Writes, Id
<1> QED
  BY <1>1, <1>2, SubmitShape

LEMMA MakeShape ==
    ASSUME FundingTyped, MakeDeposit
    PROVE  /\ FundingTyped' /\ Forward /\ Continues
           /\ run.phase = "deposit" /\ run'.phase = "depositing"
           /\ run'.amount = run.amount
           /\ said'[run.mandate] = "begun"
           /\ \A m \in Bids \ {run.mandate} : said'[m] = said[m]
           /\ Id("deposit") \in RequestIds
           /\ \A id \in RequestIds \ {Id("deposit")} : request'[id] = request[id]
           /\ request[Id("deposit")].state # "none" =>
                  request'[Id("deposit")] = request[Id("deposit")]
           /\ request[Id("deposit")].state = "none" =>
                  /\ request'[Id("deposit")].state = "live"
                  /\ request'[Id("deposit")].amount = run.amount
<1>1. /\ run.phase = "deposit" /\ Submitted("deposit")
      /\ run' = [run EXCEPT !.phase = "depositing"]
      /\ said' = [said EXCEPT ![run.mandate] = "begun"] /\ UNCHANGED <<chainVars, runs>>
  BY DEF MakeDeposit
<1>2. "deposit" \in Writes
  BY DEF Writes
<1> QED
  BY <1>1, <1>2, SubmitShape

(* What Circle's answer to a request leaves.                                *)
Answered(id) ==
    /\ request[id].state = "live" /\ request'[id].state \in {"succeeded", "failed"}
    /\ \A other \in RequestIds \ {id} : request'[other] = request[other]
    /\ \/ posted' = posted
       \/ /\ id[3] = "deposit"
          /\ posted' = [posted EXCEPT ![id[2]] = posted[id[2]] + request[id].amount]

LEMMA AnswerShape ==
    ASSUME FundingTyped, Land \/ \E n \in DOMAIN queue : Dropped(n)
    PROVE  /\ FundingTyped' /\ Forward
           /\ UNCHANGED <<given, spent, run, said, runs>>
           /\ \E id \in RequestIds : Answered(id)
<1>1. /\ wallet \in Nat /\ allowance \in Nat
      /\ posted \in [Bids -> Nat] /\ given \in [Bids -> Nat] /\ spent \in [Bids -> Nat]
      /\ \A m \in Bids : posted[m] + given[m] - spent[m] >= 0
      /\ request \in [RequestIds -> Request] /\ queue \in Seq(RequestIds)
      /\ DOMAIN queue = 1..Len(queue)
  BY LenProperties DEF FundingTyped, FundingTypeOK, QueueFit, BalanceOf
<1>2. ASSUME NEW p \in 1..Len(queue), NEW id, id = queue[p],
             NEW state \in {"succeeded", "failed"},
             request' = [request EXCEPT ![id].state = state],
             queue' = RemoveAt(queue, p), UNCHANGED <<given, spent, run, said, runs>>,
             wallet' \in Nat, allowance' \in Nat,
             \/ posted' = posted
             \/ /\ id[3] = "deposit"
                /\ posted' = [posted EXCEPT ![id[2]] = posted[id[2]] + request[id].amount]
      PROVE  /\ FundingTyped' /\ Forward /\ \E x \in RequestIds : Answered(x)
  <2>1. /\ QueueFit' /\ request' \in [RequestIds -> Request]
        /\ id \in RequestIds /\ request[id].state = "live"
        /\ request'[id].state = state /\ request'[id].amount = request[id].amount
        /\ \A other \in RequestIds \ {id} : request'[other] = request[other]
    BY <1>2, QueueAnswers
  <2>2. id[2] \in Bids /\ request[id].amount \in Nat
    BY <1>1, <2>1 DEF RequestIds, Request
  <2>3. posted' \in [Bids -> Nat] /\ \A m \in Bids : posted'[m] >= posted[m]
    <3>1. ASSUME NEW b \in Bids, NEW n \in Nat, posted' = [posted EXCEPT ![b] = posted[b] + n]
          PROVE  posted' \in [Bids -> Nat] /\ \A m \in Bids : posted'[m] >= posted[m]
      <4>1. posted[b] + n \in Nat /\ posted[b] + n >= posted[b]
        BY <1>1
      <4>2. posted'[b] = posted[b] + n /\ \A m \in Bids \ {b} : posted'[m] = posted[m]
        BY <1>1, <3>1
      <4>3. posted' \in [Bids -> Nat]
        BY <1>1, <3>1, <4>1
      <4>4. \A m \in Bids : posted[m] \in Nat
        BY <1>1
      <4>5. ASSUME NEW m \in Bids PROVE posted'[m] >= posted[m]
        <5>1. CASE m = b
          BY <4>1, <4>2, <5>1
        <5>2. CASE m # b
          BY <4>2, <4>4, <5>2
        <5> QED
          BY <5>1, <5>2
      <4> QED
        BY <4>3, <4>5
    <3>2. CASE posted' = posted
      BY <1>1, <3>2
    <3>3. CASE posted' = [posted EXCEPT ![id[2]] = posted[id[2]] + request[id].amount]
      BY <2>2, <3>1, <3>3
    <3> QED
      BY <1>2, <3>2, <3>3
  <2>4. \A m \in Bids : posted'[m] + given[m] - spent[m] >= 0
    <3> TAKE m \in Bids
    <3>1. posted[m] \in Nat /\ given[m] \in Nat /\ spent[m] \in Nat /\ posted'[m] \in Nat
      BY <1>1, <2>3
    <3>2. posted[m] + given[m] - spent[m] >= 0 /\ posted'[m] >= posted[m]
      BY <1>1, <2>3
    <3> QED
      BY <3>1, <3>2
  <2>5. FundingTypeOK'
    BY <1>1, <1>2, <2>1, <2>3, <2>4 DEF FundingTyped, FundingTypeOK, QueueFit, BalanceOf
  <2>6. Forward
    BY <2>1 DEF Forward
  <2>7. Answered(id)
    BY <1>2, <2>1 DEF Answered
  <2> QED
    BY <2>1, <2>5, <2>6, <2>7 DEF FundingTyped
<1>3. CASE Land
  <2>1. /\ 1 \in 1..Len(queue) /\ Head(queue) = queue[1]
        /\ queue' = RemoveAt(queue, 1) /\ Execute(Head(queue))
        /\ UNCHANGED <<run, said, runs>>
    BY <1>1, <1>3, TailRemoves DEF Land
  <2> DEFINE id == queue[1]
  <2>2. id \in RequestIds /\ request[id].amount \in Nat
    <3>1. id \in RequestIds
      BY <1>1, <2>1, ElementOfSeq
    <3> QED
      BY <1>1, <3>1 DEF Request
  <2> HIDE DEF id
  <2>3. Execute(id)
    BY <2>1 DEF id
  <2>4. UNCHANGED <<given, spent>>
    BY <2>3 DEF Execute, chainVars
  <2>5. wallet' \in Nat /\ allowance' \in Nat
    <3>1. \/ allowance' = request[id].amount /\ wallet' = wallet
          \/ /\ request[id].amount <= allowance /\ request[id].amount <= wallet
             /\ allowance' = allowance - request[id].amount
             /\ wallet' = wallet - request[id].amount
          \/ allowance' = allowance /\ wallet' = wallet
      BY <2>3 DEF Execute, chainVars
    <3> QED
      BY <1>1, <2>2, <3>1
  <2>6. \E state \in {"succeeded", "failed"} :
            request' = [request EXCEPT ![id].state = state]
    BY <2>3 DEF Execute
  <2>7. \/ posted' = posted
        \/ /\ id[3] = "deposit"
           /\ posted' = [posted EXCEPT ![id[2]] = posted[id[2]] + request[id].amount]
    BY <2>3 DEF Execute, chainVars
  <2>8. id = queue[1]
    BY DEF id
  <2> QED
    BY <1>2, <2>1, <2>4, <2>5, <2>6, <2>7, <2>8
<1>4. ASSUME NEW n \in DOMAIN queue, Dropped(n)
      PROVE  /\ FundingTyped' /\ Forward
             /\ UNCHANGED <<given, spent, run, said, runs>>
             /\ \E id \in RequestIds : Answered(id)
  <2>1. /\ n \in 1..Len(queue) /\ queue' = RemoveAt(queue, n)
        /\ request' = [request EXCEPT ![queue[n]].state = "failed"]
        /\ UNCHANGED <<wallet, allowance, posted, given, spent, run, said, runs>>
    BY <1>1, <1>4 DEF Dropped, chainVars
  <2> QED
    BY <1>1, <1>2, <2>1
<1> QED
  BY <1>3, <1>4

(* What others deposit, and what leaves the vault, only grows.              *)
LEMMA OutsideShape ==
    ASSUME FundingTyped, NEW m \in Bids, OthersDeposit(m) \/ Leaves(m)
    PROVE  /\ FundingTyped' /\ Forward
           /\ UNCHANGED <<posted, circleVars, run, said, runs>>
           /\ \A other \in Bids : given'[other] >= given[other] /\ spent'[other] >= spent[other]
<1>1. /\ given \in [Bids -> Nat] /\ spent \in [Bids -> Nat] /\ posted \in [Bids -> Nat]
      /\ \A other \in Bids : posted[other] + given[other] - spent[other] >= 0
  BY DEF FundingTyped, FundingTypeOK, BalanceOf
<1>2. UNCHANGED <<wallet, allowance, posted, circleVars, run, said, runs>>
  BY DEF OthersDeposit, Leaves
<1>3. /\ given' \in [Bids -> Nat] /\ spent' \in [Bids -> Nat]
      /\ \A other \in Bids : /\ given'[other] >= given[other]
                             /\ spent'[other] >= spent[other]
                             /\ posted[other] + given'[other] - spent'[other] >= 0
  <2>1. CASE OthersDeposit(m)
    BY <1>1, <2>1 DEF OthersDeposit
  <2>2. CASE Leaves(m)
    BY <1>1, <2>2 DEF Leaves, BalanceOf
  <2> QED
    BY <2>1, <2>2
<1>4. FundingTypeOK' /\ QueueFit'
  BY <1>2, <1>3 DEF FundingTyped, FundingTypeOK, QueueFit, BalanceOf, circleVars
<1>5. Forward
  BY <1>2 DEF Forward, circleVars
<1> QED
  BY <1>2, <1>3, <1>4, <1>5 DEF FundingTyped

-----------------------------------------------------------------------------
(* A mandate whose deposits stay as they are, and of which nothing new is   *)
(* told, stays as it was.                                                   *)

LEMMA ToldStays ==
    ASSUME FundingTyped, Forward, NEW m \in Bids, ToldNothingMoved(m)
    PROVE  ToldNothingMoved(m)'
<1>1. PICK k \in Keys : /\ request[<<k, m, "deposit">>].state # "none"
                        /\ request[<<k, m, "approve">>].state = "failed"
  BY DEF ToldNothingMoved
<1>2. <<k, m, "deposit">> \in RequestIds /\ <<k, m, "approve">> \in RequestIds
  BY DEF RequestIds, Writes
<1>3. /\ request'[<<k, m, "deposit">>].state # "none"
      /\ request'[<<k, m, "approve">>].state = "failed"
  BY <1>1, <1>2 DEF Forward
<1> QED
  BY <1>3 DEF ToldNothingMoved

DepositsSame(m) ==
    \A id \in RequestIds : id[2] = m /\ id[3] = "deposit" => request'[id] = request[id]

LEMMA KeepFit ==
    ASSUME FundingTyped, NEW m \in Bids, Fit(m), DepositsSame(m),
           UNCHANGED <<posted, given, spent>>, run'.key = run.key,
           \/ said'[m] = said[m]
           \/ said'[m] \in {"begun", "unknown"}
           \/ Pending(m) <= given[m],
           InHand(m)' => /\ InHand(m) /\ run'.before = run.before
                         /\ run'.phase = "plan" => run.phase = "plan"
    PROVE  Fit(m)'
<1>1. Pending(m)' = Pending(m) /\ Earlier(m)' = Earlier(m)
  BY PendingSame DEF DepositsSame
<1>2. Own(m)' = Own(m) /\ Own(m) \in RequestIds
  BY PendingTyped DEF Own
<1>3. request'[Own(m)] = request[Own(m)]
  BY <1>2 DEF DepositsSame, Own
<1>4. HeardOf(m)' => HeardOf(m) \/ Pending(m) <= given[m]
  BY DEF HeardOf
<1>5. (posted[m] + Pending(m) <= Required[m] + spent[m])'
  BY <1>1 DEF Fit
<1>6. (Earlier(m) <= given[m])' /\ (HeardOf(m) => Pending(m) <= given[m])'
  BY <1>1, <1>4 DEF Fit
<1>7. (InHand(m) /\ request[Own(m)].state = "none" =>
           posted[m] + Pending(m) <= run.before + spent[m])'
  <2>1. ASSUME InHand(m)', request'[Own(m)'].state = "none"
        PROVE  posted'[m] + Pending(m)' <= run'.before + spent'[m]
    BY <1>1, <1>2, <1>3, <2>1 DEF Fit
  <2> QED
    BY <2>1
<1>8. (InHand(m) /\ run.phase = "plan" /\ run.before >= Required[m] =>
           Pending(m) <= given[m])'
  <2>1. ASSUME InHand(m)', run'.phase = "plan", run'.before >= Required[m]
        PROVE  Pending(m)' <= given'[m]
    BY <1>1, <2>1 DEF Fit
  <2> QED
    BY <2>1
<1> QED
  BY <1>5, <1>6, <1>7, <1>8 DEF Fit

(* What the amounts behind a mandate are.                                   *)
LEMMA AmountsTyped ==
    ASSUME FundingTyped, NEW m \in Bids
    PROVE  /\ posted[m] \in Nat /\ given[m] \in Nat /\ spent[m] \in Nat
           /\ Required[m] \in Nat /\ run.before \in Int /\ run.amount \in Nat
           /\ run.mandate \in Bids /\ run.key \in Keys
           /\ Pending(m) \in Nat /\ Earlier(m) \in Nat /\ Earlier(m) <= Pending(m)
           /\ Own(m) \in RequestIds
           /\ request[Own(m)].state # "live" => Earlier(m) = Pending(m)
           /\ BalanceOf(m) = posted[m] + given[m] - spent[m]
           /\ Id("deposit") = Own(run.mandate)
BY PendingTyped, FundingAssumption
   DEF FundingTyped, FundingTypeOK, Run, BalanceOf, Id, Own

(* The steps of the operator and of the run, on the mandate they are about  *)
(* and on the others.                                                       *)
LEMMA StartFits ==
    ASSUME FundingTyped, NEW k \in Keys, NEW targets \in SUBSET Bids, Start(k, targets),
           NEW m \in Bids, Fit(m)
    PROVE  Fit(m)'
<1>1. /\ UNCHANGED <<chainVars, circleVars, said>>
      /\ run'.phase = "next" /\ run'.key = k
      /\ k = run.key \/ (Unheard = {} /\ Fresh(k))
  BY StartShape
<1>2. ~InHand(m)' /\ DepositsSame(m)
  BY <1>1 DEF InHand, DepositsSame, circleVars
<1>3. CASE k = run.key
  BY <1>1, <1>2, <1>3, KeepFit DEF chainVars
<1>4. CASE Unheard = {} /\ Fresh(k)
  <2>1. Pending(m)' = Pending(m)
    BY <1>2, PendingSame DEF DepositsSame
  <2>2. /\ HeardOf(m) /\ request[<<k, m, "deposit">>].state = "none"
    BY <1>4 DEF Unheard, HeardOf, Fresh, Writes
  <2>3. Own(m)' \notin Awaited(m)' /\ UNCHANGED <<posted, given, spent>>
    BY <1>1, <2>2 DEF Own, Awaited, circleVars, chainVars
  <2>4. Awaited(m)' \ {Own(m)'} = Awaited(m)'
    BY <2>3
  <2>5. Earlier(m)' = Pending(m)'
    BY <2>4 DEF Earlier, Pending
  <2>6. Pending(m) <= given[m] /\ posted[m] + Pending(m) <= Required[m] + spent[m]
    BY <2>2 DEF Fit
  <2> QED
    BY <1>2, <2>1, <2>3, <2>5, <2>6 DEF Fit
<1> QED
  BY <1>1, <1>3, <1>4

LEMMA ReadFits ==
    ASSUME FundingTyped, NEW n \in Bids, ReadVault(n), NEW m \in Bids, Fit(m)
    PROVE  Fit(m)'
<1>1. /\ UNCHANGED <<chainVars, circleVars, said>>
      /\ run'.phase = "plan" /\ run'.key = run.key /\ run'.mandate = n
      /\ run'.before = BalanceOf(n)
  BY ReadShape
<1>2. DepositsSame(m) /\ UNCHANGED <<posted, given, spent>>
  BY <1>1 DEF DepositsSame, circleVars, chainVars
<1>3. CASE m # n
  <2>1. ~InHand(m)'
    BY <1>1, <1>3 DEF InHand
  <2> QED
    BY <1>1, <1>2, <2>1, KeepFit
<1>4. CASE m = n
  <2>1. Pending(m)' = Pending(m) /\ Earlier(m)' = Earlier(m)
    BY <1>1, <1>2, PendingSame DEF DepositsSame
  <2>2. Own(m)' = Own(m) /\ HeardOf(m)' = HeardOf(m) /\ request' = request
    BY <1>1 DEF Own, HeardOf, circleVars
  <2>3. request[Own(m)].state = "none" => Pending(m) <= given[m]
    BY AmountsTyped DEF Fit
  <2>4. run'.before = posted[m] + given[m] - spent[m]
    BY <1>1, <1>4, AmountsTyped
  <2>5. request[Own(m)].state = "none" => posted[m] + Pending(m) <= run'.before + spent[m]
    BY <2>3, <2>4, AmountsTyped
  <2>6. run'.before >= Required[m] => Pending(m) <= given[m]
    <3>1. posted[m] + Pending(m) <= Required[m] + spent[m]
      BY DEF Fit
    <3> QED
      BY <2>4, <3>1, AmountsTyped
  <2> QED
    BY <1>2, <2>1, <2>2, <2>5, <2>6 DEF Fit
<1> QED
  BY <1>3, <1>4

(* The run is done with its mandate, or over.                               *)
LEMMA EndFits ==
    ASSUME FundingTyped, NEW outcome, Ends(run.mandate, outcome), NEW m \in Bids, Fit(m),
           \/ outcome = said[run.mandate] \/ outcome \in {"begun", "unknown"}
           \/ m = run.mandate => Pending(m) <= given[m]
    PROVE  Fit(m)'
<1>1. ~InHand(m)' /\ DepositsSame(m) /\ UNCHANGED <<posted, given, spent>>
      /\ run'.key = run.key
  BY DEF Ends, InHand, DepositsSame, circleVars, chainVars
<1>2. \/ said'[m] = said[m] \/ said'[m] \in {"begun", "unknown"}
      \/ Pending(m) <= given[m]
  BY DEF Ends
<1> QED
  BY <1>1, <1>2, KeepFit

(* It goes on with it, the deposits behind m left as they are.              *)
LEMMA GoOnFits ==
    ASSUME FundingTyped, Continues, NEW m \in Bids, Fit(m), DepositsSame(m),
           said'[m] = said[m] \/ said'[m] = "begun"
    PROVE  Fit(m)'
<1>1. /\ UNCHANGED <<posted, given, spent>> /\ run'.key = run.key
      /\ InHand(m)' => InHand(m) /\ run'.before = run.before
      /\ run'.phase # "plan"
  BY DEF Continues, InHand, chainVars
<1> QED
  BY <1>1, KeepFit

LEMMA MakeFits ==
    ASSUME FundingTyped, RunFit, MakeDeposit, NEW m \in Bids, Fit(m)
    PROVE  Fit(m)'
<1> DEFINE id == Id("deposit")
<1>1. /\ Continues /\ run.phase = "deposit" /\ run'.phase = "depositing"
      /\ said'[run.mandate] = "begun"
      /\ \A b \in Bids \ {run.mandate} : said'[b] = said[b]
      /\ id \in RequestIds /\ \A x \in RequestIds \ {id} : request'[x] = request[x]
      /\ request[id].state # "none" => request'[id] = request[id]
      /\ request[id].state = "none" =>
             request'[id].state = "live" /\ request'[id].amount = run.amount
  BY MakeShape
<1>2. id[2] = run.mandate /\ id = Own(run.mandate)
  BY DEF Id, Own
<1> HIDE DEF id
<1>3. CASE m # run.mandate \/ request[id].state # "none"
  <2>1. DepositsSame(m)
    BY <1>1, <1>2, <1>3 DEF DepositsSame
  <2>2. said'[m] = said[m] \/ said'[m] = "begun"
    BY <1>1
  <2> QED
    BY <1>1, <2>1, <2>2, GoOnFits
<1>4. CASE m = run.mandate /\ request[id].state = "none"
  <2>1. InHand(m) /\ run.amount = Required[m] - run.before
    BY <1>1, <1>4 DEF RunFit, InHand, Phases, Shortfall
  <2>2. posted[m] + Pending(m) <= run.before + spent[m] /\ Earlier(m) <= given[m]
    BY <1>2, <1>4, <2>1 DEF Fit
  <2>3. run.amount \in Nat /\ id = Own(m) /\ run'.key = run.key
    BY <1>1, <1>2, <1>4, AmountsTyped DEF Continues
  <2>4. Pending(m)' = Pending(m) + run.amount /\ Earlier(m)' = Earlier(m)
    BY <1>1, <1>4, <2>3, PendingMore
  <2>5. UNCHANGED <<posted, given, spent>> /\ ~HeardOf(m)' /\ Own(m)' = Own(m)
    BY <1>1, <1>4, <2>3 DEF Continues, chainVars, HeardOf, Own
  <2>6. request'[Own(m)'].state = "live" /\ run'.phase # "plan"
    BY <1>1, <1>4, <2>3, <2>5
  <2>7. posted[m] + (Pending(m) + run.amount) <= Required[m] + spent[m]
    BY <2>1, <2>2, AmountsTyped
  <2> QED
    BY <2>2, <2>4, <2>5, <2>6, <2>7 DEF Fit
<1> QED
  BY <1>3, <1>4

(* Circle answers a request: a deposit moves from what may still land to    *)
(* what has, or to nothing.                                                 *)
LEMMA AnswerFits ==
    ASSUME FundingTyped, NEW id \in RequestIds, Answered(id),
           UNCHANGED <<given, spent, run, said>>, NEW m \in Bids, Fit(m)
    PROVE  Fit(m)'
<1>1. /\ request[id].state = "live" /\ request'[id].state \in {"succeeded", "failed"}
      /\ \A other \in RequestIds \ {id} : request'[other] = request[other]
      /\ \/ posted' = posted
         \/ /\ id[3] = "deposit"
            /\ posted' = [posted EXCEPT ![id[2]] = posted[id[2]] + request[id].amount]
  BY DEF Answered
<1>2. /\ posted \in [Bids -> Nat] /\ request[id].amount \in Nat /\ id[2] \in Bids
  BY DEF FundingTyped, FundingTypeOK, Request, RequestIds
<1>3. /\ Own(m)' = Own(m) /\ (HeardOf(m)' <=> HeardOf(m)) /\ (InHand(m)' <=> InHand(m))
  BY DEF Own, HeardOf, InHand
<1>4. CASE id[2] # m \/ id[3] # "deposit"
  <2>1. DepositsSame(m)
    BY <1>1, <1>4 DEF DepositsSame
  <2>2. posted'[m] = posted[m]
    BY <1>1, <1>2, <1>4
  <2>3. /\ Pending(m)' = Pending(m) /\ Earlier(m)' = Earlier(m)
        /\ request'[Own(m)] = request[Own(m)]
    BY <2>1, PendingSame, AmountsTyped DEF DepositsSame, Own
  <2> QED
    BY <1>3, <2>2, <2>3 DEF Fit
<1>5. CASE id[2] = m /\ id[3] = "deposit"
  <2> DEFINE n == request[id].amount
  <2>1. /\ Pending(m)' = Pending(m) - n
        /\ Earlier(m)' = Earlier(m) - (IF id = Own(m) THEN 0 ELSE n)
    BY <1>1, <1>5, PendingLess
  <2>2. posted'[m] = posted[m] \/ posted'[m] = posted[m] + n
    BY <1>1, <1>2, <1>5
  <2>3. request'[Own(m)].state = "none" => request[Own(m)].state = "none"
    BY <1>1, AmountsTyped
  <2>4. n \in Nat
    BY <1>2
  <2> HIDE DEF n
  <2>5. /\ posted'[m] + Pending(m)' <= posted[m] + Pending(m)
        /\ Pending(m)' <= Pending(m) /\ Earlier(m)' <= Earlier(m)
        /\ posted'[m] + Pending(m)' \in Int /\ Pending(m)' \in Int /\ Earlier(m)' \in Int
    <3>1. /\ posted[m] \in Nat /\ Pending(m) \in Nat /\ Earlier(m) \in Nat
      BY AmountsTyped
    <3>2. Earlier(m)' = Earlier(m) \/ Earlier(m)' = Earlier(m) - n
      BY <2>1, <2>4, <3>1
    <3> QED
      BY <2>1, <2>2, <2>4, <3>1, <3>2
  <2>6. (posted[m] + Pending(m) <= Required[m] + spent[m])'
    BY <2>5, AmountsTyped DEF Fit
  <2>7. (Earlier(m) <= given[m])' /\ (HeardOf(m) => Pending(m) <= given[m])'
    BY <1>3, <2>5, AmountsTyped DEF Fit
  <2>8. (InHand(m) /\ request[Own(m)].state = "none" =>
             posted[m] + Pending(m) <= run.before + spent[m])'
    <3>1. ASSUME InHand(m), request[Own(m)].state = "none"
          PROVE  posted'[m] + Pending(m)' <= run.before + spent[m]
      <4>1. posted[m] + Pending(m) <= run.before + spent[m]
        BY <3>1 DEF Fit
      <4> QED
        BY <4>1, <2>5, AmountsTyped
    <3> QED
      BY <1>3, <2>3, <3>1
  <2>9. (InHand(m) /\ run.phase = "plan" /\ run.before >= Required[m] =>
             Pending(m) <= given[m])'
    <3>1. ASSUME InHand(m), run.phase = "plan", run.before >= Required[m]
          PROVE  Pending(m)' <= given[m]
      <4>1. Pending(m) <= given[m]
        BY <3>1 DEF Fit
      <4> QED
        BY <4>1, <2>5, AmountsTyped
    <3> QED
      BY <1>3, <3>1
  <2> QED
    BY <2>6, <2>7, <2>8, <2>9 DEF Fit
<1> QED
  BY <1>4, <1>5

LEMMA OutsideFits ==
    ASSUME FundingTyped, FundingTyped', UNCHANGED <<posted, circleVars, run, said>>,
           \A b \in Bids : given'[b] >= given[b] /\ spent'[b] >= spent[b],
           NEW m \in Bids, Fit(m)
    PROVE  Fit(m)'
<1>1. /\ DepositsSame(m) /\ request' = request /\ Own(m)' = Own(m)
      /\ (HeardOf(m)' <=> HeardOf(m)) /\ (InHand(m)' <=> InHand(m))
  BY DEF DepositsSame, circleVars, Own, HeardOf, InHand
<1>2. Pending(m)' = Pending(m) /\ Earlier(m)' = Earlier(m)
  BY <1>1, PendingSame DEF DepositsSame
<1>3. /\ given'[m] \in Nat /\ spent'[m] \in Nat
      /\ given'[m] >= given[m] /\ spent'[m] >= spent[m]
  BY DEF FundingTyped, FundingTypeOK
<1>4. (posted[m] + Pending(m) <= Required[m] + spent[m])'
  BY <1>2, <1>3, AmountsTyped DEF Fit
<1>5. (Earlier(m) <= given[m])' /\ (HeardOf(m) => Pending(m) <= given[m])'
  BY <1>1, <1>2, <1>3, AmountsTyped DEF Fit
<1>6. (InHand(m) /\ request[Own(m)].state = "none" =>
           posted[m] + Pending(m) <= run.before + spent[m])'
  BY <1>1, <1>2, <1>3, AmountsTyped DEF Fit
<1>7. (InHand(m) /\ run.phase = "plan" /\ run.before >= Required[m] =>
           Pending(m) <= given[m])'
  BY <1>1, <1>2, <1>3, AmountsTyped DEF Fit
<1> QED
  BY <1>4, <1>5, <1>6, <1>7 DEF Fit

-----------------------------------------------------------------------------
(* Every step.                                                              *)

LEMMA FundingTypedStep ==
    FundingTyped /\ [FundingNext]_fundingVars => FundingTyped' /\ Forward
<1> SUFFICES ASSUME FundingTyped, [FundingNext]_fundingVars
             PROVE  FundingTyped' /\ Forward
  OBVIOUS
<1>1. CASE UNCHANGED fundingVars
  <2>1. RunTyped /\ UNCHANGED <<chainVars, circleVars>>
    BY <1>1 DEF fundingVars, chainVars, circleVars, RunTyped, FundingTyped, FundingTypeOK
  <2> QED
    BY <2>1, FundingTypedKept
<1>2. ASSUME NEW k \in Keys, NEW targets \in SUBSET Bids, Start(k, targets)
      PROVE  FundingTyped' /\ Forward
  BY <1>2, StartShape, FundingTypedKept
<1>3. ASSUME NEW m \in Bids, ReadVault(m) PROVE FundingTyped' /\ Forward
  BY <1>3, ReadShape, FundingTypedKept
<1>4. CASE Finish \/ Die
  BY <1>4, StopShape, FundingTypedKept DEF Ends
<1>5. CASE Unreadable \/ PlanDeposit
  BY <1>5, PlanShape, FundingTypedKept
<1>6. CASE ApprovalAwaited
  BY <1>6, AwaitShape, FundingTypedKept
<1>7. CASE DepositAwaited
  BY <1>7, DepositShape, FundingTypedKept
<1>8. CASE Conclude
  BY <1>8, ConcludeShape, FundingTypedKept
<1>9. CASE Approve
  BY <1>9, ApproveShape
<1>10. CASE MakeDeposit
  BY <1>10, MakeShape
<1>11. CASE Land \/ \E n \in DOMAIN queue : Dropped(n)
  BY <1>11, AnswerShape
<1>12. ASSUME NEW m \in Bids, OthersDeposit(m) \/ Leaves(m) PROVE FundingTyped' /\ Forward
  BY <1>12, OutsideShape
<1> QED
  BY <1>1, <1>2, <1>3, <1>4, <1>5, <1>6, <1>7, <1>8, <1>9, <1>10, <1>11, <1>12
     DEF FundingNext, Command

LEMMA RunFitStep ==
    FundingTyped /\ RunFit /\ [FundingNext]_fundingVars => RunFit'
<1> SUFFICES ASSUME FundingTyped, RunFit, [FundingNext]_fundingVars PROVE RunFit'
  OBVIOUS
<1>1. Forward
  BY FundingTypedStep
<1>2. ASSUME run'.phase \in {"idle", "next", "plan"} PROVE RunFit'
  BY <1>2 DEF RunFit
<1>3. ASSUME UNCHANGED run PROVE RunFit'
  <2>1. Id("deposit") \in RequestIds /\ Id("deposit")' = Id("deposit")
    <3>1. run.key \in Keys /\ run.mandate \in Bids /\ "deposit" \in Writes
      BY DEF FundingTyped, FundingTypeOK, Run, Writes
    <3> QED
      BY <1>3, <3>1 DEF Id, RequestIds
  <2>2. run.result \in {"succeeded", "failed", "unknown"}
    BY DEF FundingTyped, FundingTypeOK, Run
  <2>3. run.phase = "recheck" /\ run.result # "unknown" =>
            request'[Id("deposit")].state = run.result
    BY <1>1, <2>1, <2>2 DEF RunFit, Forward
  <2> QED
    BY <1>3, <2>1, <2>3 DEF RunFit, Shortfall
<1>4. ASSUME Continues, run.phase # "plan", run'.amount = run.amount,
             \/ run'.phase # "recheck"
             \/ UNCHANGED circleVars /\ (run'.result # "unknown" =>
                                            request[Id("deposit")].state = run'.result)
      PROVE  RunFit'
  <2>1. Shortfall' = Shortfall /\ Id("deposit")' = Id("deposit")
        /\ run.amount = Shortfall
    BY <1>4 DEF Continues, Shortfall, Id, RunFit
  <2> QED
    BY <1>4, <2>1 DEF RunFit, circleVars
<1>5. CASE UNCHANGED fundingVars
  BY <1>3, <1>5 DEF fundingVars
<1>6. ASSUME NEW k \in Keys, NEW targets \in SUBSET Bids, Start(k, targets) PROVE RunFit'
  BY <1>2, <1>6, StartShape
<1>7. ASSUME NEW m \in Bids, ReadVault(m) PROVE RunFit'
  BY <1>2, <1>7, ReadShape
<1>8. CASE Finish \/ Die
  BY <1>2, <1>8, StopShape DEF Ends
<1>9. CASE Unreadable \/ PlanDeposit
  <2>1. CASE Continues /\ run'.phase \in {"approve", "deposit"} /\ run'.amount = Shortfall
    <3>1. Shortfall' = Shortfall
      BY <2>1 DEF Continues, Shortfall
    <3> QED
      BY <2>1, <3>1 DEF RunFit
  <2> QED
    BY <1>2, <1>9, <2>1, PlanShape DEF Ends
<1>10. CASE ApprovalAwaited
  BY <1>2, <1>4, <1>10, AwaitShape DEF Ends
<1>11. CASE DepositAwaited
  BY <1>4, <1>11, DepositShape
<1>12. CASE Conclude
  BY <1>2, <1>12, ConcludeShape DEF Ends
<1>13. CASE Approve
  BY <1>4, <1>13, ApproveShape
<1>14. CASE MakeDeposit
  BY <1>4, <1>14, MakeShape
<1>15. CASE Land \/ \E n \in DOMAIN queue : Dropped(n)
  BY <1>3, <1>15, AnswerShape
<1>16. ASSUME NEW m \in Bids, OthersDeposit(m) \/ Leaves(m) PROVE RunFit'
  BY <1>3, <1>16, OutsideShape
<1> QED
  BY <1>5, <1>6, <1>7, <1>8, <1>9, <1>10, <1>11, <1>12, <1>13, <1>14, <1>15, <1>16
     DEF FundingNext, Command

LEMMA FitStep ==
    ASSUME FundingTyped, RunFit, [FundingNext]_fundingVars, NEW m \in Bids, Fit(m),
           ~ToldNothingMoved(m)
    PROVE  Fit(m)'
<1>1. FundingTyped' /\ Forward
  BY FundingTypedStep
<1>2. request[Own(m)].state # "live" => Pending(m) <= given[m]
  BY AmountsTyped DEF Fit
<1>3. CASE UNCHANGED fundingVars
  <2>1. UNCHANGED <<posted, circleVars, run, said>> /\ UNCHANGED <<given, spent>>
    BY <1>3 DEF fundingVars, circleVars
  <2>2. \A b \in Bids : given'[b] >= given[b] /\ spent'[b] >= spent[b]
    BY <2>1 DEF FundingTyped, FundingTypeOK
  <2> QED
    BY <1>1, <2>1, <2>2, OutsideFits
<1>4. ASSUME NEW k \in Keys, NEW targets \in SUBSET Bids, Start(k, targets) PROVE Fit(m)'
  BY <1>4, StartFits
<1>5. ASSUME NEW n \in Bids, ReadVault(n) PROVE Fit(m)'
  BY <1>5, ReadFits
<1>6. CASE Finish \/ Die
  BY <1>6, StopShape, EndFits
<1>7. CASE Unreadable \/ PlanDeposit
  <2>1. run.phase = "plan" /\ UNCHANGED circleVars
    BY <1>7, PlanShape
  <2>2. CASE Ends(run.mandate, "backed") /\ Shortfall <= 0
    <3>1. ASSUME m = run.mandate PROVE Pending(m) <= given[m]
      <4>1. InHand(m) /\ run.before >= Required[m]
        BY <2>1, <2>2, <3>1, AmountsTyped DEF InHand, Phases, Shortfall
      <4> QED
        BY <2>1, <4>1 DEF Fit
    <3> QED
      BY <2>2, <3>1, EndFits
  <2>3. CASE Ends(run.mandate, said[run.mandate])
    BY <2>3, EndFits
  <2>4. CASE Continues /\ said' = said
    BY <2>1, <2>4, GoOnFits DEF DepositsSame, circleVars
  <2> QED
    BY <1>7, <2>2, <2>3, <2>4, PlanShape
<1>8. CASE ApprovalAwaited
  <2>1. UNCHANGED circleVars
    BY <1>8, AwaitShape
  <2>2. CASE Continues /\ said' = said
    BY <2>1, <2>2, GoOnFits DEF DepositsSame, circleVars
  <2>3. CASE Ends(run.mandate, "failed") /\ request[Id("approve")].state = "failed"
    <3>1. ASSUME m = run.mandate PROVE request[Own(m)].state = "none"
      BY <2>3, <3>1, AmountsTyped DEF Id, Own, ToldNothingMoved
    <3> QED
      BY <1>2, <2>3, <3>1, EndFits
  <2>4. CASE Ends(run.mandate, "unknown")
    BY <2>4, EndFits
  <2> QED
    BY <1>8, <2>2, <2>3, <2>4, AwaitShape
<1>9. CASE DepositAwaited
  BY <1>9, DepositShape, GoOnFits DEF DepositsSame, circleVars
<1>10. CASE Conclude
  <2>1. run.phase = "recheck"
    BY <1>10, ConcludeShape
  <2>2. CASE Ends(run.mandate, "failed") /\ run.result = "failed"
    <3>1. ASSUME m = run.mandate PROVE request[Own(m)].state = "failed"
      BY <2>1, <2>2, <3>1, AmountsTyped DEF RunFit
    <3> QED
      BY <1>2, <2>2, <3>1, EndFits
  <2>3. CASE Ends(run.mandate, "deposited") /\ (run.result = "succeeded" \/ Landed)
    <3>1. ASSUME m = run.mandate PROVE Pending(m) <= given[m]
      <4>1. CASE run.result = "succeeded"
        <5>1. request[Own(m)].state = "succeeded"
          BY <2>1, <3>1, <4>1, AmountsTyped DEF RunFit
        <5> QED
          BY <1>2, <5>1
      <4>2. CASE Landed
        <5>1. run.amount = Required[m] - run.before
          BY <2>1, <3>1 DEF RunFit, Shortfall, Phases
        <5>2. posted[m] + given[m] - spent[m] >= run.before + run.amount
          BY <3>1, <4>2, AmountsTyped DEF Landed
        <5>3. posted[m] + Pending(m) <= Required[m] + spent[m]
          BY DEF Fit
        <5> QED
          BY <5>1, <5>2, <5>3, AmountsTyped
      <4> QED
        BY <2>3, <4>1, <4>2
    <3> QED
      BY <2>3, <3>1, EndFits
  <2>4. CASE Ends(run.mandate, "unknown")
    BY <2>4, EndFits
  <2> QED
    BY <1>10, <2>2, <2>3, <2>4, ConcludeShape
<1>11. CASE Approve
  <2>1. /\ Continues /\ DepositsSame(m)
        /\ said'[m] = said[m] \/ said'[m] = "begun"
    BY <1>11, ApproveShape DEF DepositsSame
  <2> QED
    BY <2>1, GoOnFits
<1>12. CASE MakeDeposit
  BY <1>12, MakeFits
<1>13. CASE Land \/ \E n \in DOMAIN queue : Dropped(n)
  BY <1>13, AnswerShape, AnswerFits
<1>14. ASSUME NEW n \in Bids, OthersDeposit(n) \/ Leaves(n) PROVE Fit(m)'
  BY <1>1, <1>14, OutsideShape, OutsideFits
<1> QED
  BY <1>3, <1>4, <1>5, <1>6, <1>7, <1>8, <1>9, <1>10, <1>11, <1>12, <1>13, <1>14
     DEF FundingNext, Command

LEMMA FundingInvInit == FundingInit => FundingInv
<1> SUFFICES ASSUME FundingInit PROVE FundingInv
  OBVIOUS
<1>1. /\ (CHOOSE k \in Keys : TRUE) \in Keys /\ (CHOOSE m \in Bids : TRUE) \in Bids
  BY FundingAssumption
<1>2. /\ request \in [RequestIds -> Request]
      /\ \A id \in RequestIds : request[id].state = "none"
      /\ queue = <<>> /\ queue \in Seq(RequestIds) /\ Len(queue) = 0
      /\ Range(queue) = {}
  BY EmptySeq DEF FundingInit, Request, Range
<1>3. run \in Run /\ run.phase = "idle"
  BY <1>1 DEF FundingInit, Run, Phases
<1>4. /\ wallet \in Nat /\ allowance \in Nat
      /\ posted \in [Bids -> Nat] /\ given \in [Bids -> Nat] /\ spent \in [Bids -> Nat]
      /\ \A m \in Bids : posted[m] = 0 /\ given[m] = 0 /\ spent[m] = 0
      /\ said \in [Bids -> Said] /\ runs \in 0..Runs
  BY FundingAssumption DEF FundingInit, Said
<1>5. FundingTyped
  BY <1>2, <1>3, <1>4 DEF FundingTyped, FundingTypeOK, QueueFit, BalanceOf
<1>6. RunFit
  BY <1>3 DEF RunFit
<1>7. ASSUME NEW m \in Bids PROVE Fit(m)
  <2>1. Awaited(m) = {}
    BY <1>2 DEF Awaited
  <2>2. Total(Sizes, {}) = 0
    BY TotalEmpty
  <2>3. Pending(m) = 0 /\ Earlier(m) = 0
    BY <2>1, <2>2 DEF Pending, Earlier
  <2>4. ~InHand(m) /\ Required[m] \in Nat
    BY <1>3, FundingAssumption DEF InHand
  <2> QED
    BY <1>4, <2>3, <2>4 DEF Fit
<1> QED
  BY <1>5, <1>6, <1>7 DEF FundingInv

LEMMA FundingInvStep == FundingInv /\ [FundingNext]_fundingVars => FundingInv'
<1> SUFFICES ASSUME FundingInv, [FundingNext]_fundingVars PROVE FundingInv'
  OBVIOUS
<1>1. FundingTyped /\ RunFit /\ \A m \in Bids : Fit(m) \/ ToldNothingMoved(m)
  BY DEF FundingInv
<1>2. FundingTyped' /\ Forward /\ RunFit'
  BY <1>1, FundingTypedStep, RunFitStep
<1>3. ASSUME NEW m \in Bids PROVE Fit(m)' \/ ToldNothingMoved(m)'
  BY <1>1, <1>2, FitStep, ToldStays
<1> QED
  BY <1>2, <1>3 DEF FundingInv

(* The state the agent and Circle keep is well formed in every run.         *)
THEOREM FundingTypes == FundingSpec => []FundingTypeOK
<1>1. FundingInv => FundingTypeOK
  BY DEF FundingInv, FundingTyped
<1> QED
  BY FundingInvInit, FundingInvStep, <1>1, PTL DEF FundingSpec

(* The agent's funding command makes up no shortfall twice: whatever times  *)
(* out, dies, is refused, lands late or is resumed, the wallet puts no more *)
(* behind a mandate than was asked of it and has left since, unless a       *)
(* resumed run failed to approve and said that nothing moved.               *)
THEOREM ShortfallMadeUpOnce == FundingSpec => []NothingPostedTwice
<1>1. FundingInv => NothingPostedTwice
  <2> SUFFICES ASSUME FundingInv, NEW m \in Bids, ~ToldNothingMoved(m)
               PROVE  posted[m] <= Required[m] + spent[m]
    BY DEF NothingPostedTwice
  <2>1. FundingTyped /\ Fit(m)
    BY DEF FundingInv
  <2>2. posted[m] + Pending(m) <= Required[m] + spent[m]
    BY <2>1 DEF Fit
  <2> QED
    BY <2>1, <2>2, AmountsTyped
<1> QED
  BY FundingInvInit, FundingInvStep, <1>1, PTL DEF FundingSpec

-----------------------------------------------------------------------------
(* The vault and its escrow (MandateVault).                                 *)

USE EscrowAssumption, VaultAssumption

(* The payout a lock of the vault was opened for.                           *)
OfVault(l) == lock[l].depositor = Vault
For(l) == payout[lock[l].ref]

(* A lock that was never opened is blank, and only a claim publishes.       *)
Blank == \A l \in LockIds :
             /\ lock[l].status = "none" => lock[l].depositor = Null
             /\ revealed[l] # Null <=> lock[l].status = "claimed"

(* A record that has a seller was bound in full, and only such a record is  *)
(* ever paid out.                                                           *)
Whole == \A x \in Matches :
             /\ payout[x].seller # Null =>
                    payout[x].mandate \in Mandates /\ payout[x].price > 0
             /\ payout[x].executed => payout[x].seller # Null

(* A lock of the vault is one executed payout, and the only lock of it.     *)
OneEach ==
    \A l \in LockIds : OfVault(l) =>
        /\ lock[l].ref \in Matches
        /\ For(l).executed
        /\ lock[l].beneficiary = For(l).seller
        /\ lock[l].amount = For(l).price
        /\ \A k \in LockIds : OfVault(k) /\ lock[k].ref = lock[l].ref => k = l

Links == Blank /\ Whole /\ OneEach /\ Reclaimable
VaultInv == TypeOK /\ Links

-----------------------------------------------------------------------------
(* Types.                                                                   *)

LEMMA Outsiders ==
    /\ Null \notin Holders /\ Null \notin Users
    /\ Users \subseteq Holders /\ Vault \in Holders /\ Escrow \in Holders
BY DEF Holders

LEMMA NoLockTyped == NoLock \in Lock
BY DEF NoLock, Lock

LEMMA NoPayoutTyped == NoPayout \in Payout
BY DEF NoPayout, Payout

LEMMA TransferTyped ==
    ASSUME EscrowTypeOK, NEW from \in Holders, NEW to \in Holders, NEW n \in Nat,
           Transfer(from, to, n)
    PROVE  token' \in [Holders -> Nat]
<1>1. token \in [Holders -> Nat] /\ token[from] - n \in Nat
  BY DEF EscrowTypeOK, Transfer
<1>2. \A f \in [Holders -> Nat] : [f EXCEPT ![to] = @ + n] \in [Holders -> Nat]
  OBVIOUS
<1>3. [token EXCEPT ![from] = @ - n] \in [Holders -> Nat]
  BY <1>1
<1> QED
  BY <1>1, <1>2, <1>3 DEF Transfer

LEMMA OpenTyped ==
    ASSUME EscrowTypeOK,
           NEW from \in Holders, NEW l \in LockIds, NEW secret \in Secrets,
           NEW ref \in Matches, NEW to \in Holders, NEW n \in Nat, NEW t \in Nat,
           OpenLock(from, l, secret, ref, to, n, t)
    PROVE  EscrowTypeOK'
<1> DEFINE new == [status |-> "locked", secret |-> secret, ref |-> ref,
                   depositor |-> from, beneficiary |-> to, amount |-> n,
                   timeout |-> t]
<1>1. new \in Lock
  BY DEF Lock
<1>2. lock' \in [LockIds -> Lock]
  <2>1. lock' = [lock EXCEPT ![l] = new]
    BY DEF OpenLock
  <2> HIDE DEF new
  <2> QED
    BY <1>1, <2>1 DEF EscrowTypeOK
<1>3. token' \in [Holders -> Nat]
  BY TransferTyped, Outsiders DEF OpenLock
<1> QED
  BY <1>2, <1>3 DEF OpenLock, EscrowTypeOK

LEMMA ClaimTyped ==
    ASSUME EscrowTypeOK, NEW u \in Users, NEW l \in LockIds, NEW secret \in Secrets,
           Claim(u, l, secret)
    PROVE  EscrowTypeOK'
<1>1. lock[l] \in Lock
  BY DEF EscrowTypeOK
<1>2. lock' \in [LockIds -> Lock]
  <2>1. [lock[l] EXCEPT !.status = "claimed"] \in Lock
    BY <1>1 DEF Lock
  <2>2. lock' = [lock EXCEPT ![l] = [lock[l] EXCEPT !.status = "claimed"]]
    BY DEF Claim
  <2> QED
    BY <2>1, <2>2 DEF EscrowTypeOK
<1>3. token' \in [Holders -> Nat]
  BY <1>1, TransferTyped, Outsiders DEF Claim, Lock
<1> QED
  BY <1>2, <1>3 DEF Claim, EscrowTypeOK

LEMMA RefundTyped ==
    ASSUME EscrowTypeOK, NEW u \in Holders, NEW l \in LockIds, Refund(u, l)
    PROVE  EscrowTypeOK'
<1>1. lock[l] \in Lock
  BY DEF EscrowTypeOK
<1>2. lock' \in [LockIds -> Lock]
  <2>1. [lock[l] EXCEPT !.status = "refunded"] \in Lock
    BY <1>1 DEF Lock
  <2>2. lock' = [lock EXCEPT ![l] = [lock[l] EXCEPT !.status = "refunded"]]
    BY DEF Refund
  <2> QED
    BY <2>1, <2>2 DEF EscrowTypeOK
<1>3. token' \in [Holders -> Nat]
  BY <1>1, TransferTyped, Outsiders DEF Refund, Lock
<1> QED
  BY <1>2, <1>3 DEF Refund, EscrowTypeOK

LEMMA ConsumeTyped ==
    ASSUME TypeOK, NEW a \in AuthIds, NEW m \in Mandates, NEW n \in Nat,
           Consume(a, m, n)
    PROVE  balance' \in [Mandates -> Nat] /\ consumed' \subseteq AuthIds
BY DEF Consume, TypeOK

LEMMA TypeStep ==
    ASSUME VaultInv, Next
    PROVE  TypeOK'
<1>0. TypeOK /\ EscrowTypeOK /\ Whole
  BY DEF VaultInv, Links, TypeOK
<1>1. ASSUME NEW u \in Users, NEW v \in Users, Administration(u, v)
      PROVE  TypeOK'
  BY <1>0, <1>1 DEF Administration, SetAttester, TransferOwnership, TypeOK,
                    EscrowTypeOK, vaultVars, escrowVars
<1>2. ASSUME NEW u \in Users, Relayed(u)
      PROVE  TypeOK'
  <2>1. ASSUME NEW m \in Mandates, NEW b \in Users, RegisterMandate(u, m, b)
        PROVE  TypeOK'
    BY <1>0, <2>1 DEF RegisterMandate, TypeOK, EscrowTypeOK, roleVars, escrowVars
  <2>2. ASSUME NEW x \in Matches, NEW m \in Mandates, NEW s \in Users,
               NEW n \in Amounts, RegisterMatch(u, x, m, s, n)
        PROVE  TypeOK'
    <3> DEFINE new == [mandate |-> m, seller |-> s, price |-> n, executed |-> FALSE]
    <3>1. new \in Payout
      BY DEF Payout
    <3>2. payout' = [payout EXCEPT ![x] = new]
      BY <2>2 DEF RegisterMatch
    <3> HIDE DEF new
    <3>3. payout' \in [Matches -> Payout]
      BY <1>0, <3>1, <3>2 DEF TypeOK
    <3> QED
      BY <1>0, <2>2, <3>3 DEF RegisterMatch, TypeOK, EscrowTypeOK, roleVars, escrowVars
  <2>3. ASSUME NEW a \in AuthIds, NEW m \in Mandates, NEW n \in Amounts,
               ExecuteRelease(u, a, m, n)
        PROVE  TypeOK'
    <3>1. buyer[m] \in Holders /\ n \in Nat
      BY <1>0, <2>3, Outsiders DEF TypeOK, ExecuteRelease
    <3>2. token' \in [Holders -> Nat]
      BY <1>0, <2>3, <3>1, TransferTyped, Outsiders DEF ExecuteRelease
    <3>3. balance' \in [Mandates -> Nat] /\ consumed' \subseteq AuthIds
      BY <1>0, <2>3, <3>1, ConsumeTyped DEF ExecuteRelease
    <3> QED
      BY <1>0, <2>3, <3>2, <3>3 DEF ExecuteRelease, TypeOK, EscrowTypeOK, roleVars
  <2>4. ASSUME NEW a \in AuthIds, NEW x \in Matches, NEW l \in LockIds,
               NEW k \in Secrets, ExecutePayout(u, a, x, l, k)
        PROVE  TypeOK'
    <3> DEFINE p == payout[x]
    <3>1. p \in Payout /\ p.seller \in Users /\ p.price \in Nat /\ p.mandate \in Mandates
      BY <1>0, <2>4 DEF ExecutePayout, TypeOK, Payout, Whole
    <3>2. now + PayoutWindow \in Nat
      BY <1>0 DEF EscrowTypeOK
    <3>3. EscrowTypeOK'
      BY <1>0, <2>4, <3>1, <3>2, OpenTyped, Outsiders DEF ExecutePayout
    <3>4. balance' \in [Mandates -> Nat] /\ consumed' \subseteq AuthIds
      BY <1>0, <2>4, <3>1, ConsumeTyped DEF ExecutePayout
    <3>5. payout' \in [Matches -> Payout]
      <4>1. [p EXCEPT !.executed = TRUE] \in Payout
        BY <3>1 DEF Payout
      <4>2. payout' = [payout EXCEPT ![x] = [p EXCEPT !.executed = TRUE]]
        BY <2>4 DEF ExecutePayout
      <4> HIDE DEF p
      <4> QED
        BY <1>0, <4>1, <4>2 DEF TypeOK
    <3>6. payoutLock' \in [LockIds -> Matches \cup {Null}]
      BY <1>0, <2>4 DEF ExecutePayout, TypeOK
    <3> QED
      BY <1>0, <2>4, <3>3, <3>4, <3>5, <3>6 DEF ExecutePayout, TypeOK, roleVars
  <2> QED
    BY <1>2, <2>1, <2>2, <2>3, <2>4 DEF Relayed
<1>3. ASSUME NEW u \in Users, Escrowed(u)
      PROVE  TypeOK'
  <2>1. EscrowTypeOK'
    <3>1. ASSUME NEW l \in LockIds, NEW k \in Secrets, NEW x \in Matches,
                 NEW v \in Users, NEW n \in Amounts, NEW d \in Durations,
                 OpenLock(u, l, k, x, v, n, now + d)
          PROVE  EscrowTypeOK'
      <4>1. n \in Nat /\ now + d \in Nat
        BY <1>0 DEF EscrowTypeOK
      <4> QED
        BY <1>0, <3>1, <4>1, OpenTyped, Outsiders
    <3>2. ASSUME NEW l \in LockIds, NEW k \in Secrets, Claim(u, l, k)
          PROVE  EscrowTypeOK'
      BY <1>0, <3>2, ClaimTyped
    <3>3. ASSUME NEW l \in LockIds, Refund(u, l)
          PROVE  EscrowTypeOK'
      BY <1>0, <3>3, RefundTyped, Outsiders
    <3> QED
      BY <1>3, <3>1, <3>2, <3>3 DEF Escrowed
  <2> QED
    BY <1>0, <1>3, <2>1 DEF Escrowed, TypeOK, vaultVars, roleVars
<1>4. ASSUME NEW u \in Users, NEW m \in Mandates, NEW n \in Amounts, Deposit(u, m, n)
      PROVE  TypeOK'
  <2>1. token' \in [Holders -> Nat]
    BY <1>0, <1>4, TransferTyped, Outsiders DEF Deposit
  <2>2. balance' \in [Mandates -> Nat]
    BY <1>0, <1>4 DEF Deposit, TypeOK
  <2> QED
    BY <1>0, <1>4, <2>1, <2>2 DEF Deposit, TypeOK, EscrowTypeOK, roleVars
<1>5. ASSUME NEW l \in LockIds, ReclaimPayout(l)
      PROVE  TypeOK'
  <2> DEFINE p == payout[payoutLock[l]]
  <2>1. p \in Payout /\ p.price \in Nat
    BY <1>0, <1>5 DEF ReclaimPayout, TypeOK, Payout
  <2>2. EscrowTypeOK'
    BY <1>0, <1>5, RefundTyped, Outsiders DEF ReclaimPayout
  <2>3. balance' \in [Mandates -> Nat]
    <3>1. balance' = [balance EXCEPT ![p.mandate] = balance[p.mandate] + p.price]
      BY <1>5 DEF ReclaimPayout
    <3>2. p.mandate \in Mandates => balance[p.mandate] + p.price \in Nat
      BY <1>0, <2>1 DEF TypeOK
    <3> HIDE DEF p
    <3> QED
      BY <1>0, <3>1, <3>2 DEF TypeOK
  <2>4. payoutLock' \in [LockIds -> Matches \cup {Null}]
    BY <1>0, <1>5 DEF ReclaimPayout, TypeOK
  <2> QED
    BY <1>0, <1>5, <2>2, <2>3, <2>4 DEF ReclaimPayout, TypeOK, roleVars
<1>6. CASE Tick /\ UNCHANGED <<vaultVars, roleVars>>
  BY <1>0, <1>6 DEF Tick, TypeOK, EscrowTypeOK, vaultVars, roleVars, escrowVars
<1> QED
  BY <1>1, <1>2, <1>3, <1>4, <1>5, <1>6 DEF Next

-----------------------------------------------------------------------------
(* How the records and the locks hang together, action by action.           *)

LEMMA LinksQuiet ==
    ASSUME VaultInv, UNCHANGED <<lock, revealed, payout, payoutLock>>
    PROVE  Links'
BY DEF VaultInv, Links, Blank, Whole, OneEach, OfVault, For, Reclaimable

LEMMA LinksRegister ==
    ASSUME VaultInv, NEW u \in Users, NEW x \in Matches, NEW m \in Mandates,
           NEW s \in Users, NEW n \in Amounts, RegisterMatch(u, x, m, s, n)
    PROVE  Links'
<1>1. /\ UNCHANGED <<lock, revealed, payoutLock>>
      /\ payout[x].seller = Null /\ n > 0
      /\ payout' = [payout EXCEPT ![x] = [mandate |-> m, seller |-> s, price |-> n,
                                          executed |-> FALSE]]
  BY DEF RegisterMatch, escrowVars
<1>2. /\ payout'[x].mandate = m /\ payout'[x].seller = s /\ payout'[x].price = n
      /\ ~payout'[x].executed
      /\ \A y \in Matches \ {x} : payout'[y] = payout[y]
  BY <1>1 DEF VaultInv, TypeOK
<1>3. ~payout[x].executed
  BY <1>1 DEF VaultInv, Links, Whole
<1>4. Blank' /\ Reclaimable'
  BY <1>1 DEF VaultInv, Links, Blank, Reclaimable
<1>5. Whole'
  BY <1>1, <1>2 DEF VaultInv, Links, Whole
<1>6. OneEach'
  <2>1. \A l \in LockIds : OfVault(l) => For(l)' = For(l)
    BY <1>1, <1>2, <1>3 DEF VaultInv, Links, OneEach, For
  <2> QED
    BY <1>1, <2>1 DEF VaultInv, Links, OneEach, OfVault
<1> QED
  BY <1>4, <1>5, <1>6 DEF Links

(* A lock opened by a wallet is none of the vault's.                        *)
LEMMA LinksOpen ==
    ASSUME VaultInv, NEW u \in Users, NEW l \in LockIds, NEW k \in Secrets,
           NEW x \in Matches, NEW v \in Users, NEW n \in Amounts,
           NEW d \in Durations, OpenLock(u, l, k, x, v, n, now + d),
           UNCHANGED vaultVars
    PROVE  Links'
<1>1. UNCHANGED <<revealed, payout, payoutLock>> /\ lock[l].status = "none"
  BY DEF OpenLock, vaultVars
<1>2. /\ lock'[l].status = "locked" /\ lock'[l].depositor = u
      /\ \A j \in LockIds \ {l} : lock'[j] = lock[j]
  BY DEF OpenLock, VaultInv, TypeOK, EscrowTypeOK
<1>3. u # Vault
  BY Outsiders
<1>4. Blank'
  BY <1>1, <1>2 DEF VaultInv, Links, Blank
<1>5. Whole'
  BY <1>1 DEF VaultInv, Links, Whole
<1>6. OneEach'
  BY <1>1, <1>2, <1>3 DEF VaultInv, Links, OneEach, OfVault, For
<1>7. Reclaimable'
  BY <1>1, <1>2, <1>3 DEF VaultInv, Links, Reclaimable
<1> QED
  BY <1>4, <1>5, <1>6, <1>7 DEF Links

LEMMA LinksPayout ==
    ASSUME VaultInv, NEW u \in Users, NEW a \in AuthIds, NEW x \in Matches,
           NEW l \in LockIds, NEW k \in Secrets, ExecutePayout(u, a, x, l, k)
    PROVE  Links'
<1>1. /\ UNCHANGED revealed
      /\ lock[l].status = "none"
      /\ payout[x].seller # Null /\ ~payout[x].executed
  BY DEF ExecutePayout, OpenLock
<1>2. /\ lock'[l].status = "locked" /\ lock'[l].depositor = Vault
      /\ lock'[l].ref = x /\ lock'[l].beneficiary = payout[x].seller
      /\ lock'[l].amount = payout[x].price
      /\ \A j \in LockIds \ {l} : lock'[j] = lock[j]
  BY DEF ExecutePayout, OpenLock, VaultInv, TypeOK, EscrowTypeOK
<1>3. /\ payoutLock'[l] = x
      /\ \A j \in LockIds \ {l} : payoutLock'[j] = payoutLock[j]
  BY DEF ExecutePayout, VaultInv, TypeOK
<1>4. /\ payout'[x].executed
      /\ \A y \in Matches :
             /\ payout'[y].mandate = payout[y].mandate
             /\ payout'[y].seller = payout[y].seller
             /\ payout'[y].price = payout[y].price
             /\ y # x => payout'[y] = payout[y]
  BY DEF ExecutePayout, VaultInv, TypeOK, Payout
<1>5. Blank'
  BY <1>1, <1>2 DEF VaultInv, Links, Blank
<1>6. Whole'
  BY <1>1, <1>4 DEF VaultInv, Links, Whole
<1>7. OneEach'
  <2>1. \A j \in LockIds \ {l} : OfVault(j) => lock[j].ref \in Matches \ {x}
    BY <1>1 DEF VaultInv, Links, OneEach, OfVault, For
  <2> QED
    BY <1>2, <1>4, <2>1 DEF VaultInv, Links, OneEach, OfVault, For
<1>8. Reclaimable'
  BY <1>2, <1>3 DEF VaultInv, Links, Reclaimable
<1> QED
  BY <1>5, <1>6, <1>7, <1>8 DEF Links

LEMMA LinksClaim ==
    ASSUME VaultInv, NEW u \in Users, NEW l \in LockIds, NEW k \in Secrets,
           Claim(u, l, k), UNCHANGED vaultVars
    PROVE  Links'
<1>1. UNCHANGED <<payout, payoutLock>> /\ lock[l].status = "locked"
  BY DEF Claim, vaultVars
<1>2. /\ lock'[l].status = "claimed" /\ revealed'[l] # Null
      /\ \A j \in LockIds \ {l} : lock'[j] = lock[j] /\ revealed'[j] = revealed[j]
      /\ \A j \in LockIds : /\ lock'[j].depositor = lock[j].depositor
                            /\ lock'[j].ref = lock[j].ref
                            /\ lock'[j].beneficiary = lock[j].beneficiary
                            /\ lock'[j].amount = lock[j].amount
  BY DEF Claim, VaultInv, TypeOK, EscrowTypeOK, Lock
<1>3. Blank'
  BY <1>1, <1>2 DEF VaultInv, Links, Blank
<1>4. Whole'
  BY <1>1 DEF VaultInv, Links, Whole
<1>5. OneEach'
  BY <1>1, <1>2 DEF VaultInv, Links, OneEach, OfVault, For
<1>6. Reclaimable'
  BY <1>1, <1>2 DEF VaultInv, Links, Reclaimable
<1> QED
  BY <1>3, <1>4, <1>5, <1>6 DEF Links

(* Whoever takes it back, and whatever the vault forgets of that lock.      *)
LEMMA LinksRefund ==
    ASSUME VaultInv, NEW u \in Holders, NEW l \in LockIds, Refund(u, l),
           UNCHANGED payout,
           \A j \in LockIds \ {l} : payoutLock'[j] = payoutLock[j]
    PROVE  Links'
<1>1. UNCHANGED revealed /\ lock[l].status = "locked"
  BY DEF Refund
<1>2. /\ lock'[l].status = "refunded"
      /\ \A j \in LockIds \ {l} : lock'[j] = lock[j]
      /\ \A j \in LockIds : /\ lock'[j].depositor = lock[j].depositor
                            /\ lock'[j].ref = lock[j].ref
                            /\ lock'[j].beneficiary = lock[j].beneficiary
                            /\ lock'[j].amount = lock[j].amount
  BY DEF Refund, VaultInv, TypeOK, EscrowTypeOK, Lock
<1>3. Blank'
  BY <1>1, <1>2 DEF VaultInv, Links, Blank
<1>4. Whole'
  BY DEF VaultInv, Links, Whole
<1>5. OneEach'
  BY <1>2 DEF VaultInv, Links, OneEach, OfVault, For
<1>6. Reclaimable'
  BY <1>2 DEF VaultInv, Links, Reclaimable
<1> QED
  BY <1>3, <1>4, <1>5, <1>6 DEF Links

LEMMA LinksStep ==
    ASSUME VaultInv, Next
    PROVE  Links'
<1>1. ASSUME NEW u \in Users, NEW v \in Users, Administration(u, v)
      PROVE  Links'
  BY <1>1, LinksQuiet DEF Administration, SetAttester, TransferOwnership,
                          vaultVars, escrowVars
<1>2. ASSUME NEW u \in Users, Relayed(u)
      PROVE  Links'
  <2>1. ASSUME NEW m \in Mandates, NEW b \in Users, RegisterMandate(u, m, b)
        PROVE  Links'
    BY <2>1, LinksQuiet DEF RegisterMandate, escrowVars
  <2>2. ASSUME NEW a \in AuthIds, NEW m \in Mandates, NEW n \in Amounts,
               ExecuteRelease(u, a, m, n)
        PROVE  Links'
    BY <2>2, LinksQuiet DEF ExecuteRelease
  <2> QED
    BY <1>2, <2>1, <2>2, LinksRegister, LinksPayout DEF Relayed
<1>3. ASSUME NEW u \in Users, Escrowed(u)
      PROVE  Links'
  <2>1. UNCHANGED vaultVars
    BY <1>3 DEF Escrowed
  <2>2. ASSUME NEW l \in LockIds, Refund(u, l)
        PROVE  Links'
    BY <2>1, <2>2, LinksRefund, Outsiders DEF vaultVars
  <2> QED
    BY <1>3, <2>1, <2>2, LinksOpen, LinksClaim DEF Escrowed
<1>4. ASSUME NEW u \in Users, NEW m \in Mandates, NEW n \in Amounts, Deposit(u, m, n)
      PROVE  Links'
  BY <1>4, LinksQuiet DEF Deposit
<1>5. ASSUME NEW l \in LockIds, ReclaimPayout(l)
      PROVE  Links'
  <2>1. UNCHANGED payout /\ Refund(Vault, l)
    BY <1>5 DEF ReclaimPayout
  <2>2. \A j \in LockIds \ {l} : payoutLock'[j] = payoutLock[j]
    BY <1>5 DEF ReclaimPayout, VaultInv, TypeOK
  <2> QED
    BY <2>1, <2>2, LinksRefund, Outsiders
<1>6. CASE Tick /\ UNCHANGED <<vaultVars, roleVars>>
  BY <1>6, LinksQuiet DEF Tick, vaultVars, escrowVars
<1> QED
  BY <1>1, <1>2, <1>3, <1>4, <1>5, <1>6 DEF Next

-----------------------------------------------------------------------------

THEOREM VaultInvariant == Spec => []VaultInv
<1>1. Init => VaultInv
  <2> SUFFICES ASSUME Init PROVE VaultInv
    OBVIOUS
  <2>1. TypeOK
    BY NoLockTyped, NoPayoutTyped, Outsiders DEF Init, EscrowInit, TypeOK, EscrowTypeOK
  <2>2. /\ \A l \in LockIds : lock[l] = NoLock /\ revealed[l] = Null
        /\ \A x \in Matches : payout[x] = NoPayout
    BY DEF Init, EscrowInit
  <2>3. Links
    BY <2>2, Outsiders DEF Links, Blank, Whole, OneEach, OfVault, Reclaimable,
                           NoLock, NoPayout
  <2> QED
    BY <2>1, <2>3 DEF VaultInv
<1>2. VaultInv /\ [Next]_vars => VaultInv'
  <2> SUFFICES ASSUME VaultInv, [Next]_vars PROVE VaultInv'
    OBVIOUS
  <2>1. CASE Next
    BY <2>1, TypeStep, LinksStep DEF VaultInv
  <2>2. CASE UNCHANGED vars
    <3>1. TypeOK'
      BY <2>2 DEF vars, VaultInv, TypeOK, EscrowTypeOK
    <3>2. Links'
      BY <2>2, LinksQuiet DEF vars
    <3> QED
      BY <3>1, <3>2 DEF VaultInv
  <2> QED
    BY <2>1, <2>2
<1> QED
  BY <1>1, <1>2, PTL DEF Spec

(* Every lock, record and balance has its type, so no balance of a mandate  *)
(* and no holding of a token ever goes below zero.                          *)
THEOREM VaultTyped == Spec => []TypeOK
<1>1. VaultInv => TypeOK
  BY DEF VaultInv
<1> QED
  BY <1>1, VaultInvariant, PTL

(* One match, at most one payout, as it was bound.                          *)
THEOREM PayoutAsBound == Spec => []PaidAsBound
<1>1. VaultInv => PaidAsBound
  BY DEF VaultInv, Links, OneEach, OfVault, For, PaidAsBound, PayoutLocks
<1> QED
  BY <1>1, VaultInvariant, PTL

(* The vault can always trace an unclaimed payout back to its match.        *)
THEOREM PayoutTraceable == Spec => []Reclaimable
<1>1. VaultInv => Reclaimable
  BY DEF VaultInv, Links
<1> QED
  BY <1>1, VaultInvariant, PTL

-----------------------------------------------------------------------------
(* Solvency.                                                                *)

SolventInv == VaultInv /\ Solvent

LEMMA TransferMoves ==
    ASSUME TypeOK, NEW from \in Holders, NEW to \in Holders, from # to, NEW n \in Nat,
           Transfer(from, to, n)
    PROVE  /\ token'[from] = token[from] - n
           /\ token'[to] = token[to] + n
           /\ \A h \in Holders \ {from, to} : token'[h] = token[h]
<1>1. token \in [Holders -> Nat]
  BY DEF TypeOK, EscrowTypeOK
<1>2. token' = [[token EXCEPT ![from] = token[from] - n] EXCEPT ![to] = token[to] + n]
  BY <1>1 DEF Transfer
<1> QED
  BY <1>1, <1>2

LEMMA LocksFinite ==
    ASSUME TypeOK
    PROVE  /\ IsFiniteSet(Locked) /\ Locked \subseteq LockIds
           /\ \A l \in LockIds : AmountOf[l] = lock[l].amount /\ AmountOf[l] \in Nat
<1>1. Locked \subseteq LockIds /\ IsFiniteSet(LockIds)
  BY DEF Locked, EscrowAssumption
<1>2. IsFiniteSet(Locked)
  BY <1>1, FS_Subset
<1>3. \A l \in LockIds : lock[l] \in Lock
  BY DEF TypeOK, EscrowTypeOK
<1> QED
  BY <1>1, <1>2, <1>3 DEF AmountOf, Lock

LEMMA SumsTyped ==
    ASSUME TypeOK
    PROVE  /\ token[Vault] \in Nat /\ token[Escrow] \in Nat
           /\ Total(AmountOf, Locked) \in Nat /\ Total(balance, Mandates) \in Nat
<1>1. token[Vault] \in Nat /\ token[Escrow] \in Nat
  BY DEF TypeOK, EscrowTypeOK, Holders
<1>2. Total(AmountOf, Locked) \in Nat
  BY LocksFinite, TotalNat
<1>3. \A m \in Mandates : balance[m] \in Nat
  BY DEF TypeOK
<1>4. Total(balance, Mandates) \in Nat
  BY <1>3, TotalNat
<1> QED
  BY <1>1, <1>2, <1>4

LEMMA LockOpens ==
    ASSUME TypeOK, TypeOK', NEW l \in LockIds, NEW n \in Nat,
           lock[l].status # "locked", lock'[l].status = "locked", lock'[l].amount = n,
           \A j \in LockIds \ {l} : lock'[j] = lock[j]
    PROVE  Total(AmountOf, Locked)' = Total(AmountOf, Locked) + n
<1>1. l \notin Locked /\ Locked' = Locked \cup {l}
  BY DEF Locked
<1>2. \A j \in Locked : AmountOf'[j] = AmountOf[j]
  BY <1>1 DEF AmountOf, Locked
<1>3. AmountOf'[l] = n
  BY DEF AmountOf
<1>4. \A j \in Locked \cup {l} : AmountOf'[j] \in Int
  BY <1>2, <1>3, LocksFinite
<1>5. Total(AmountOf', Locked) = Total(AmountOf, Locked)
  BY <1>2, LocksFinite, TotalSame
<1>6. Total(AmountOf', Locked \cup {l}) = Total(AmountOf', Locked) + AmountOf'[l]
  BY <1>1, <1>4, LocksFinite, TotalAdd
<1> QED
  BY <1>1, <1>3, <1>5, <1>6

LEMMA LockEnds ==
    ASSUME TypeOK, NEW l \in LockIds,
           lock[l].status = "locked", lock'[l].status # "locked",
           \A j \in LockIds \ {l} : lock'[j] = lock[j]
    PROVE  Total(AmountOf, Locked)' = Total(AmountOf, Locked) - lock[l].amount
<1>1. l \in Locked /\ Locked' = Locked \ {l}
  BY DEF Locked
<1>2. \A j \in Locked \ {l} : AmountOf'[j] = AmountOf[j]
  BY <1>1 DEF AmountOf, Locked
<1>3. IsFiniteSet(Locked \ {l})
  BY LocksFinite, FS_RemoveElement
<1>4. Total(AmountOf', Locked \ {l}) = Total(AmountOf, Locked \ {l})
  BY <1>2, <1>3, TotalSame
<1>5. \A j \in Locked : AmountOf[j] \in Int
  BY LocksFinite
<1>6. Total(AmountOf, Locked) = AmountOf[l] + Total(AmountOf, Locked \ {l})
  BY <1>1, <1>5, LocksFinite, TotalRemove
<1>7. Total(AmountOf, Locked \ {l}) \in Int /\ AmountOf[l] \in Int /\ AmountOf[l] = lock[l].amount
  BY <1>3, <1>5, LocksFinite, TotalInt
<1> QED
  BY <1>1, <1>4, <1>6, <1>7

LEMMA BalanceMoves ==
    ASSUME TypeOK, TypeOK', NEW m \in Mandates,
           \A k \in Mandates \ {m} : balance'[k] = balance[k]
    PROVE  Total(balance, Mandates)' = Total(balance, Mandates) + balance'[m] - balance[m]
<1>1. \A k \in Mandates : balance[k] \in Int /\ balance'[k] \in Int
  BY DEF TypeOK
<1>2. \A k \in Mandates \ {m} : balance[k] = balance'[k]
  OBVIOUS
<1> QED
  BY <1>1, <1>2, TotalMove, VaultAssumption

LEMMA SolventKept ==
    ASSUME SolventInv, UNCHANGED <<lock, balance>>,
           token'[Vault] = token[Vault], token'[Escrow] = token[Escrow]
    PROVE  Solvent'
<1>1. UNCHANGED <<AmountOf, Locked>>
  BY DEF AmountOf, Locked
<1>2. /\ Total(AmountOf, Locked)' = Total(AmountOf, Locked)
      /\ Total(balance, Mandates)' = Total(balance, Mandates)
  BY <1>1
<1> QED
  BY <1>2 DEF SolventInv, Solvent

LEMMA SolventOpen ==
    ASSUME SolventInv, TypeOK', NEW u \in Users, NEW l \in LockIds, NEW k \in Secrets,
           NEW x \in Matches, NEW v \in Users, NEW n \in Amounts,
           NEW t \in Nat, OpenLock(u, l, k, x, v, n, t), UNCHANGED balance
    PROVE  Solvent'
<1>0. TypeOK /\ n \in Nat /\ u # Vault /\ u # Escrow
  BY Outsiders, VaultAssumption, EscrowAssumption DEF SolventInv, VaultInv
<1>1. /\ lock[l].status # "locked" /\ lock'[l].status = "locked" /\ lock'[l].amount = n
      /\ \A j \in LockIds \ {l} : lock'[j] = lock[j]
  BY <1>0 DEF OpenLock, TypeOK, EscrowTypeOK
<1>2. Total(AmountOf, Locked)' = Total(AmountOf, Locked) + n
  BY <1>0, <1>1, LockOpens
<1>3. token'[Escrow] = token[Escrow] + n /\ token'[Vault] = token[Vault]
  BY <1>0, TransferMoves, Outsiders DEF OpenLock
<1>4. Total(balance, Mandates)' = Total(balance, Mandates)
  OBVIOUS
<1> QED
  BY <1>2, <1>3, <1>4 DEF SolventInv, Solvent

LEMMA SolventClaim ==
    ASSUME SolventInv, NEW u \in Users, NEW l \in LockIds, UNCHANGED balance,
           (\E k \in Secrets : Claim(u, l, k)) \/ Refund(u, l)
    PROVE  Solvent'
<1>0. TypeOK /\ lock[l].amount \in Nat /\ u # Vault /\ u # Escrow
  BY LocksFinite, EscrowAssumption DEF SolventInv, VaultInv
<1>1. /\ lock[l].status = "locked" /\ lock'[l].status # "locked"
      /\ \A j \in LockIds \ {l} : lock'[j] = lock[j]
      /\ Transfer(Escrow, u, lock[l].amount)
  BY <1>0 DEF Claim, Refund, TypeOK, EscrowTypeOK, Lock
<1>2. Total(AmountOf, Locked)' = Total(AmountOf, Locked) - lock[l].amount
  BY <1>0, <1>1, LockEnds
<1>3. token'[Escrow] = token[Escrow] - lock[l].amount /\ token'[Vault] = token[Vault]
  BY <1>0, <1>1, TransferMoves, Outsiders
<1>4. Total(balance, Mandates)' = Total(balance, Mandates)
  OBVIOUS
<1> QED
  BY <1>2, <1>3, <1>4 DEF SolventInv, Solvent

LEMMA SolventReclaim ==
    ASSUME SolventInv, TypeOK', NEW l \in LockIds, ReclaimPayout(l)
    PROVE  Solvent'
<1>0. TypeOK /\ lock[l].amount \in Nat
  BY LocksFinite DEF SolventInv, VaultInv
<1>1. /\ lock[l].status = "locked" /\ lock[l].depositor = Vault
      /\ lock'[l].status # "locked"
      /\ \A j \in LockIds \ {l} : lock'[j] = lock[j]
      /\ Transfer(Escrow, Vault, lock[l].amount)
  BY <1>0 DEF ReclaimPayout, Refund, TypeOK, EscrowTypeOK, Lock
<1> DEFINE p == payout[lock[l].ref]
<1>2. /\ payoutLock[l] = lock[l].ref
      /\ p.mandate \in Mandates /\ p.price = lock[l].amount
  BY <1>1 DEF SolventInv, VaultInv, Links, Reclaimable, OneEach, Whole, OfVault, For
<1>3. balance' = [balance EXCEPT ![p.mandate] = @ + p.price]
  BY <1>2 DEF ReclaimPayout
<1> HIDE DEF p
<1>4. PICK m \in Mandates : m = p.mandate
  BY <1>2
<1>5. /\ balance'[m] = balance[m] + lock[l].amount
      /\ \A k \in Mandates \ {m} : balance'[k] = balance[k]
  BY <1>0, <1>2, <1>3, <1>4 DEF TypeOK
<1>6. Total(balance, Mandates)' = Total(balance, Mandates) + balance'[m] - balance[m]
  BY <1>0, <1>5, BalanceMoves
<1>7. Total(AmountOf, Locked)' = Total(AmountOf, Locked) - lock[l].amount
  BY <1>0, <1>1, LockEnds
<1>8. token'[Escrow] = token[Escrow] - lock[l].amount
      /\ token'[Vault] = token[Vault] + lock[l].amount
  BY <1>0, <1>1, TransferMoves, Outsiders, EscrowAssumption
<1>9. balance[m] \in Nat
  BY <1>0 DEF TypeOK
<1> QED
  BY <1>0, <1>5, <1>6, <1>7, <1>8, <1>9, SumsTyped DEF SolventInv, Solvent

LEMMA SolventDeposit ==
    ASSUME SolventInv, TypeOK', NEW u \in Users, NEW m \in Mandates, NEW n \in Amounts,
           Deposit(u, m, n)
    PROVE  Solvent'
<1>0. TypeOK /\ n \in Nat /\ u # Vault /\ u # Escrow
  BY VaultAssumption, EscrowAssumption DEF SolventInv, VaultInv
<1>1. /\ balance'[m] = balance[m] + n /\ balance[m] \in Nat
      /\ \A k \in Mandates \ {m} : balance'[k] = balance[k]
  BY <1>0 DEF Deposit, TypeOK
<1>2. Total(balance, Mandates)' = Total(balance, Mandates) + balance'[m] - balance[m]
  BY <1>0, <1>1, BalanceMoves
<1>3. token'[Vault] = token[Vault] + n /\ token'[Escrow] = token[Escrow]
  BY <1>0, TransferMoves, Outsiders, EscrowAssumption DEF Deposit
<1>4. Total(AmountOf, Locked)' = Total(AmountOf, Locked)
  BY DEF Deposit, AmountOf, Locked
<1> QED
  BY <1>0, <1>1, <1>2, <1>3, <1>4, SumsTyped DEF SolventInv, Solvent

LEMMA SolventRelease ==
    ASSUME SolventInv, TypeOK', NEW u \in Users, NEW a \in AuthIds, NEW m \in Mandates,
           NEW n \in Amounts, ExecuteRelease(u, a, m, n)
    PROVE  Solvent'
<1>0. TypeOK /\ n \in Nat /\ buyer[m] \in Users /\ buyer[m] # Vault /\ buyer[m] # Escrow
  BY VaultAssumption, EscrowAssumption DEF SolventInv, VaultInv, ExecuteRelease, TypeOK
<1>1. /\ balance'[m] = balance[m] - n /\ balance[m] \in Nat
      /\ \A k \in Mandates \ {m} : balance'[k] = balance[k]
  BY <1>0 DEF ExecuteRelease, Consume, TypeOK
<1>2. Total(balance, Mandates)' = Total(balance, Mandates) + balance'[m] - balance[m]
  BY <1>0, <1>1, BalanceMoves
<1>3. token'[Vault] = token[Vault] - n /\ token'[Escrow] = token[Escrow]
  BY <1>0, TransferMoves, Outsiders, EscrowAssumption DEF ExecuteRelease
<1>4. Total(AmountOf, Locked)' = Total(AmountOf, Locked)
  BY DEF ExecuteRelease, AmountOf, Locked
<1> QED
  BY <1>0, <1>1, <1>2, <1>3, <1>4, SumsTyped DEF SolventInv, Solvent

LEMMA SolventPayout ==
    ASSUME SolventInv, TypeOK', NEW u \in Users, NEW a \in AuthIds, NEW x \in Matches,
           NEW l \in LockIds, NEW k \in Secrets, ExecutePayout(u, a, x, l, k)
    PROVE  Solvent'
<1> DEFINE p == payout[x]
<1>0. TypeOK /\ p.price \in Nat /\ p.mandate \in Mandates
  BY DEF SolventInv, VaultInv, Links, Whole, TypeOK, Payout, ExecutePayout
<1>1. PICK m \in Mandates, n \in Nat : m = p.mandate /\ n = p.price
  BY <1>0
<1>2. /\ balance'[m] = balance[m] - n /\ balance[m] \in Nat
      /\ \A j \in Mandates \ {m} : balance'[j] = balance[j]
  BY <1>0, <1>1 DEF ExecutePayout, Consume, TypeOK
<1>3. Total(balance, Mandates)' = Total(balance, Mandates) + balance'[m] - balance[m]
  BY <1>0, <1>2, BalanceMoves
<1>4. /\ lock[l].status # "locked" /\ lock'[l].status = "locked" /\ lock'[l].amount = n
      /\ \A j \in LockIds \ {l} : lock'[j] = lock[j]
      /\ Transfer(Vault, Escrow, n)
  BY <1>0, <1>1 DEF ExecutePayout, OpenLock, TypeOK, EscrowTypeOK
<1>5. Total(AmountOf, Locked)' = Total(AmountOf, Locked) + n
  BY <1>0, <1>4, LockOpens
<1>6. token'[Escrow] = token[Escrow] + n /\ token'[Vault] = token[Vault] - n
  BY <1>0, <1>4, TransferMoves, Outsiders, EscrowAssumption
<1> QED
  BY <1>0, <1>2, <1>3, <1>5, <1>6, SumsTyped DEF SolventInv, Solvent

LEMMA SolventStep ==
    ASSUME SolventInv, TypeOK', [Next]_vars
    PROVE  Solvent'
<1>0. TypeOK
  BY DEF SolventInv, VaultInv
<1>1. ASSUME NEW u \in Users, NEW v \in Users, Administration(u, v)
      PROVE  Solvent'
  BY <1>1, SolventKept DEF Administration, SetAttester, TransferOwnership,
                           vaultVars, escrowVars
<1>2. ASSUME NEW u \in Users, Relayed(u)
      PROVE  Solvent'
  <2>1. ASSUME NEW m \in Mandates, NEW b \in Users, RegisterMandate(u, m, b)
        PROVE  Solvent'
    BY <2>1, SolventKept DEF RegisterMandate, escrowVars
  <2>2. ASSUME NEW x \in Matches, NEW m \in Mandates, NEW s \in Users,
               NEW n \in Amounts, RegisterMatch(u, x, m, s, n)
        PROVE  Solvent'
    BY <2>2, SolventKept DEF RegisterMatch, escrowVars
  <2> QED
    BY <1>2, <2>1, <2>2, SolventRelease, SolventPayout DEF Relayed
<1>3. ASSUME NEW u \in Users, Escrowed(u)
      PROVE  Solvent'
  <2>1. UNCHANGED balance
    BY <1>3 DEF Escrowed, vaultVars
  <2>2. ASSUME NEW l \in LockIds, NEW k \in Secrets, NEW x \in Matches, NEW v \in Users,
               NEW n \in Amounts, NEW d \in Durations, OpenLock(u, l, k, x, v, n, now + d)
        PROVE  Solvent'
    <3>1. now + d \in Nat
      BY <1>0, VaultAssumption DEF TypeOK, EscrowTypeOK
    <3> QED
      BY <2>1, <2>2, <3>1, SolventOpen
  <2>3. ASSUME NEW l \in LockIds, (\E k \in Secrets : Claim(u, l, k)) \/ Refund(u, l)
        PROVE  Solvent'
    BY <2>1, <2>3, SolventClaim
  <2> QED
    BY <1>3, <2>2, <2>3 DEF Escrowed
<1>4. ASSUME NEW u \in Users, NEW m \in Mandates, NEW n \in Amounts, Deposit(u, m, n)
      PROVE  Solvent'
  BY <1>4, SolventDeposit
<1>5. ASSUME NEW l \in LockIds, ReclaimPayout(l)
      PROVE  Solvent'
  BY <1>5, SolventReclaim
<1>6. CASE Tick /\ UNCHANGED <<vaultVars, roleVars>>
  BY <1>6, SolventKept DEF Tick, vaultVars, escrowVars
<1>7. CASE UNCHANGED vars
  BY <1>7, SolventKept DEF vars
<1> QED
  BY <1>1, <1>2, <1>3, <1>4, <1>5, <1>6, <1>7 DEF Next

(* Every cent in the vault is one mandate's, and every cent in the escrow   *)
(* one open lock's, however many mandates, locks and wallets there are and  *)
(* whatever the attester relays.                                            *)
THEOREM VaultSolvent == Spec => []Solvent
<1>1. Init => Solvent
  <2> SUFFICES ASSUME Init PROVE Solvent
    OBVIOUS
  <2>1. token[Vault] = 0 /\ token[Escrow] = 0
    BY EscrowAssumption DEF Init, EscrowInit, Holders
  <2>2. Locked = {} /\ \A m \in Mandates : balance[m] = 0
    BY DEF Init, EscrowInit, Locked, NoLock
  <2>3. Total(balance, Mandates) = 0
    BY <2>2, TotalZero, VaultAssumption
  <2>4. Total(AmountOf, Locked) = 0
    BY <2>2, TotalEmpty
  <2> QED
    BY <2>1, <2>3, <2>4 DEF Solvent
<1>2. VaultInv /\ VaultInv' /\ Solvent /\ [Next]_vars => Solvent'
  BY SolventStep DEF SolventInv, VaultInv
<1> QED
  BY <1>1, <1>2, VaultInvariant, PTL DEF Spec

-----------------------------------------------------------------------------
(* The vault and the escrow implement the payout ledger.                    *)

Stages == [x \in Matches |-> StageOf(x)]
Terms == [x \in Matches |-> TermsOf(x)]
Dues == [x \in Matches |-> DueOf(x)]

(* What the ledger sees of a match is its record and its locks.             *)
LEMMA Unseen ==
    ASSUME NEW x \in Matches, UNCHANGED payout[x],
           PayoutLocks(x)' = PayoutLocks(x),
           \A l \in PayoutLocks(x) : UNCHANGED <<lock[l], revealed[l]>>
    PROVE  /\ StageOf(x)' = StageOf(x)
           /\ TermsOf(x)' = TermsOf(x)
           /\ DueOf(x)' = DueOf(x)
<1>1. Open(x)' = Open(x) /\ Paid(x)' = Paid(x)
  BY DEF Open, Paid
<1>2. StageOf(x)' = StageOf(x)
  BY <1>1 DEF StageOf
<1>3. TermsOf(x)' = TermsOf(x)
  BY DEF TermsOf
<1>4. DueOf(x)' = DueOf(x)
  BY DEF DueOf
<1> QED
  BY <1>2, <1>3, <1>4

LEMMA UnseenAll ==
    ASSUME UNCHANGED <<payout, lock, revealed>>
    PROVE  UNCHANGED <<Stages, Terms, Dues>>
<1>1. \A x \in Matches : PayoutLocks(x)' = PayoutLocks(x)
  BY DEF PayoutLocks
<1>2. \A x \in Matches : /\ StageOf(x)' = StageOf(x)
                         /\ TermsOf(x)' = TermsOf(x)
                         /\ DueOf(x)' = DueOf(x)
  BY <1>1, Unseen
<1> QED
  BY <1>2 DEF Stages, Terms, Dues

(* A match not paid out has no lock, and one paid out has just the one.     *)
LEMMA LocksOf ==
    ASSUME VaultInv, NEW l \in LockIds
    PROVE  /\ \A x \in Matches : ~payout[x].executed => PayoutLocks(x) = {}
           /\ lock[l].depositor = Vault =>
                  /\ lock[l].ref \in Matches
                  /\ PayoutLocks(lock[l].ref) = {l}
                  /\ payout[lock[l].ref].executed
                  /\ payout[lock[l].ref].seller # Null
BY DEF VaultInv, Links, OneEach, Whole, OfVault, For, PayoutLocks

(* A step that changes one lock, or none of the vault's, and no record.     *)
LEMMA UnseenOthers ==
    ASSUME VaultInv, NEW l \in LockIds,
           \A j \in LockIds \ {l} : UNCHANGED <<lock[j], revealed[j]>>,
           NEW x \in Matches, UNCHANGED payout[x],
           l \notin PayoutLocks(x), l \notin PayoutLocks(x)'
    PROVE  /\ StageOf(x)' = StageOf(x)
           /\ TermsOf(x)' = TermsOf(x)
           /\ DueOf(x)' = DueOf(x)
<1>1. PayoutLocks(x)' = PayoutLocks(x)
  BY DEF PayoutLocks
<1>2. \A j \in PayoutLocks(x) : UNCHANGED <<lock[j], revealed[j]>>
  BY DEF PayoutLocks
<1> QED
  BY <1>1, <1>2, Unseen

(* Registration binds the match.                                            *)
LEMMA RegisterBinds ==
    ASSUME VaultInv, NEW u \in Users, NEW x \in Matches, NEW m \in Mandates,
           NEW s \in Users, NEW n \in Amounts, RegisterMatch(u, x, m, s, n)
    PROVE  Ledger!Bind(x)
<1>0. n \in Nat \ {0}
  <2>1. n \in Nat
    OBVIOUS
  <2>2. n > 0
    BY DEF RegisterMatch
  <2> QED
    BY <2>1, <2>2
<1>1. /\ UNCHANGED <<lock, revealed, balance, now>>
      /\ payout[x].seller = Null /\ s # Null
  BY Outsiders DEF RegisterMatch, escrowVars
<1>2. /\ payout'[x].mandate = m /\ payout'[x].seller = s /\ payout'[x].price = n
      /\ ~payout'[x].executed
      /\ \A y \in Matches \ {x} : payout'[y] = payout[y]
  BY DEF RegisterMatch, VaultInv, TypeOK
<1>3. \A y \in Matches : PayoutLocks(y)' = PayoutLocks(y)
  BY <1>1 DEF PayoutLocks
<1>4. \A y \in Matches \ {x} : /\ StageOf(y)' = StageOf(y)
                               /\ TermsOf(y)' = TermsOf(y)
  BY <1>1, <1>2, <1>3, Unseen
<1>5. StageOf(x) = "unbound" /\ StageOf(x)' = "bound"
  BY <1>1, <1>2 DEF StageOf
<1>6. TermsOf(x)' = [mandate |-> m, seller |-> s, price |-> n]
  BY <1>2 DEF TermsOf
<1>7. Stages' = [Stages EXCEPT ![x] = "bound"]
  BY <1>4, <1>5 DEF Stages
<1>8. Terms' = [Terms EXCEPT ![x] = Terms'[x]]
  BY <1>4 DEF Terms
<1>9. Dues' = Dues
  BY <1>1, <1>3 DEF Dues, DueOf
<1>10. Terms'[x] \in [mandate : Mandates, seller : Users, price : Nat \ {0}]
  BY <1>0, <1>6 DEF Terms
<1>11. Stages[x] = "unbound"
  BY <1>5 DEF Stages
<1> QED
  BY <1>1, <1>7, <1>8, <1>9, <1>10, <1>11 DEF Ledger!Bind, Stages, Terms, Dues

LEMMA ExecutePaysOut ==
    ASSUME VaultInv, NEW u \in Users, NEW a \in AuthIds, NEW x \in Matches,
           NEW l \in LockIds, NEW k \in Secrets, ExecutePayout(u, a, x, l, k)
    PROVE  Ledger!PayOut(x)
<1>1. /\ UNCHANGED <<revealed, now>>
      /\ lock[l].status = "none" /\ lock[l].depositor # Vault
      /\ payout[x].seller # Null /\ ~payout[x].executed
  BY Outsiders DEF ExecutePayout, OpenLock, VaultInv, Links, Blank
<1>2. /\ lock'[l].status = "locked" /\ lock'[l].depositor = Vault
      /\ lock'[l].ref = x /\ lock'[l].timeout = now + PayoutWindow
      /\ \A j \in LockIds \ {l} : lock'[j] = lock[j]
  BY DEF ExecutePayout, OpenLock, VaultInv, TypeOK, EscrowTypeOK
<1>3. /\ payout'[x].executed
      /\ payout'[x].mandate = payout[x].mandate
      /\ payout'[x].seller = payout[x].seller
      /\ payout'[x].price = payout[x].price
      /\ \A y \in Matches \ {x} : payout'[y] = payout[y]
  BY DEF ExecutePayout, VaultInv, TypeOK, Payout
<1>4. PayoutLocks(x) = {} /\ PayoutLocks(x)' = {l}
  <2>1. PayoutLocks(x) = {}
    BY <1>1 DEF VaultInv, Links, OneEach, OfVault, For, PayoutLocks
  <2> QED
    BY <1>2, <2>1 DEF PayoutLocks
<1>5. \A y \in Matches \ {x} : /\ StageOf(y)' = StageOf(y)
                               /\ TermsOf(y)' = TermsOf(y)
                               /\ DueOf(y)' = DueOf(y)
  <2> TAKE y \in Matches \ {x}
  <2>1. l \notin PayoutLocks(y) /\ l \notin PayoutLocks(y)'
    BY <1>1, <1>2 DEF PayoutLocks
  <2> QED
    BY <1>1, <1>2, <1>3, <2>1, UnseenOthers
<1>6. StageOf(x) = "bound" /\ StageOf(x)' = "open"
  BY <1>1, <1>2, <1>3, <1>4 DEF StageOf, Open
<1>7. TermsOf(x)' = TermsOf(x)
  BY <1>3 DEF TermsOf
<1>8. DueOf(x)' = {now + PayoutWindow}
  BY <1>2, <1>4 DEF DueOf
<1>9. Stages' = [Stages EXCEPT ![x] = "open"] /\ Stages[x] = "bound"
  BY <1>5, <1>6 DEF Stages
<1>10. Terms' = Terms
  BY <1>5, <1>7 DEF Terms
<1>11. Dues' = [Dues EXCEPT ![x] = {now + PayoutWindow}]
  BY <1>5, <1>8 DEF Dues
<1>12. /\ Terms[x].price <= balance[Terms[x].mandate]
       /\ balance' = [balance EXCEPT ![Terms[x].mandate] = @ - Terms[x].price]
  BY DEF ExecutePayout, Consume, Terms, TermsOf
<1> QED
  BY <1>1, <1>9, <1>10, <1>11, <1>12 DEF Ledger!PayOut, Stages, Terms, Dues

LEMMA ClaimPays ==
    ASSUME VaultInv, NEW u \in Users, NEW l \in LockIds, NEW k \in Secrets,
           Claim(u, l, k), UNCHANGED vaultVars, lock[l].depositor = Vault
    PROVE  Ledger!Pay(lock[l].ref)
<1>0. PICK x \in Matches : x = lock[l].ref
  BY LocksOf
<1>1. /\ UNCHANGED <<payout, balance, now>>
      /\ lock[l].status = "locked" /\ now < lock[l].timeout
  BY DEF Claim, vaultVars
<1>2. /\ lock'[l].status = "claimed" /\ revealed'[l] # Null
      /\ lock'[l].depositor = Vault /\ lock'[l].ref = x
      /\ lock'[l].timeout = lock[l].timeout
      /\ \A j \in LockIds \ {l} : lock'[j] = lock[j] /\ revealed'[j] = revealed[j]
  BY <1>0 DEF Claim, VaultInv, TypeOK, EscrowTypeOK, Lock
<1>3. x \in Matches /\ PayoutLocks(x) = {l} /\ PayoutLocks(x)' = {l}
  <2>1. x \in Matches /\ PayoutLocks(x) = {l}
    BY <1>0, LocksOf
  <2>2. PayoutLocks(x)' = PayoutLocks(x)
    BY <1>0, <1>2 DEF PayoutLocks
  <2> QED
    BY <2>1, <2>2
<1>4. payout[x].executed /\ payout[x].seller # Null
  BY <1>0, LocksOf
<1>5. \A y \in Matches \ {x} : /\ StageOf(y)' = StageOf(y)
                               /\ TermsOf(y)' = TermsOf(y)
                               /\ DueOf(y)' = DueOf(y)
  <2> TAKE y \in Matches \ {x}
  <2>1. l \notin PayoutLocks(y) /\ l \notin PayoutLocks(y)'
    BY <1>0, <1>2 DEF PayoutLocks
  <2> QED
    BY <1>1, <1>2, <2>1, UnseenOthers
<1>6. StageOf(x) = "open" /\ StageOf(x)' = "paid"
  <2>1. Open(x) /\ ~Open(x)' /\ Paid(x)'
    BY <1>1, <1>2, <1>3 DEF Open, Paid
  <2> QED
    BY <1>1, <1>4, <2>1 DEF StageOf
<1>7. TermsOf(x)' = TermsOf(x)
  BY <1>1 DEF TermsOf
<1>8. DueOf(x) = {lock[l].timeout} /\ DueOf(x)' = DueOf(x)
  BY <1>2, <1>3 DEF DueOf
<1>9. Stages' = [Stages EXCEPT ![x] = "paid"] /\ Stages[x] = "open"
  BY <1>3, <1>5, <1>6 DEF Stages
<1>10. Terms' = Terms
  BY <1>5, <1>7 DEF Terms
<1>11. Dues' = Dues /\ Dues[x] = {lock[l].timeout}
  BY <1>3, <1>5, <1>8 DEF Dues
<1>12. Ledger!Pay(x)
  BY <1>1, <1>9, <1>10, <1>11 DEF Ledger!Pay, Stages, Terms, Dues
<1> QED
  BY <1>0, <1>12

LEMMA ReclaimReturns ==
    ASSUME VaultInv, NEW l \in LockIds, ReclaimPayout(l)
    PROVE  \E x \in Matches : Ledger!Return(x)
<1>0. PICK x \in Matches : x = lock[l].ref
  BY LocksOf DEF ReclaimPayout, Refund
<1>1. /\ UNCHANGED <<payout, revealed, now>>
      /\ lock[l].status = "locked" /\ lock[l].depositor = Vault
      /\ now >= lock[l].timeout
  BY DEF ReclaimPayout, Refund
<1>2. /\ lock'[l].status = "refunded"
      /\ lock'[l].depositor = Vault /\ lock'[l].ref = x
      /\ lock'[l].timeout = lock[l].timeout
      /\ \A j \in LockIds \ {l} : lock'[j] = lock[j]
  BY <1>0, <1>1 DEF ReclaimPayout, Refund, VaultInv, TypeOK, EscrowTypeOK, Lock
<1>3. /\ x \in Matches /\ PayoutLocks(x) = {l} /\ PayoutLocks(x)' = {l}
      /\ payoutLock[l] = x
  <2>1. x \in Matches /\ PayoutLocks(x) = {l}
    BY <1>0, <1>1, LocksOf
  <2>2. PayoutLocks(x)' = PayoutLocks(x)
    BY <1>0, <1>1, <1>2 DEF PayoutLocks
  <2>3. payoutLock[l] = x
    BY <1>0, <1>1 DEF VaultInv, Links, Reclaimable
  <2> QED
    BY <2>1, <2>2, <2>3
<1>4. payout[x].executed /\ payout[x].seller # Null
  BY <1>0, <1>1, LocksOf
<1>5. \A y \in Matches \ {x} : /\ StageOf(y)' = StageOf(y)
                               /\ TermsOf(y)' = TermsOf(y)
                               /\ DueOf(y)' = DueOf(y)
  <2> TAKE y \in Matches \ {x}
  <2>1. l \notin PayoutLocks(y) /\ l \notin PayoutLocks(y)'
    BY <1>0, <1>2 DEF PayoutLocks
  <2> QED
    BY <1>1, <1>2, <2>1, UnseenOthers
<1>6. StageOf(x) = "open" /\ StageOf(x)' = "returned"
  <2>1. Open(x) /\ ~Open(x)'
    BY <1>1, <1>2, <1>3 DEF Open
  <2>2. ~Paid(x)'
    BY <1>1, <1>3 DEF Paid, VaultInv, Links, Blank
  <2> QED
    BY <1>1, <1>4, <2>1, <2>2 DEF StageOf
<1>7. TermsOf(x)' = TermsOf(x)
  BY <1>1 DEF TermsOf
<1>8. DueOf(x) = {lock[l].timeout} /\ DueOf(x)' = DueOf(x)
  BY <1>2, <1>3 DEF DueOf
<1>9. Stages' = [Stages EXCEPT ![x] = "returned"] /\ Stages[x] = "open"
  BY <1>3, <1>5, <1>6 DEF Stages
<1>10. Terms' = Terms
  BY <1>5, <1>7 DEF Terms
<1>11. Dues' = Dues /\ Dues[x] = {lock[l].timeout}
  BY <1>3, <1>5, <1>8 DEF Dues
<1>12. balance' = [balance EXCEPT ![Terms[x].mandate] = @ + Terms[x].price]
  BY <1>3 DEF ReclaimPayout, Terms, TermsOf
<1>13. Ledger!Return(x)
  BY <1>1, <1>9, <1>10, <1>11, <1>12 DEF Ledger!Return, Stages, Terms, Dues
<1> QED
  BY <1>3, <1>13

(* What wallets do with locks of their own the ledger never sees.           *)
LEMMA ForeignHidden ==
    ASSUME VaultInv, NEW l \in LockIds, UNCHANGED <<payout, balance, now>>,
           \A j \in LockIds \ {l} : UNCHANGED <<lock[j], revealed[j]>>,
           lock[l].depositor # Vault, lock'[l].depositor # Vault
    PROVE  UNCHANGED Ledger!vars
<1>1. \A y \in Matches : l \notin PayoutLocks(y) /\ l \notin PayoutLocks(y)'
  BY DEF PayoutLocks
<1>2. \A y \in Matches : /\ StageOf(y)' = StageOf(y)
                         /\ TermsOf(y)' = TermsOf(y)
                         /\ DueOf(y)' = DueOf(y)
  BY <1>1, UnseenOthers
<1>3. UNCHANGED <<Stages, Terms, Dues>>
  BY <1>2 DEF Stages, Terms, Dues
<1> QED
  BY <1>3 DEF Ledger!vars, Stages, Terms, Dues

LEMMA EscrowStep ==
    ASSUME VaultInv, NEW u \in Users, Escrowed(u)
    PROVE  [Ledger!Next]_(Ledger!vars)
<1>0. UNCHANGED vaultVars /\ u # Vault /\ Null # Vault
  BY Outsiders DEF Escrowed
<1>1. ASSUME NEW l \in LockIds, NEW k \in Secrets, NEW x \in Matches, NEW v \in Users,
             NEW n \in Amounts, NEW d \in Durations, OpenLock(u, l, k, x, v, n, now + d)
      PROVE  UNCHANGED Ledger!vars
  <2>1. lock[l].depositor # Vault
    BY <1>0, <1>1 DEF OpenLock, VaultInv, Links, Blank
  <2>2. /\ lock'[l].depositor # Vault
        /\ \A j \in LockIds \ {l} : UNCHANGED <<lock[j], revealed[j]>>
    BY <1>0, <1>1 DEF OpenLock, VaultInv, TypeOK, EscrowTypeOK
  <2>3. UNCHANGED <<payout, balance, now>>
    BY <1>0, <1>1 DEF OpenLock, vaultVars
  <2> QED
    BY <2>1, <2>2, <2>3, ForeignHidden
<1>2. ASSUME NEW l \in LockIds, NEW k \in Secrets, Claim(u, l, k)
      PROVE  [Ledger!Next]_(Ledger!vars)
  <2>1. CASE lock[l].depositor = Vault
    <3>1. lock[l].ref \in Matches
      BY <2>1, LocksOf
    <3>2. Ledger!Pay(lock[l].ref)
      BY <1>0, <1>2, <2>1, ClaimPays
    <3> QED
      BY <3>1, <3>2 DEF Ledger!Next
  <2>2. CASE lock[l].depositor # Vault
    <3>1. /\ lock'[l].depositor # Vault
          /\ \A j \in LockIds \ {l} : UNCHANGED <<lock[j], revealed[j]>>
      BY <1>2, <2>2 DEF Claim, VaultInv, TypeOK, EscrowTypeOK, Lock
    <3>2. UNCHANGED <<payout, balance, now>>
      BY <1>0, <1>2 DEF Claim, vaultVars
    <3> QED
      BY <2>2, <3>1, <3>2, ForeignHidden
  <2> QED
    BY <2>1, <2>2
<1>3. ASSUME NEW l \in LockIds, Refund(u, l)
      PROVE  UNCHANGED Ledger!vars
  <2>1. /\ lock[l].depositor # Vault /\ lock'[l].depositor # Vault
        /\ \A j \in LockIds \ {l} : UNCHANGED <<lock[j], revealed[j]>>
    BY <1>0, <1>3 DEF Refund, VaultInv, TypeOK, EscrowTypeOK, Lock
  <2>2. UNCHANGED <<payout, balance, now>>
    BY <1>0, <1>3 DEF Refund, vaultVars
  <2> QED
    BY <2>1, <2>2, ForeignHidden
<1> QED
  BY <1>1, <1>2, <1>3 DEF Escrowed

LEMMA LedgerStep ==
    ASSUME VaultInv, VaultInv', [Next]_vars
    PROVE  [Ledger!Next]_(Ledger!vars)
<1>1. ASSUME UNCHANGED <<payout, lock, revealed, balance, now>>
      PROVE  UNCHANGED Ledger!vars
  <2>1. UNCHANGED <<Stages, Terms, Dues>>
    BY <1>1, UnseenAll
  <2> QED
    BY <1>1, <2>1 DEF Ledger!vars, Stages, Terms, Dues
<1>2. ASSUME NEW u \in Users, NEW v \in Users, Administration(u, v)
      PROVE  UNCHANGED Ledger!vars
  BY <1>1, <1>2 DEF Administration, SetAttester, TransferOwnership, vaultVars, escrowVars
<1>3. ASSUME NEW m \in Mandates, UNCHANGED <<payout, lock, revealed, now>>,
             balance' = [balance EXCEPT ![m] = balance'[m]]
      PROVE  Ledger!Next
  <2>1. UNCHANGED <<Stages, Terms, Dues>>
    BY <1>3, UnseenAll
  <2>2. balance'[m] \in Nat
    BY DEF VaultInv, TypeOK
  <2>3. Ledger!Fund(m)
    BY <1>3, <2>1, <2>2 DEF Ledger!Fund, Stages, Terms, Dues
  <2> QED
    BY <2>3 DEF Ledger!Next
<1>4. ASSUME NEW u \in Users, Relayed(u)
      PROVE  [Ledger!Next]_(Ledger!vars)
  <2>1. ASSUME NEW m \in Mandates, NEW b \in Users, RegisterMandate(u, m, b)
        PROVE  UNCHANGED Ledger!vars
    BY <1>1, <2>1 DEF RegisterMandate, escrowVars
  <2>2. ASSUME NEW x \in Matches, NEW m \in Mandates, NEW s \in Users,
               NEW n \in Amounts, RegisterMatch(u, x, m, s, n)
        PROVE  Ledger!Next
    BY <2>2, RegisterBinds DEF Ledger!Next
  <2>3. ASSUME NEW a \in AuthIds, NEW m \in Mandates, NEW n \in Amounts,
               ExecuteRelease(u, a, m, n)
        PROVE  Ledger!Next
    <3>1. balance' = [balance EXCEPT ![m] = balance'[m]]
      BY <2>3 DEF ExecuteRelease, Consume, VaultInv, TypeOK
    <3> QED
      BY <1>3, <2>3, <3>1 DEF ExecuteRelease
  <2>4. ASSUME NEW a \in AuthIds, NEW x \in Matches, NEW l \in LockIds,
               NEW k \in Secrets, ExecutePayout(u, a, x, l, k)
        PROVE  Ledger!Next
    BY <2>4, ExecutePaysOut DEF Ledger!Next
  <2> QED
    BY <1>4, <2>1, <2>2, <2>3, <2>4 DEF Relayed
<1>5. ASSUME NEW u \in Users, NEW m \in Mandates, NEW n \in Amounts, Deposit(u, m, n)
      PROVE  Ledger!Next
  <2>1. balance' = [balance EXCEPT ![m] = balance'[m]]
    BY <1>5 DEF Deposit, VaultInv, TypeOK
  <2> QED
    BY <1>3, <1>5, <2>1 DEF Deposit
<1>6. ASSUME NEW l \in LockIds, ReclaimPayout(l)
      PROVE  Ledger!Next
  BY <1>6, ReclaimReturns DEF Ledger!Next
<1>7. ASSUME Tick /\ UNCHANGED <<vaultVars, roleVars>>
      PROVE  Ledger!Next
  <2>1. UNCHANGED <<payout, lock, revealed, balance>> /\ now' = now + 1
    BY <1>7 DEF Tick, vaultVars, escrowVars
  <2>2. UNCHANGED <<Stages, Terms, Dues>>
    BY <2>1, UnseenAll
  <2> QED
    BY <2>1, <2>2 DEF Ledger!Next, Ledger!Pass, Stages, Terms, Dues
<1>8. ASSUME UNCHANGED vars
      PROVE  UNCHANGED Ledger!vars
  BY <1>1, <1>8 DEF vars
<1> QED
  BY <1>2, <1>4, <1>5, <1>6, <1>7, <1>8, EscrowStep DEF Next

(* Vault and escrow implement the payout ledger: whatever is relayed and    *)
(* whoever calls, a payout is bound once, leaves its own mandate's fund     *)
(* once, and is then paid inside its window or returned after it.           *)
THEOREM VaultImplementsLedger == Spec => ImplementsLedger
<1>1. Init => Ledger!Init
  <2> SUFFICES ASSUME Init PROVE Ledger!Init
    OBVIOUS
  <2>1. /\ \A l \in LockIds : lock[l].depositor = Null
        /\ \A x \in Matches : payout[x] = NoPayout
        /\ balance = [m \in Mandates |-> 0] /\ now = 0
    BY DEF Init, EscrowInit, NoLock
  <2>2. \A x \in Matches : PayoutLocks(x) = {}
    BY <2>1, Outsiders DEF PayoutLocks
  <2>3. \A x \in Matches : /\ StageOf(x) = "unbound"
                           /\ TermsOf(x) = Ledger!NoTerms
                           /\ DueOf(x) = {}
    BY <2>1, <2>2 DEF StageOf, TermsOf, DueOf, NoPayout, Ledger!NoTerms
  <2> QED
    BY <2>1, <2>3 DEF Ledger!Init
<1>2. VaultInv /\ VaultInv' /\ [Next]_vars => [Ledger!Next]_(Ledger!vars)
  BY LedgerStep
<1> QED
  BY <1>1, <1>2, VaultInvariant, PTL DEF Spec, ImplementsLedger, Ledger!Spec
=============================================================================
