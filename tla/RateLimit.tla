------------------------------ MODULE RateLimit -------------------------------
(* The shared limit on one key, counted in the database by every container:    *)
(* windows start at multiples of their length, one document counts the hits of *)
(* each, and documents past their expiry are removed.                          *)
EXTENDS Integers, FiniteSets, Totals

CONSTANTS
  Containers,    \* requests being counted at once
  WindowLength,  \* windowMs
  HitLimit,      \* limit
  LastInstant,   \* bound: instants followed
  MaxHits        \* bound: requests that come

ASSUME RateLimitAssumption ==
  /\ WindowLength \in Nat \ {0} /\ HitLimit \in Nat /\ LastInstant \in Nat /\ MaxHits \in Nat
  /\ IsFiniteSet(Containers)

VARIABLES
  instant,   \* Date.now()
  hits,      \* counts by the start of their window; 0: no document
  begun,     \* requests that came, up to MaxHits
  counting,  \* what each container is counting
  admitted,  \* history: requests let through, by the instant they came at
  ceded      \* history: a hit let through uncounted, or counted after its window

rateLimitVars == <<instant, hits, begun, counting, admitted, ceded>>

NotCounting == [op |-> "none"]

Counting == {NotCounting} \cup [op : {"hit"}, at : 0..LastInstant]

WindowStart(t) == (t \div WindowLength) * WindowLength

RateLimitTypeOK ==
  /\ instant \in 0..LastInstant
  /\ hits \in [0..LastInstant -> Nat]
  /\ begun \in 0..MaxHits
  /\ counting \in [Containers -> Counting]
  /\ admitted \in [0..LastInstant -> Nat]
  /\ ceded \in BOOLEAN

RateLimitInit ==
  /\ instant = 0
  /\ hits = [t \in 0..LastInstant |-> 0]
  /\ begun = 0
  /\ counting = [c \in Containers |-> NotCounting]
  /\ admitted = [t \in 0..LastInstant |-> 0]
  /\ ceded = FALSE

BeginHit(c) ==
  /\ counting[c] = NotCounting /\ begun < MaxHits
  /\ begun' = begun + 1
  /\ counting' = [counting EXCEPT ![c] = [op |-> "hit", at |-> instant]]
  /\ UNCHANGED <<instant, hits, admitted, ceded>>

(* Mutant: the limit is compared before the hit is added to the count.         *)
HitOverByOne(c) ==
  /\ counting[c].op = "hit"
  /\ LET at == counting[c].at
         w == WindowStart(at)
     IN /\ hits' = [hits EXCEPT ![w] = @ + 1]
        /\ admitted' = IF hits[w] <= HitLimit THEN [admitted EXCEPT ![at] = @ + 1] ELSE admitted
        /\ ceded' = (ceded \/ WindowStart(instant) # w)
  /\ counting' = [counting EXCEPT ![c] = NotCounting]
  /\ UNCHANGED <<instant, begun>>

(* One atomic upsert and increment; a lost insert is tried again.              *)
Hit(c) ==
  /\ counting[c].op = "hit"
  /\ LET at == counting[c].at
         w == WindowStart(at)
     IN /\ hits' = [hits EXCEPT ![w] = @ + 1]
        /\ admitted' = IF hits'[w] <= HitLimit THEN [admitted EXCEPT ![at] = @ + 1] ELSE admitted
        /\ ceded' = (ceded \/ WindowStart(instant) # w)
  /\ counting' = [counting EXCEPT ![c] = NotCounting]
  /\ UNCHANGED <<instant, begun>>

(* The store cannot be reached: the request is let through.                    *)
FailOpen(c) ==
  /\ counting[c].op = "hit"
  /\ admitted' = [admitted EXCEPT ![counting[c].at] = @ + 1]
  /\ counting' = [counting EXCEPT ![c] = NotCounting]
  /\ ceded' = TRUE
  /\ UNCHANGED <<instant, hits, begun>>

ExpireHits(t) ==
  /\ t + WindowLength <= instant /\ hits[t] > 0
  /\ hits' = [hits EXCEPT ![t] = 0]
  /\ UNCHANGED <<instant, begun, counting, admitted, ceded>>

InstantPasses ==
  /\ instant < LastInstant
  /\ instant' = instant + 1
  /\ UNCHANGED <<hits, begun, counting, admitted, ceded>>

RateLimitNext ==
  \/ \E c \in Containers : BeginHit(c) \/ Hit(c) \/ FailOpen(c)
  \/ \E t \in 0..LastInstant : ExpireHits(t)
  \/ InstantPasses

RateLimitSpec == RateLimitInit /\ [][RateLimitNext]_rateLimitVars

-------------------------------------------------------------------------------
(* "A fixed window allows up to twice the limit across a boundary"             *)
(* (mongoRateLimitStore.ts:17): from any admitted request on, for as long as a *)
(* window lasts, no more than twice the limit are let through, if the store    *)
(* answered every hit, and within the window it counts for.                    *)
AtMostTwiceTheLimit ==
  ~ceded => \A t \in {i \in 0..LastInstant : admitted[i] > 0} :
     Total({i \in 0..LastInstant : t <= i /\ i < t + WindowLength}, admitted) <= 2 * HitLimit

=============================================================================
