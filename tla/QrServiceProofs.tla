--------------------------- MODULE QrServiceProofs ---------------------------
(* Proofs about QrService, for any requests, lifetimes and clock. *)
EXTENDS QrService, TLAPS

(* A request with a payload has a key. *)
LEMMA KeyOfRequest ==
  ASSUME NEW r \in Request, r.uri # None
  PROVE  CacheKey(r) \in Keys
BY DEF CacheKey, Keys, Request

(* Lifetimes are positive numbers, and the stored one respects both limits. *)
LEMMA Lifetimes ==
  ASSUME NEW r \in Request
  PROVE  /\ EffectiveTtl(r) \in Nat \ {0}
         /\ StoredTtl(EffectiveTtl(r)) \in Nat
         /\ StoredTtl(EffectiveTtl(r)) <= EffectiveTtl(r)
         /\ StoredTtl(EffectiveTtl(r)) <= CacheTtl
<1>1. EffectiveTtl(r) \in Nat \ {0}
  BY ClockAssumption DEF EffectiveTtl, Request
<1>2. QED
  BY <1>1, ClockAssumption DEF StoredTtl

(* An error says nothing of any code. *)
LEMMA ErrorsAreSafe ==
  ASSUME IInv, NEW r \in Request, Send(r, None, now)
  PROVE  /\ answer' \in Answer
         /\ ~Served'
BY DEF IInv, TypeOK, Send, Answer, Served

(* The cache is empty when the process starts. *)
LEMMA IInvInit == ASSUME Init PROVE IInv
BY ClockAssumption
   DEF Init, IInv, TypeOK, EntriesFit, CachedBriefly, CodeIsForRequest, NotServedExpired,
       Served

(* Every run of a handler, and everything that happens between two of      *)
(* them, keeps the entries fit.                                            *)
LEMMA IInvStep == ASSUME IInv, [Next]_vars PROVE IInv'
<1> USE ClockAssumption, NoneAssumption
<1>1. ASSUME NEW c \in Callers, NEW r \in Request, Refuse(c, r)
      PROVE  IInv'
  <2>1. answer' \in Answer /\ ~Served'
    BY <1>1, ErrorsAreSafe DEF Refuse
  <2>2. QED
    BY <1>1, <2>1
       DEF Refuse, IInv, TypeOK, EntriesFit, CachedBriefly, CodeIsForRequest,
           NotServedExpired, Expired
<1>2. ASSUME NEW c \in Callers, NEW r \in Request, ServeCached(c, r)
      PROVE  IInv'
  <2> DEFINE k == CacheKey(r)
  <2>1. k \in Keys /\ cache[k] \in Entry
    BY <1>2, KeyOfRequest DEF ServeCached, Hit, IInv, TypeOK
  <2>2. answer' = [to |-> r, code |-> cache[k].value, at |-> now]
    BY <1>2 DEF ServeCached, Send
  <2>3. answer' \in Answer
    BY <2>1, <2>2 DEF IInv, TypeOK, Entry, Answer
  <2>4. CodeIsForRequest'
    BY <1>2, <2>1, <2>2 DEF ServeCached, Hit, IInv, EntriesFit, CodeIsForRequest, CacheKey
  <2>5. NotServedExpired'
    <3>1. now <= cache[k].expiresAtMs
      BY <1>2, <2>1 DEF ServeCached, Hit, Expired, Entry, IInv, TypeOK
    <3>2. cache[k].expiresAtMs <= cache[k].value.expiresAt + Pause
      BY <1>2, <2>1 DEF ServeCached, Hit, IInv, EntriesFit
    <3>3. QED
      BY <2>1, <2>2, <3>1, <3>2 DEF NotServedExpired, IInv, TypeOK, Entry, Code
  <2>6. QED
    BY <1>2, <2>3, <2>4, <2>5
       DEF ServeCached, IInv, TypeOK, EntriesFit, CachedBriefly
<1>3. ASSUME NEW c \in Callers, NEW r \in Request, Miss(c, r)
      PROVE  IInv'
  <2>1. CacheKey(r) \in Keys
    BY <1>3, KeyOfRequest DEF Miss
  <2>2. \A k \in Keys : cache'[k] = cache[k] \/ cache'[k] = None
    BY <1>3, <2>1 DEF Miss, IInv, TypeOK
  <2>3. TypeOK'
    BY <1>3, <2>1, <2>2 DEF Miss, IInv, TypeOK
  <2>4. QED
    BY <1>3, <2>2, <2>3
       DEF Miss, IInv, EntriesFit, CachedBriefly, CodeIsForRequest, NotServedExpired, Served
<1>4. ASSUME NEW c \in Callers, NEW stored \in Later(now), Render(c, stored)
      PROVE  IInv'
  <2> DEFINE r == pending[c]
             ttl == StoredTtl(EffectiveTtl(r))
             code == [uri |-> r.uri, style |-> r.style, logo |-> r.logo,
                      expiresAt |-> now + EffectiveTtl(r)]
             entry == [value |-> code, expiresAtMs |-> stored + ttl]
  <2>1. r \in Request /\ r.uri # None
    BY <1>4 DEF Render, IInv, TypeOK
  <2>2. CacheKey(r) \in Keys
    BY <2>1, KeyOfRequest
  <2>3. /\ stored \in now .. now + Pause
        /\ stored \in 0 .. MaxTime
    BY DEF Later, IInv, TypeOK
  <2>4. /\ EffectiveTtl(r) \in Nat \ {0}
        /\ ttl \in Nat /\ ttl <= EffectiveTtl(r) /\ ttl <= CacheTtl
    BY <2>1, Lifetimes
  <2>5. code \in Code
    BY <2>1, <2>3, <2>4 DEF Code, Request, IInv, TypeOK
  <2>6. entry \in Entry /\ entry.expiresAtMs <= MaxTime + CacheTtl
    BY <2>3, <2>4, <2>5 DEF Entry
  <2>7. entry # None
    BY <2>6
  <2>8. cache' = [cache EXCEPT ![CacheKey(r)] = entry] /\ now' = stored
        /\ answer' = [to |-> r, code |-> code, at |-> stored]
        /\ pending' = [pending EXCEPT ![c] = None]
    BY <1>4 DEF Render, Send
  <2> HIDE DEF r, ttl, code, entry
  <2>9. \A k \in Keys : cache'[k] = IF k = CacheKey(r) THEN entry ELSE cache[k]
    BY <2>2, <2>8 DEF IInv, TypeOK
  <2>10. TypeOK'
    BY <2>1, <2>2, <2>3, <2>5, <2>6, <2>8, <2>9 DEF IInv, TypeOK, Answer
  <2>11. EntriesFit'
    <3>1. /\ entry.value.uri = CacheKey(r).uri
          /\ entry.value.style = CacheKey(r).style
          /\ (entry.value.logo # None) = CacheKey(r).logo
      BY DEF entry, code, CacheKey
    <3>2. entry.expiresAtMs <= entry.value.expiresAt + Pause
      BY <2>3, <2>4 DEF entry, code, IInv, TypeOK
    <3>3. QED
      BY <2>9, <3>1, <3>2 DEF IInv, EntriesFit
  <2>12. CachedBriefly'
    <3>1. entry.expiresAtMs <= stored + CacheTtl
      BY <2>3, <2>4 DEF entry
    <3>2. ASSUME NEW k \in Keys, cache[k] # None
          PROVE  cache[k].expiresAtMs <= stored + CacheTtl
      <4>1. cache[k] \in Entry /\ cache[k].expiresAtMs <= now + CacheTtl
        BY <3>2 DEF IInv, TypeOK, CachedBriefly
      <4>2. QED
        BY <4>1, <2>3 DEF Entry, IInv, TypeOK
    <3>3. QED
      BY <2>8, <2>9, <3>1, <3>2 DEF CachedBriefly
  <2>13. CodeIsForRequest' /\ NotServedExpired'
    BY <2>3, <2>4, <2>8 DEF CodeIsForRequest, NotServedExpired, code, IInv, TypeOK
  <2>14. QED
    BY <2>10, <2>11, <2>12, <2>13 DEF IInv
<1>5. ASSUME NEW c \in Callers, RenderFails(c)
      PROVE  IInv'
  <2>1. pending[c] \in Request
    BY <1>5 DEF RenderFails, IInv, TypeOK
  <2>2. answer' \in Answer /\ ~Served'
    BY <1>5, <2>1, ErrorsAreSafe DEF RenderFails
  <2>3. QED
    BY <1>5, <2>2
       DEF RenderFails, IInv, TypeOK, EntriesFit, CachedBriefly, CodeIsForRequest,
           NotServedExpired
<1>6. CASE Sweep
  <2>1. \A k \in Keys : cache'[k] = cache[k] \/ cache'[k] = None
    BY <1>6 DEF Sweep, Swept
  <2>2. TypeOK'
    BY <1>6, <2>1 DEF Sweep, Swept, IInv, TypeOK
  <2>3. QED
    BY <1>6, <2>1, <2>2
       DEF Sweep, IInv, EntriesFit, CachedBriefly, CodeIsForRequest, NotServedExpired, Served
<1>7. CASE Tick
  <2>1. ASSUME NEW k \in Keys, cache[k] # None
        PROVE  cache[k].expiresAtMs <= now' + CacheTtl
    BY <1>7, <2>1 DEF Tick, IInv, TypeOK, CachedBriefly, Entry
  <2>2. QED
    BY <1>7, <2>1
       DEF Tick, IInv, TypeOK, EntriesFit, CachedBriefly, CodeIsForRequest,
           NotServedExpired, Served
<1>8. CASE Restart
  BY <1>8
     DEF Restart, IInv, TypeOK, EntriesFit, CachedBriefly, CodeIsForRequest,
         NotServedExpired, Served
<1>9. CASE UNCHANGED vars
  BY <1>9
     DEF vars, IInv, TypeOK, EntriesFit, CachedBriefly, CodeIsForRequest,
         NotServedExpired, Served
<1>10. QED
  BY <1>1, <1>2, <1>3, <1>4, <1>5, <1>6, <1>7, <1>8, <1>9 DEF Next

(* The cache and every answer taken from it are sound at all times: the    *)
(* invariant of server.js's handler and cache.js together.                 *)
THEOREM Invariance == Spec => []IInv
<1>1. Init => IInv
  BY IInvInit
<1>2. IInv /\ [Next]_vars => IInv'
  BY IInvStep
<1>3. QED
  BY <1>1, <1>2, PTL DEF Spec

(* Whatever other requests stored, a caller gets the code it asked for     *)
(* (the cacheKey of server.js:149).                                        *)
THEOREM RightCode == Spec => []CodeIsForRequest
<1>1. IInv => CodeIsForRequest
  BY DEF IInv
<1>2. QED
  BY <1>1, Invariance, PTL

(* A cached code is not sent after its expiresAt (server.js:171).          *)
THEOREM InTime == Spec => []NotServedExpired
<1>1. IInv => NotServedExpired
  BY DEF IInv
<1>2. QED
  BY <1>1, Invariance, PTL

(* Nothing stays servable beyond QR_CACHE_TTL_SECONDS (server.js:171).     *)
THEOREM Brief == Spec => []CachedBriefly
<1>1. IInv => CachedBriefly
  BY DEF IInv
<1>2. QED
  BY <1>1, Invariance, PTL
===============================================================================
